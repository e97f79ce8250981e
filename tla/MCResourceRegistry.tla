------------------------- MODULE MCResourceRegistry -------------------------
(* Small instances of ResourceRegistry for TLC. *)
EXTENDS ResourceRegistry

\* Descriptor 0, which remove_fd_resource() does not take, one that no
\* resource has the number of, and one that the third resource has.
SomeFds == {0, 1, 4}
=============================================================================
