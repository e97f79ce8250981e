# Verification of zend-ffi

This directory holds TLA+ models of `symplely/zend-ffi`, a PHP library that
reaches through `ext/ffi` into the running Zend engine: it registers PHP objects
as engine extensions, hooks engine functions with PHP closures, edits class
entries, hash tables and resources in place, and starts threads. The library is
hard to test because its steps are interleaved with the engine's own: callbacks
call back, destructors run in an order nobody chose, and the engine frees the
closures before it has finished using the places they were put in. That is what
the models are about.

Paths are relative to the repository; `tlc` is TLC and `tlapm` the TLAPS proof
manager.

## 1. Inventory

| part | state it keeps | operations | what is hard |
| --- | --- | --- | --- |
| **StandardModule** (`zend/StandardModule.php`), `standard_activate/deactivate` (`zend/Functions.php`) | the entry in `module_registry`, the static `$global_module` slots, the SAPI's `activate`/`deactivate` pointers with the saved originals, queued shutdown functions | construct (register + startup, or attach), `get_module`, `clear_module`, `module_destructor` | a chain of closures across objects; the order of shutdown functions, of ext/ffi's release of closures and of the last `sapi_deactivate()`; start-ups that fail half-way |
| **ThreadsModule** (`zend/ThreadsModule.php`), `zend_set_global()` (`zend/Functions.php`), the mutex of `Core` | `ub_write` of the SAPI and what was saved of it, a mutex, globals per thread | `startup`, `module_destructor`, `thread_startup`, `thread_shutdown`, `ub_write`, `reset_mutex` | one output hook and one mutex for all threads, a callback that runs once for each of them |
| **Hook objects** (`zend/Types/ObjectHandler.php`, `zend/Types/Handlers/*`, `zend/Types/AstProcess.php`) | the original handler; the operands of the call in progress; `EG(fake_scope)` | `handle`, `continue`, `value`, `install`, `__destruct` | nested and re-entrant calls through one object, exceptions, order of destructors |
| **ZendClassEntry, handlers** (`zend/Types/ZendClassEntry.php` 187-469) | `$objectHandlers` per class, handler tables | `createObject`, `castObject`..., `install_handlers`, `newInstance` | order of installation, a table replaced under its users |
| **ZendClassEntry, surgery** (same file) | interface and trait arrays, function table, parent, flags | `addInterfaces`, `removeInterfaces`, `addTraits`, `removeTraits`, `removeParent`, `addMethod`, ... | arrays and counts kept by hand, two allocators, fatal errors half-way |
| **Thread, PThread, TValue, Threading** (`zend/Types/Thread.php`, `zend/Types/PThread.php`, `zend/TValue.php`, `zend/Threading.php`) | a task queue under a mutex, native threads, results | `add`, `execute`, `empty`, `start`, `create`, `create_ex`, `join`, `__destruct` | the only concurrency: check-then-act on the queue, mutex left locked, loops that never end |
| **Resource, PhpStream** | static tables between descriptors, resources and zvals | `add_fd_pair`, `get_fd`, `clear`, `remove_fd`, `zval_to_fd`, ... | one key space for two kinds of numbers |
| **HashTable, ZendObjectsStore** | buckets, object slots of the engine | iterate, find, add, delete, `detach` | holes, compaction, stale handles |
| **Zval, ZendString, ZendReference, ZE, ZETrait** | reference counts | copy, release, `add_ref`, `del_ref`, `zval_set_data`, `zval_get_data` | counts kept by hand, references in C memory |
| **CStruct**, `ffi_free_if` | owned C memory | allocate, `free`, `__destruct` | double free, use after free, leaks |
| **Core, preload** | FFI instances per scope, process flags, the SAPI's name | `Core::get/set`, `ze_init`, `zend_preloader`, `cli_direct` | globals swapped around a call that may throw |
| **ZendCompiler, Ast** | the compiler's tree and mode | `parse_string` | the same, while the engine compiles a file |
| ZendExecutor, ZendOp, OpCode, ZendModule, Constants | accessors | | |

How they interact: a program builds `StandardModule` objects and hook objects; both
give PHP closures to the engine as C function pointers. The engine calls the closures
(through `ext/ffi`), and the closures call the engine again. `ThreadsModule` is a
`StandardModule`; `Thread` uses `TValue`, `PThread` and the threads module; everything
goes through `Core`'s FFI instances and the wrappers.

What makes each part correct:

- *StandardModule*: no slot leads to a freed closure; hooks are taken out again in
  time; request callbacks come in pairs with the SAPI's; a module's shutdown
  callbacks do run; slots and registry agree.
- *Hook calls*: a call's operands are its own; the write handler's answer is what is
  written; the scope is restored.
- *Hook installation*: chains end; a request leaves the engine's fields as they
  were; an object has every handler of its class.
- *Threads*: each task runs once, in order; the mutex is never left locked; tasks
  do run.
- *ThreadsModule*: output of two threads never mixes; whoever takes the mutex gives it
  back; the SAPI's own output is put back.
- *Resource*, *store*: the tables agree with each other and with what is alive.
- *Class surgery*, *HashTable*: arrays fit the counts beside them, blocks are freed once and by
  the allocator they are from, and an operation does to names and methods what it says.
- *Counts, CStruct*: no reference is left out of a count; nothing is freed twice, nothing
  is used after.
- *Compiler and preloading*: what is swapped is what it was when the outermost call
  has returned, however deep calls are nested.

The hazards, each at its line, are listed under `hazards` in `PROJECT.json`.

## 2. Modules

Each component is one module; `MC<Module>.tla` only gives its constants values, one
`.cfg` per run; the proofs about a module are in modules of their own.

### ModuleLifecycle

One PHP request in the main thread with any number of modules. Subclasses of
`StandardModule` are `Classes`, their objects `Instances`. What a class declares is
data (`DeclType`): the callbacks it has, `$restart_sapi`, `destructor_set()`, whether
its entry has shutdown callbacks and whether its MINIT succeeds.

| variable | code |
| --- | --- |
| `decl`, `target_persistent`, `host` | property declarations, `Core::is_scoped()`, the SAPI's routines (fixed in a behaviour) |
| `activate`, `deactivate` | `sapi_module->activate`, `->deactivate`: null, the SAPI's own, or the closure of an object |
| `original_sapi_activate`, `original_sapi_deactivate` | the properties of the same names |
| `global_module` | `StandardModule::$global_module`, keyed by thread (ZTS) or class |
| `registry`, `ze_other_ptr` | the entries in `EG(module_registry)` and each object's pointer to one |
| `ended` | objects whose entry left the registry by `clear_module()`, which runs `module_shutdown`/`global_shutdown` |
| `shutq`, `phase` | PHP's shutdown functions and where the request is |
| `balance`, `since`, `skipped`, `dead` | what the properties observe: request callbacks, SAPI activations, a host routine that was not reached, a freed closure or entry that was used |

Actions: `Attach`/`Construct` (the two branches of the constructor; `Construct` is all of
`register()` and `startup()`, including the deactivation with the old hook, the
activation with the new one, and a MINIT failure, which the engine makes fatal),
`StandardActivate`/`StandardDeactivate`, `ClearModule` and `ModuleDestructor` called by
the program, `RegisterShutdownFunction`, `EndScript`, and the engine's steps
`RunOuter`, `RunInner`, `EndUserFn`, `FreeClosures`, `LastDeactivate`,
`PhpModuleShutdown`. A call of a SAPI slot is one step: `Chain` computes the
closures it runs, each of which first calls its module's callback and then what the slot
held before.

The closures of `startup()` compare the callback's and the SAPI's return values; SAPIs
ignore the result, and so does the model. The callbacks do not use the library
themselves. `target_persistent` is the object's own flag: `register()` sets it, so an
object that attached to an entry is not persistent (`Persistent`).

`SafeUse` names the programs for which the lifecycle is safe: one slot for each class, at most
one class hooking into the SAPI, `$r_shutdown` declared by a class that hooks or has
shutdown callbacks, no failing MINIT, no persistent module, and no `clear_module()` or
`module_destructor()` by hand. None of these can be dropped; what goes wrong without them is in the
hazards and, where the documentation promises otherwise, in the findings.

### HookCalls

Calls of `handle()` and `continue()`. A hook class is a record of what tells the twelve
classes apart (`Kind`): the `EG(fake_scope)` in which `continue()` runs the original handler (its caller's,
the class of the operand's object, or, for `UnsetProperty`, the class of the hook), whether the
engine has an original handler, whether `continue()` does without one, whether `handle()`
writes, and whether the user's handler may have `continue()` act on something else (`class_type()` of
`CreateObject`). Two kinds depend on the version: the engine has no `compare` in PHP 7.4, and
`UnsetProperty::continue()` throws from PHP 8.0 on, because `Zval::ce()` takes no object, so that it is one without an
original handler; `get_properties_for` never has one.

`stack` is the nested operations; `this` the operands in the fields of each hook
object, which is the point of the model: one object serves all calls. `Handle` is the
engine calling `handle()`; `SetValue` (`WriteProperty::value()`), `SetTarget` (`CreateObject::class_type()`), `Continue`,
`NativeReturns`, `NativeThrows`, `HandlerReturns`, `WriterReturns`, `WriteEnds`, `Uncaught` are the steps of
the handler, of `continue()` and of the original handler.

Two things are in the model for the properties alone. A frame keeps in `operands` what the engine asked for, changed by what this operation's
own handler sets or returns; what `continue()` in fact reads comes from `this`. A handler may use a hook that is being served:
the operations whose operands that replaces are in `replaced`. The properties speak of the others, the inner ones
included, and of a write also if its hook is used again once its writer has returned, as by a `__set()` that the
original handler calls. What an operation in `replaced` does with the other's operands is in the model. `CallsSaveScope` is whether the engine's `zend_call_function()`
saves and clears `EG(fake_scope)` around a call, which newer PHP versions do.

A read or a cast is an operation like a write without a stored result: its value is not
modelled, its operands and scope are. For `CreateObject` the operand stands for the class.

### HookTables

Where hooks live: `slot` is what each hooked field holds, `hooks` the hook objects with
the original each captured, `object_handlers` the class's table in
`ZendClassEntry::$objectHandlers`, `objects` the table each object points to.
`CreateObject`, `InstallHandler`, `InstallHandlers`, `InterfaceGetsImplemented`,
`ZendAstProcess` install; `New` is `zend_objects_new` through the class's create_object
field, with every handler proceeding; `Destruct` is a hook's destructor, in any order,
because PHP calls destructors in the order of object handles and handles are reused;
`FatalError` ends a request without destructors; `Release` is ext/ffi freeing the closures.

A field is a place in a table, in a class entry or `zend_ast_process`; the twelve
handler names become members of `Fields`, told apart by what `std_object_handlers` holds in
them (`Std`). `Called` and `Last` follow the chain of a field from its newest hook
through `continue()`: the smallest set with that hook and, of each of its hooks, the original (`Continued`).

### WorkerQueue

One `Thread` object, the `PThread` objects that run on its queue (`Workers`) and the thread of
the program (`Main`).

| variable | code |
| --- | --- |
| `queue`, `mutex` | `Thread::$worker` (an `SplQueue`) and `$worker_mutex` |
| `pc` | where each thread is in `add`, `execute`, `PThread`'s loop or the destructor |
| `seen`, `adding`, `task` | what an `enqueue`/`dequeue` in progress has read, the routine being added, the task being executed |
| `added`, `done` | the task numbers given out, the `TValue`s set |
| `phase`, `over` | the `Thread` object in use, being destructed, freed; the process has ended |
| `enqueued`, `taken`, `consumers`, `byHand` | what the properties observe |

`push()` and `pop()` are a lock, a read of the queue, a write of it and an unlock, each a step, so
that a path without the lock would show as a lost or doubled task. `empty()` is one step
without the lock, as in the code. The mutex is that of `tsrm_mutex_alloc()` on POSIX
systems, which is not recursive: a thread that locks it twice waits for itself. (On
Windows it is a recursive critical section; not modelled.) An exception that
leaves the closure of an FFI callback is a fatal error in `ext/ffi`; `Throws` says so for
the worker loop and for the destructor at the end of the request. `Create` followed by
`StartupThrows` is `PThread::create()`, which hands the PThread to a closure that calls
`thread_startup(Thread)`. A routine may add tasks; one that calls `execute()`
itself is left out. The workers share zvals with the main thread without any
synchronisation except the mutex; the races on reference counts and on interpreter globals that
follow are not modelled, nor is whether `ext/ffi` can run a callback on a foreign thread at all:
the model takes it that it does.

**TaskQueue** is what a `Thread` object promises, with no threads in it: a routine is added, put at the
end of a queue, taken from its head, run, and gets at most one result while it runs. `WorkerQueue`
implements it (`Implements`); `StageOf` reads the stage of a task off the queue and off
what each thread is adding and has in hand. The promise does not depend on
`SafeUse`: with several consumers `dequeue()` may throw, but no task is run twice.

### ResourceRegistry

The table of descriptors and resources, and what the program and C code do to both beside it.

| variable | code |
| --- | --- |
| `busy`, `created`, `stream`, `plain` | the system: open descriptors, resources so far, the stream behind each, those that are none |
| `instances` | `Resource::$instances`, one key space for descriptors and numbers of resources |
| `fd`, `file` | each object's `$fd` and `$file` |
| `made` | objects that were given a pair |
| `owns` | the stream in `$ze_other_ptr`, which `free()` closes |
| `lost` | references that `clear()` takes with `zval_del_ref()` |
| `used`, `tidy`, `twice`, `over` | what the properties observe; the request is over |

`ZvalToFd` is `get_fd_resource()`, `get_socket_fd()` and `zval_to_fd_pair()` of a resource: they differ in which
streams they accept. `FdToZval` is `get_resource_fd()` and `create_resource_fd()`. `RemoveFd` is
`remove_fd_resource()` with all of `clear()`. A call that finds its number in the tables only
answers and changes nothing; what it answers is `GetPair` and `Fd`. An object is destructed in the step in which
its last entry in `$instances` goes (`Freed`, `Destructed`), which is also when it closes
the stream it made (`FreeStreams`): adding a pair over an entry of another object may do that, too.

The program opens and closes streams at will, also under a registered pair. `SafeUse` names what a program must
not do for the answers to be right: `tidy` is what it does, the rest that no
descriptor has the number of a resource, which it cannot control. The stream of
`_php_stream_fopen_from_fd()` has a resource of its own in the engine beside the one
that `init_stream()` registers; only the latter is modelled. The object that
`create_resource_fd()` stores with a pair is not (`$gc_object`), nor the reference to it that `clear()` takes. An
object whose last reference goes in `clear()` is destructed at the end of the step; that local variables of `clear()` and
of its callers still hold it there, and release it once more when they return, is outside the model.

### ClassSurgery, HashTable, ClassParts

One class that a program takes apart: of its own or of the engine (`internal`), on the command line or
not (`cli`), from each way in which it may be declared (`Linked`).

| variable | code |
| --- | --- |
| `ce` | the fields of the `zend_class_entry`: the two arrays with their counts, `ZEND_ACC_RESOLVED_INTERFACES`, the parent, the function table |
| `heap` | blocks of memory, each of the request's or the persistent allocator, with the names in it; `corrupt` once a block was freed twice or by the wrong one |
| `phase` | running; after `E_ERROR`; the engine has destroyed the class |
| `tidy`, `kept` | what the properties observe |

The actions are the methods of `ZendClassEntry` (`newParent` is the assignment of a new parent,
`Inherit` the engine's `zend_do_inheritance_ex()`, which reallocates the array with its own
allocator), `NextRequest` for a class of the engine after a fatal error, and `DestroyClass`.
Persistent arrays that are replaced are abandoned by the code; the model forgets them, so that a
run needs no more than three blocks. `IsPersistent` does not depend on `cli` for classes of the engine, so
that `internal => cli` in `ClassInit` leaves nothing out.

**HashTable** is the engine's table as the library uses it: buckets in the order of insertion,
`nNumUsed`, `nNumOfElements`, holes, compaction and doubling. `getIterator` is `foreach`
over `HashTable.php`'s iterator, which stops after `nNumOfElements` buckets, holes included, and so
may miss the last ones. `Fold` is what a loop over names or functions leaves of a table; what it does with each is a function on pairs
(`Deleting`, `Removing`, `Inheriting`).

**ClassParts** is what the operations promise, without arrays, counts, buckets and memory: sets of
names, and a function from method names to the classes that declare them. Each operation of
`ClassSurgery` is compared, in the step in which it happens, with that of `ClassParts` under
the mapping `Promise` (`KeepsPromise`), for as long as the program is `tidy`.

### References

Reference counts and C memory, for the objects that have both: `CStruct`.

| variable | code |
| --- | --- |
| `value` | the program's variables |
| `objects`, `refcount` | the engine's store of objects, and the count in each |
| `memory` | the C structures: in use, of which allocator and type, and the object in a field of it (`zval_set_data`) |
| `is_free_active` | `CStruct::$is_free_active`, which `ffi_set_free()` changes |
| `extra` | references added by hand and not yet taken away, and those whose holder the library overwrote, freed, or never destroys |
| `conduct`, `corrupt`, `over` | what the properties observe; the end of the request |

`Released` is the engine taking a reference, with all that follows from the last one: `__destruct()`, that is
`free()`, then the release of the `CData`, which frees what it owns. Handles and blocks are given out
again as soon as they are free, the lowest first. Once memory was freed wrongly or a variable holds an object
that is gone, the program has no meaning and the model stops (`Defined`). `zval_set_data()` counts an object twice: by `gc_addRef()`
for the field, and by the copy that `Zval::constructor()` makes in a zval that nobody destroys. A structure of pointer type
that is not `$isOwned` is freed by `free()` and then read (`FreedAgain`); with any other `FFI::isNull()` throws there. Strings and PHP references
are counted in the same way by `ZendString` and `ZendReference` and are not modelled; `zval_skip_dtor()` is left
out because nothing in the library calls it.

### ThreadsModule

The module that puts a closure before the SAPI's output, and the mutex that it shares with
`zend_set_global()`.

| variable | code |
| --- | --- |
| `module`, `created`, `original_sapi_output` | the registered object; objects so far; what each has saved |
| `ub_write` | `sapi_module->ub_write`: null, the SAPI's own, or the closure of an object |
| `globals` | threads that have memory for the module's globals, for each of which the engine calls `global_shutdown()` |
| `global_mutex`, `allocated`, `owner` | `Core`'s mutex as each thread sees it, the mutexes allocated, who has locked them |
| `pc`, `task`, `mutex` | where each thread is, whose closure it runs or whether it sets a global, its local `$mutex` |
| `conduct`, `fault`, `over` | what the properties observe: what the program did, a null pointer that was called, the end |

A thread takes seven steps through the closure or `zend_set_global()`: looking for the mutex, allocating one,
reading it back, locking, calling, unlocking; or an exception of the assignment, which leaves it locked.
Whether threads share the static `Core::$global_mutex` of the main thread depends on how each was started
(a thread that includes `preload.php` has its own class `Core`); `shared` is either. The user's
callbacks, `clear_mutex()` and the SAPI's `activate` and `deactivate`, which are those of
`ModuleLifecycle`, are not in this module.

### SavedGlobals

Globals of the engine that are swapped around a call: `sapi_module->name` in `cli_direct()`, and
`CG(ast)`, `CG(ast_arena)` and `CG(in_compilation)` in `parse_string()`. `stack` is the calls in progress, each with what it
has saved: a file that the engine compiles, a parse of PHP 7.4 (`zendparse`; from 8.0 on
the engine's `zend_compile_string_to_ast()` does it in one step, `parse_string`), and a
routine that `cli_direct()` runs under the name `"cli"`. A hook of `zend_ast_process` and a routine are
programs that may do any of the three again. No program runs during a parse. The
memory of the name is not modelled, only its text.

## 3. Runs

All runs take TLC from seconds to three minutes. Deadlock is checked unless noted:
the end of a request is an action of its own (`Terminated`), so that a state
without a successor is a model that got stuck.

| run | instance | what it shows |
| --- | --- | --- |
| `lifecycle_one` | one class, two objects, any declaration, ZTS, scoped or not, one `clear_module`/`module_destructor` by hand, one shutdown function | `SlotsMatchRegistry` for every program, `NoDeadCall` for those of `SafeUse` |
| `lifecycle_two` | two classes, one of them with two objects, non-ZTS, two SAPI calls, two shutdown functions | `HooksRestored`, `RequestCallsMatch`, `HostNeverSkipped`, `DestructorsRunLast`, and that modules end (`ModulesEnd`) |
| `hook_calls_nested` | two hooks of any of six sorts on two classes, depth 2, using a hook that is being served or not | `OwnOperands`, `ScopeKept`, `WrittenAsReturned` |
| `hook_tables` | two classes with an object each, two fields (one null, one not), three tables, three hooks | `AllRestored`, `ChainsEnd`, `HandlersApply` |
| `worker_queue` | two workers, two tasks | `TasksInOrder` and the refinement `Implements` for every program; with one consumer `NoUnderflow`, `MutexReleased`, and that tasks are taken and `add()` returns (`TasksRun`, `AddReturns`) |
| `worker_queue_create` | one worker | violated: a thread of `PThread::create()` gets through `thread_startup()` |
| `resource_registry` | descriptors 0, 1 and 4, resources 2 to 4, two objects | `LookupsAnswer` for every program, `BothEnds`, `RightAnswers`, `NothingFreedTwice` for those of `SafeUse` |
| `resource_registry_keys` | the same, resources 3 to 5 | violated: `get_fd_resource()` returns the descriptor of its resource |
| `class_surgery` | two interfaces, traits and methods, two parents (one with an ancestor), a class of the program or the engine | types, `ArraysMatch`, `FreedAsAllocated`, `NoLeaks`, and that operations do what `ClassParts` says (`KeepsPromise`) |
| `references` | two variables, two objects, two blocks; plain structures, persistent pointers, arrays, and owned ones by `new()` | types, `Counted`, `Alive`, `FreedOnce`, `NoLeaks` |
| `threads_module` | the main thread and two workers, one module, three mutexes | `OneAtATime`, `Restored`, `LockedInside`, and that everybody gets through (`Advances`) |
| `saved_globals` | PHP 7.4 and later, a SAPI that is "cli" and one that is not, calls five deep, four trees | `NameKept`, `OwnTreeCompiled`, `CompilationEnds` |

Types are proved (`TypeCorrect` in section 5). Of `ClassSurgery` and `References` they are checked by a run, too: that their records and
counts stay what they should be is not obvious there (a count never drops below zero).

Why the bounds are enough.

- *lifecycle*: a module has three relations to another: same class, other class with a hook, other
  class without; two classes with two objects of one of them have them all. Two shutdown functions are needed
  for one to be in front of and one behind a module's destructor, two SAPI calls for a
  deactivation after an activation outside start-up.
- *hook_calls_nested*: two nested operations on two hooks are an operation, one that interrupts it on its own
  or another hook, and a return to the first. The six sorts are all that the twelve classes differ in (without an original
  handler the scope does not matter); of `CallsSaveScope` it is the harder choice. Hooks are alike, as their kinds are chosen in `Init`, and so are values (`HookSymmetry`).
- *hook_tables*: three hooks on two fields are a chain of three, and a chain of two beside another;
  a third table lets two classes have tables and one of them a second.
- *worker_queue*: two workers and the program are three threads on one mutex, so that one waits while two exchange
  it; of two tasks one is in the queue while one is taken, or both are.
- *resource_registry*: of the descriptors one is 0, which `remove_fd_resource()` ignores, one no resource
  has the number of, one the number of the third resource; two objects are one that takes over another's entries,
  and three resources a stream of the program, one of the library, and one more on either's descriptor.
- *class_surgery*: a new table has room for two buckets (the engine's smallest has eight), so that
  tables are doubled and compacted; two methods are enough for a bucket behind a hole, and for an inherited one behind one of
  the class itself. An array is empty, has one name or two, so that one, all or some are removed.
  Three blocks are the two arrays and a new one.
- *references*: two variables on one object or on two; two blocks, one of which may hold an object whose
  structure is the other, or itself. Three references to an object (`MaxRefs`) are a variable's and the two of `zval_set_data()`; with
  fewer no field is ever filled. A copy by `new()` is what an owned structure is, once it was used; that the pointer is persistent, too,
  makes two of the sorts that `FreedOnce` leaves out one.
- *threads_module*: three threads, so that two may wait for a third; three mutexes, one for each. One module:
  a second one starts where the first began, because `module_destructor` leaves `ub_write` as it was.
- *saved_globals*: five calls are each sort inside each other sort, inside a third, with one around and one inside them.

Deadlock is not checked in `worker_queue` and `worker_queue_create`: `execute()` called by hand on an
empty queue throws between lock and unlock, and the next `add()` of a program that caught the exception
waits for ever. Nor in `threads_module`: after a `zend_set_global()` that failed, the next output waits for a mutex that nobody
will unlock, which may be the thread's own. That the code really stops there is a hazard; the
properties say in which programs it cannot happen.

Each property of a passing run has a mutant of the code that breaks it; the mutants are the
operators called "Mutant of ..." in the modules.

### Where the code and its documentation disagree

Two of these have a run that exhibits them; quotations and lines are under `findings` in
`PROJECT.json`.

- `PThread::create()` starts a thread that dies of a TypeError (`worker_queue_create`).
- `get_fd_resource()` of a resource whose number is that of a registered descriptor returns the
  descriptor (`resource_registry_keys`).

The others are in the models without a run of their own. The properties name the programs in which they happen as
the exceptions; drop an exception, and TLC shows how.

- *Modules.* `global_shutdown()` and `module_shutdown()` of a class without `$r_shutdown` do not
  run while its closures are alive. `StandardModule::get_module()` in a thread-safe
  build returns the object that was set last in the thread, of whatever class (`GetModule`).
  `standard_activate()` no longer reaches `request_startup()` once an earlier module was destructed by hand (`StandardActivate`).
- *Hooks.* A write handler that writes to another hooked object changes what the outer write writes, and where
  (`replaced`). `EG(fake_scope)` is not put back when an original handler throws (`threw`).
  A hook on a null field is not taken out by its destructor (`Restorable`). `createObject()` also accepts a class whose
  `create_object` is taken (`CreateObject`).
- *Classes.* The arrays of a class of the program become persistent outside the CLI, and the engine later frees
  them as memory of the request (`FreedAsAllocated`). `addMethod()` of a method that exists makes a second bucket,
  and `addTraits('T', 'T')` adds T twice (`tidy`). `removeParent()` also takes interfaces that
  the class implements itself (`Remaining` in `ClassParts` says what it does) and misses inherited methods behind as many holes as the
  table has (`Dense`). `HashTable::delete()` of a key that is not there throws a TypeError, and
  `removeMethods()` has by then removed the names before it.
- *Memory.* `free()` of an owned structure with `ffi_free_if()` at work frees its memory twice, and that of a persistent one with
  the wrong allocator (`FreedOnce`). `FFI::isNull()` throws for a structure that is no pointer, so that the second
  `ffi_free_if()` in `free()` does nothing; for a pointer that is not owned it reads memory that the first has freed (`FreedAgain`).
- *Threads.* `global_shutdown()` runs once for every thread that has globals: the second time it makes null
  the SAPI's output, and the first time other threads are still writing through the closure (`"many"`). Two threads
  that find no mutex allocate one each (`"late"`). A global that cannot be set leaves the mutex locked (`"raised"`).
- *Globals.* `cli_direct()` leaves the SAPI's name `"cli"` when the routine throws (`"escaped"`).
  `parse_string()` restores nothing after a ParseError in PHP 7.4 (`"failed"`), and since PHP 8.0
  it replaces the tree of the file that is being compiled when a hook calls it (`"nested"`).

## 4. Fairness

Only the properties `ModulesEnd`, `TasksRun`, `AddReturns` and `Advances` need any.

- *ModuleLifecycle*: weak fairness of `Engine`, the steps that PHP takes by itself
  once the script is over. `php_request_shutdown()` is one C function that goes from
  each step to the next. Nothing is assumed of the program: it may
  never construct, never end.
- *WorkerQueue*: weak fairness of each thread's steps inside the library (`Library`,
  `Loop`, `Destructor`): the operating system schedules every thread again and again. Of the mutex weak
  fairness is enough: only adding, executing and setting lock it, which the tasks bound
  (`MaxTasks`), and the loop of a worker with nothing to do asks `empty()` without it. And weak fairness of
  `RoutineReturns`: routines end. Nothing is assumed of the program's own steps.
- *ThreadsModule*: strong fairness of `Advance(t)`, what a thread does between calling
  and having returned. All of it but `tsrm_mutex_lock()` stays enabled until it is done, where strong fairness
  is weak fairness, that is scheduling. Of the mutex it says that a thread that waits while others lock and unlock
  again and again gets it at last, which pthread mutexes in practice provide; with weak fairness `Advances` is false,
  because the program may write for ever. Nothing makes a thread write, and nothing makes it succeed: it may raise.

## 5. Proofs

`tlapm` checks every proof below for all values of the constants under the named assumptions of
each module: that the null pointer, the engine's functions and "nobody" are different from objects,
that `ClassOf` is a function into the classes, that the bounds are natural numbers.

*ModuleLifecycleProofs* has `TypeCorrect` and `DestructorsLast`. For the latter nothing but the form of
the queue matters: destructors enter by a nested registration, at the end of a queue
that is already being run, so what is registered in the outer queue stays in front.

Of the rest of the lifecycle, `SlotsAgree` (`SlotsMatchRegistry`) holds for every
program and is inductive with typing. The other four follow from
`SafeInv`: in a program of `SafeUse`, a registered module that hooks is in its slot with the SAPI's own
routine saved (`ActivateSlot`, `DeactivateSlot`), and each registered module with
`$r_shutdown` has exactly one destructor in the queue for as long as there are closures
(`PendingDestructors`). Neither half suffices: that no freed closure is called needs the
destructor to be pending, that the destructor restores the right routine needs the
saved original. `HooksSafe` is the invariant; `NoDeadCalls`, `HostServed`,
`CallsMatch` and `Restored` are its consequences. `SafeInv` is checked by TLC in `lifecycle_two`.

*ClassProofs* holds the proofs of two components. *HookCalls*: `TypeCorrect`; `OperandsOwn`, by induction over pushes and pops of the stack: a push replaces the operands of exactly
the operations it adds to `replaced`, and of two operations on one hook that still need them the outer one is there, so that
what a handler sets is only its own; `ScopesKept`; and `WritesStored`,
the action property `WrittenAsReturned`: when the writer returns, what `continue()` reads is the writer's value and its own target
(`OwnOperands` of that moment), and nothing changes it until the end of the write.

*ClassSurgery*, in the same module, for any interfaces, traits, methods, parents and bounds. Beyond that the names for
absence are different from what is present, `SurgeryAssumption` says that a parent lists no interface and no
method name twice, as the engine sees to, and that there are two blocks to begin with. `SurgeryInv` is inductive: while the class is there it is
`Sound`. Its two arrays, if they are not empty, are live blocks of the right length and different (`HeldBy`, `Apart`); in the CLI and for
classes of the engine they are from the engine's allocator for the class, and the heap was never misled; elsewhere no other block
is in use; the flag `ZEND_ACC_RESOLVED_INTERFACES` says whether there are interfaces.
Every operation puts a new array in the place of an old one, or leaves it (`MovedApart`, applied by
`WithTraitsSound`, `WithInterfacesSound`, `WithoutParentSound`, `InheritSound`). `ClassTypeCorrect`, `ArraysFit`, `FreedRight` and `NothingLeaks` follow.

Calls take one or two names (`From1To2`), in the model and so in the theorems.

`PromisesKept` (`KeepsPromise`) needs the contents. `PromiseInv` adds to `SurgeryInv` that for a tidy program the class is `Clean`: no name
twice, interfaces that exist, no two functions with one name. Arrays become sets by `ChosenRange`, `ToAddRange` and
`WithoutRange`; the function table becomes the function `Lookup` by way of the set of its buckets (`Pairs`): `AddPairs` and `DeletePairs`
say what a change leaves in a table of unique keys, compaction and holes included, and `DenseIterator` that `foreach` sees all of a table
without holes. Loops follow with `FoldIn` (what each step keeps) and `FoldSteps` (what is true after each step): `RemovingPairs`, `InheritingPairs`,
`DeletingPairs`. The last is for the one or two names that `removeMethods` takes here: with three of which one is
there twice the loop would end before the last, so that it is not true of more.
One lemma for each operation then is a step of `ClassParts` under `Promise`.

*HookTablesProofs*: `TypeCorrect`, and `ChainsInvariant` for four facts: a number in a field is that of a hook of the field
(`SlotHooks`); a hook's original is the next older one (`Linked`); while destructors keep the order
a field holds its newest live hook or what it held at first (`NewestInSlot`); newer ones go first
(`GoneInOrder`). All installers are treated at once: `Grows` says what they have in common, that new
hooks are appended, at most one for each field, each with the field's content as its
original. `CallsEnd` and `Restored` follow. `HandlersReach` is `HandlersApply`: a use of a field calls every hook
installed in it (`AllCalled`: were one skipped, the smallest called hook above it would have an original between the two),
and `Tables` says which fields those are: while a class was hooked in order all its handlers are in its present
table, and so is every object that came out of its create_object hook, which no other class hooks.

*WorkerQueueProofs*: `TypeCorrect`; `InOrder` from mutual exclusion (`MutexInv`) and what a
thread has read still being true under the lock (`SeenInv`); `NeverUnderflows` and
`AlwaysReleased` from `ConsumerInv` (only consumers are on the way to the queue's
head) and `TaskInv`. The weakest point of the code, that `empty()` takes no lock, is
where `SafeUse` is used: with one consumer nobody else can make a queue empty.
`QueueImplements` is the refinement, `Spec => Implements`. It needs that a task is enqueued
once and by the thread that added it (`NumberInv`), and that a task in a thread's hand
was taken, is in no other's, and has no result before `set()` (`HandInv`). What was taken and what waits are
then disjoint (`Apart`), so that each step changes the stage of one task or of none: `AddMaps`, `PushMaps`, `PopMaps`,
`SetMaps`, `EndMaps`, and `NoneMoves` for all others.

*ResourceRegistryProofs*: `TypeCorrect`; `LookupsAnswered` for every program, from `PairsKnown` (an object knows
a pair by the numbers of the pair, which exist) and `StreamsKnown`; `BothEndsFound` for `SafeUse`: the ends of a
new pair are keys of nobody, because a new resource has a number that was never a descriptor
(`NewIsUnknown`), and `clear()` takes out the ends of one pair, which by the invariant are
no other pair's. `AnswersRight` and `FreedOnce` need more: that an object has one pair and owns at most its stream
(`OnePair`), that no two streams share a descriptor (`StreamsApart`), and that owned streams are
streams (`OwnersKnown`). From these, what is destructed in a step is known exactly: nothing when
a pair is added (`AddDestructsNone`), one object when it is removed (`RemoveAlive`), all at the end.

*ThreadsModuleProofs*: `TypeCorrect`, for which it matters that a module is registered only while no closure is the SAPI's
output (`GlobalsInv`: the main thread always has globals to be freed). `OutputRestored` from `OutputInv`:
without the deed "many" there are no workers without a module, and every closure that a thread is in
is the module's. `MutexHeld` (`LockedInside`) from what idle threads hold (`ThreadInv`). `OutputExclusive` (`OneAtATime`)
needs three facts together: who is between lock and unlock owns his mutex (`OwnerInv`); where threads share `Core`
there is a mutex before there is a worker, and all who lock, lock that one (`SharedInv`); and a thread in the SAPI's own output,
which takes no mutex, is alone (`OutputInv`).

*ReferencesProofs*. A count is what it is owed (`CountInv`): the number of variables that hold the object, plus that of structures with it
in a field, plus what was added by hand. Each way in which a holder changes is brought back to `HoldersStep` and `FieldsStep`, which say what one new value of one variable or field does to
the two cardinalities. The chain of `Released` is taken apart in `ReleasedCases`: the last reference of an object frees
a structure, which may hold a reference of another. `CountsRight` follows, and with it
`HeldLives` from `AliveInv`: a count of zero has no holder left. Memory needs no counts but the shape of things (`Shape`: where a field
is filled, what a free block is): `PlainInv` says that without owned, persistent and pointer structures a pointer leads to a live structure of
its own, `OwnedInv` that owned structures are live and have one owner, and `HandInv` what the program has done about
`ffi_free_if()`. `FreesOnce` follows from the three, `LeaksNothing` from `ReachInv`, which adds that each
structure that is no array is pointed to by an object in the store.

*SavedGlobalsProofs*: `TypeCorrect`; `NameRestored`, `ModeRestored` and `TreeRestored`, for any depth. All steps are pushes, pops or
neither (`StepKinds`); the invariants say of every call in progress, not just the innermost, that it has saved
what was due without it (`NameInv`, `ModeInv`), or left to the next call the tree it compiles (`TreeInv`), so
that a pop makes true of the call below what a push had found there.

What stays with TLC: the liveness properties `ModulesEnd`, `TasksRun`, `AddReturns` and `Advances` (fairness and ENABLED are
beyond the prover). Every safety invariant and every action property that a run expects to hold is a theorem.

## 6. What is not modelled, and why

- Accessors, reflection, dumping, constants: no state of their own.
- The headers under `headers/` and the C code under `.github/`: declarations of the engine's structures and functions that `ext/ffi` parses, one
  file for each version and platform of PHP, and vendored code. They are by far the most lines of the
  repository and have no behaviour; what the declared functions do is modelled where the library calls them.
- `ts_allocate_id()` and the numbers by which `get_globals()` finds a module's globals; the user's callbacks and `clear_mutex()` of
  `ThreadsModule`.
- The interpreter that `thread_startup()` sets up for a thread, and races on what threads share without a mutex.
- Setters of single flags, pointers and constants of classes, functions, properties: one assignment each.
- `ze_init()` and `zend_preloader()`: once, in one order, before anything else runs.
- Strings and references beside objects in `References`; packed tables in `HashTable`; `ZendResource` and the stream wrappers.
- What an engine handler itself does with a value; the models only see whether it
  returns or throws.
- Bailouts (`zend_bailout`, `exit` inside a callback) other than a fatal error that ends the request.

## 7. Plan

1. An abstract *hook chain* that `HookTables` implements, as `TaskQueue` is implemented by `WorkerQueue`.
2. The numbers of module globals: `ts_allocate_id()`, `get_globals()`, with `ModuleLifecycle` and the threads that come and go.
3. Counts of strings and references beside those of objects.
4. Class surgery for lists of names of any length: today a call takes one or two names and a class
   declares at most one trait or interface, so `PromisesKept` says nothing of three names at once.
