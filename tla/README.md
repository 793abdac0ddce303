# Formal models of the IOKit hooker

The program under `src/` hooks the virtual functions of IOKit objects inside the
macOS kernel, either by patching the vtable that all objects of a class share, or
by giving one object a private copy of its vtable. The modules here describe how
it keeps its bookkeeping right while objects are published, called and freed by
any number of threads. TLC checks them on small instances, TLAPS proves the most
important invariants for all instances.

Paths below are relative to the repository: `K` is
`src/DldHookerCommonClass.cpp`, `K2` is `src/DldHookerCommonClass2.h`, `G` is
`src/DldCommonHashTable.cpp`, `V` is `src/DldVmPmap.cpp`, `E` is
`example/DldIOKitHookEngine.cpp`.

## The system

| Component | State | Operations | Module |
|---|---|---|---|
| vtable hooker (`K` 1797-2335, 2475-2662, 1182-1214) | entries under vtable keys, counters, patched slots | `HookVtableIntWoLock`, `UnHookObjectIntWoLock`, `GetOriginalFunction` | `VtableHook`, abstract `HookRegistry` |
| per-object hooker (`K` 1522-1766, 2387-2475) | private vtable, saved functions, object entries, counter | `HookObjectIntWoLock`, `UnHookObjectIntWoLock`, `GetOriginalFunction` | `HookChain` |
| object entries and their table (`K` 19-491) | retain counts, hash table under a rw lock | `AddObject`, `RemoveObject`, `RetrieveObjectEntry`, the static table | inside the two above; the static table is made in `HookEngine` |
| generic hash table (`G`) | buckets, counts, list by age, iterators | `ght_create`, `ght_insert`, `ght_get`, `ght_replace`, `ght_remove`, `ght_rehash`, `ght_first`, `ght_next`, `ght_finalize` | `GhtTable`, abstract `GhtMap` |
| hooking class instance (`K2` 476-744, `example/IOUserClientDldHook.h` 111-229) | `mStaticInstance`, `mInit`, table of hooks | `fStaticContainerClassInstance`, `init`, `free` | `StaticInstance` |
| hooking functions (`K2` 899-1664, `example/IOUserClientDldHook.h` 246-651) | none | get the instance, get the original function, call it; `free_hook` also unhooks | actions `Forward`, `Refuse`, `chain_free_hook` of `HookChain` and `free_hook` of `VtableHook` |
| hook engine (`E`) and dictionary entries | dictionaries of hookers, notifiers | `withNoHooks`, `free`, `AddNewIOKitClass`, the publish notification, `HookObject` | `HookEngine` |
| wired memory writes (`V`) and vtable layout (`K` 1069-1214, 1559-1660, `K2` 646-667) | page table, memory, the private vtable's buffer | `DldWriteWiredSrcToWiredDst`, `DldHookVtableFunctions`, `DldUnHookVtableFunctions`, the scan and the copy of `HookObjectIntWoLock` | `VtableMemory` |

**How they interact.** The engine registers hookers by class name and is told by
IOKit of published objects. `HookObject` of the engine calls the hook function of
a vtable hooker, ignores its result, and then that of a per-object hooker. Both
take the lock of the one static hash table for the whole of the operation. A
virtual call of a client comes through the patched slot into a hooking function,
*without* the lock; it asks `GetOriginalFunction`, which takes the lock shared, and
calls the answer after the lock is released. The last release of an object calls
`free` through the vtable; the free hook gets the original function, unhooks the
object under the lock and calls the original.

**What is hard here.** A thread can be in a hooking function whose vtable is being
unhooked. Two hookers may have patched the same slot, or one may have copied what
the other patched. Every one of a dozen insertions and allocations may fail with
others already done. Addresses are reused. Counters are unsigned and lowered on
several paths. The hooking class's instance is created on demand by racing threads.
Classes are registered while notifications of earlier classes run. The list of
these hazards, each with its line and the properties aimed at it, is in
`PROJECT.json`.

**What correctness means, per component.**
- vtable hooker: a slot is patched exactly while an entry is in the table; retain
  counts and counters are exact; failure leaves no trace; the original function is
  the original one, also for a thread that is in the middle of a call.
- per-object hooker: the private vtable stays as long as an object uses it; chains of
  hooks never loop and never leave a hook out.
- hash table: links, counts and ages are consistent; it is a map ordered by age.
- hooking class instance: one for good, usable by all, nothing left of the others.
- memory: writes are exact across pages; a vtable gets back every byte; the private copy
  has the whole vtable; nothing is read that is not mapped.
- engine: nearest vtable hook only; every published object of a registered class is
  hooked; a failed registration leaves nothing.

## The modules

### VtableHook

The core. One action is one critical section of the static table's lock, so the
lock itself does not appear. `Construct`, `ReplaceVtable`, `CallFree` and
`Destroy` are the environment (an allocation at an address that may have been used
before, other software that replaces a vtable pointer, the last release, the
class's own `free` and, through `SuperFree`, those of its super classes). `HookVtable` is
`HookVtableIntWoLock` with one disjunct for
each way through it: the object is already in the table (`HookAgain`), the vtable
is already hooked (`HookKnownVtable`, and the failure to insert the object's entry,
`HookKnownVtableFails`), the vtable is found patched without an entry
(`RefuseDoubleHook`), the vtable is new (`HookNewVtable`) or it is new and an
allocation or one of the three insertions fails (`HookNewVtableNoMemory`,
`HookNewVtableUndone`). `GetOriginalFunction` and `free_hook` are the two critical
sections of a thread in the free hook; anything may happen between them.
`UnHookObject` may also be called from outside.

`Supers` is the line of hooked classes that a class derives from. A derived class's
`free` goes on to `super::free()`, which the compiler dispatches through the vtable of the
super class, so that the super class's hook meets objects of other leaf classes
(`SuperFree`). `OriginalFunction` then looks under the super class (`KeyClass`, `K` 1369-1404)
and finds the super class's entry, by the NULL-vtable key. But if the last object of the
super class has been unhooked since the call was dispatched there is none, and the slot
that is read (`K` 1476) is that of the derived object's own vtable: the call then runs the
derived class's `free` again. `OriginalIsOriginal` names that case as its only exception,
`FreeTerminates` excepts the calls it sends astray (`Misled`).

Abstractions: all hooked slots of a vtable go through the same loops, so one slot
stands for them; a function is named by its owner; the key's metaclass and
inheritance depth together designate a hooker; a retain count is the set of
holders; the counters wrap at `WordMax`. The patches of slots are taken to
succeed: `VtableMemory` shows that they do.

### HookRegistry

What vtable hooking promises, without tables, counts or slots: a set of hooked objects; the
`free()` of an object is intercepted exactly while some object of its class is hooked
(hooks are in the vtable, so an object that is not hooked itself is intercepted
too); an intercepted `free()` unhooks and always goes on to the class's own; a failed hook
changes nothing; an object that is gone is not hooked, so its address can be used again.
`VtableHook` implements it, `ImplementsRegistry`, by the mapping that reads the
hooked objects off the object keys of the hash table, and the phase of a `free()` off
the function that it is about to call. It includes the abstract fairness: an intercepted
`free()` reaches the class. Only for a class that derives from a hooked one (`Derived`) the
registry promises less: its `free()` may be made to start over (`StartOver`), and need not
end, because of the fallback just described. The mapping needs one vtable per class, as the run `own` has.

### HookChain

Extends `VtableHook` by the per-object hooker and by method calls. `Publish`,
`NotifyVtable` and `NotifyObject` are the engine's `HookObject`, with the lock
released between the two hookers. `HookObject` copies the current vtable, the
patched one if it is patched, saves the original function and gives the object the
copy. `Call`, `Forward` and `Return` are a method call: each hooking function passes
it to what `GetOriginalFunction` answers *then*, or refuses access and returns
(`Refuse`: `checkAndLogUserClientAccess`). `ChainFree`,
`ChainGetOriginalFunction`, `chain_free_hook` and `ChainDestroy` are the free of an
object through both hooks; the unhooking of the two types is
`UnHookByObjectHooker` and `UnHookByVtableHooker`. An object is freed only when no
notification and no call uses it: they hold references. `failed` remembers the objects one
of whose hooks could not be made. Such an object is not published again: the private
vtable would be hooked (see below). Properties that need every hook in place say
`AllInstalled =>`; the others hold after failures too. The classes do not derive from each other
here (`NoSuperCalls`): super calls are the subject of `VtableHook`.

### StaticInstance

`fStaticContainerClassInstance` step by step: `Ask` reads `mStaticInstance`, `New`
allocates, `InitInstance` makes the lock and the common hooks, `Publish` is the
compare-and-swap, `AddHook` registers the hooks of the containing class, `Discard`
is the path of a failed or beaten instance. Assertions are no-ops, as in a release
build. `fAddHookingFunctionInternal` writes the two fields of an entry one after
the other; the model fills an entry in one step.

### HookEngine

`MakeTable` and `MakeDictionaries` are `withNoHooks`, `ReleaseEngine` is its failing path,
with `DeleteStaticTable` as it is written: the engine ends `crashed` when there is no table
to delete, and the table is left when there is one. `MakeEntry` to `UndoRegistration` are the steps of `AddNewIOKitClass` and its exit path;
`StartCallback` to `HookPerObject` are the publish notification, each look-up in a
dictionary and each use of the entry found in a step of its own. What IOKit does is modelled from its use here: a notifier
of a class tells of objects of derived classes too, a new notifier is told of objects
that are already published, `remove()` waits for the notifier's running
notifications, and the notifications of one object do not overlap (they hold its
arbitration lock). What the hook functions do is left to `HookChain`: here an
object notes which hookers were called for it.

### GhtTable and GhtMap

`GhtTable` has the chains, the counts per bucket, the list by age, the access
heuristics (which reorder a chain on a look-up), bounded buckets with eviction,
automatic and explicit rehashing, and iterators, with the field names of
`ght_hash_table_t`. An operation is a step; its callers hold a lock. How the owner
of a table uses it (`use`: size, heuristic, automatic rehashing, limit, iteration,
whether memory may run out during a rehash) is chosen in the initial state, so that one
run checks all modes. The loop of `ght_rehash` is a recursive function over the list by
age that inserts one entry after the other (`Reinserted`). There is memory for a table and
for its copy (`GhtMemory`), except where `use` says that it may run out: then a rehash loses
the entries it cannot allocate, or has no new table, when its assertion fails and the system
panics (`NoNewTable`). An insertion that evicts or rehashes may free the entry that an
iterator comes to next (`Dangling`); what the iterator reads there is any entry and any
data. `ght_finalize` frees what the chains reach, while nobody iterates, and
`ght_create` may then fail. The callback `fn_bucket_free`, which the owner of a bounded table
would be given the evicted entry with, is left out: nobody in the repository bounds
buckets, and what such a callback would do to the table is not known.

`GhtMap` is what the header says, taken at its word: a map whose pairs have the
order of their insertion, an insertion that refuses a key that is there and, if buckets are
bounded, may evict one entry, iterations in that order during which may be inserted.
Rehashing does not change it. The code does not keep all of that. `GhtTable` refines
`GhtMap` (property `IsMap`: the list by age, read as pairs, is the map) but for two points
that the property names, and TLC refutes it when either is left out:

- `RehashedWithoutMemory`: "retaining all elements" (`DldCommonHashTable.h` 549) holds only
  while there is memory;
- `CursorsValid`: an insertion during an iteration, of which the header says only that the
  new entry "might or might not occur" (437), may leave the iterator with a freed entry. From
  then on `IsMap` asks of a step only that it treats the map's content right.

### VtableMemory

Memory byte by byte behind a page table: a virtual address is mapped to a frame or not at
all, the vtable of a class lies across pages, frames may be in another order than their
pages. The loops of `DldWriteWiredSrcToWiredDst`, `DldHookVtableFunctions` and
`DldUnHookVtableFunctions` are recursive functions of the number of turns; one turn is
`NextChunk` (a `bcopy_phys` that ends with a page at the source or at the target),
`HookEntry` and `RestoreEntry`. `MemoryLayout` is what the kernel's allocator and linker give: the
vtable, the entries of the two hookers and the heap are different places, the entries are
wired, and an entry's index is one of the class that the hooker knows. `CopyLayout` adds that
the two words of its header precede a vtable, that the word behind it is free for a zero entry,
that `IOMalloc` returns wired memory and that a class has more than a few functions (the
bytes that the scan asks about then lie in the vtable); `NullIsNone`, that a function's
pointer is not NULL. `CopyAndHook` is the first per-object hook: the scan
for the end of the vtable (`VirtualsAdded`, with the address check and the read as they
are written), the buffer with padding, header and copy, and the hooks in it. `ScanFaults`
is the scan that reads a page that is not mapped. Which object is hooked when is the
subject of the other modules; objects are only counted. A failed insertion after the copy
leaves the buffer, as in the code.

### Proof modules

They hold theorems and the definitions these need, nothing that TLC runs:
`VtableHookProofs` and `VtableCountProofs` (extends it) about `VtableHook`;
`HookChainProofs`, on top of these, about `HookChain`; `HookEngineProofs`,
`StaticInstanceProofs`, `GhtTableProofs` and `VtableMemoryProofs`. `SetInduction` has the
induction that the last two need.

## The runs

| Run | Module | Shows |
|---|---|---|
| own | VtableHook | three objects of two classes, one derived from the other, every class with its own vtable and hooker: the original functions of leaf and super calls, what needs one vtable per class, the termination of `free`, the refinement of `HookRegistry` |
| shared | VtableHook | two classes with a common vtable, one of them with a second vtable, and two hookers of the same class: what holds all the same, and no hook is its own original |
| null | VtableHook | finding: the NULL entry |
| chain | HookChain | both hooks on two objects, republished and reconstructed, and a caller; every allocation and insertion may fail |
| cycle | HookChain | finding: hooks call each other for ever |
| memory | VtableMemory | vtables of five lengths over three page tables: writes, patches, restoring, the private copy |
| scan | VtableMemory | finding: the scan reads a page that is not mapped |
| threads | StaticInstance | three threads, failing allocations |
| incomplete | StaticInstance | finding: an instance without its hooks is answered |
| classes | HookEngine | creation of the engine, five registrations, a line of three classes, two objects, failures |
| freed | HookEngine | finding: a freed entry is used |
| table | GhtTable | iteration under all heuristics, automatic and explicit rehashing with and without memory, bounded buckets, both also under an iterator, finalization; the refinement of `GhtMap` and where it ends |

**Bounds.** In `own` two objects share a vtable and one of a derived class has another, the least with
a first and a last user of an entry and a super call from outside its users; three entries
are enough for two keys per vtable, and their exhaustion is the failing allocation.
`WordMax` is larger than any count that correct code reaches, so that a wrap is seen
as a wrong count. `shared` has two hookers of one class, one of which serves the other class
too; two entries are enough there for the hookers to compete for a slot, and a third
key is a failed allocation. In `chain` two objects of one class share the vtable and the private
vtable; one thread calls methods while other threads hook and free. Objects are
constructed again without a bound. The one caller's call can be at any place while the
other actors take any number of steps, so a second caller adds no interleaving
with the hooking code, which is all a call interacts with. Three keys in a bucket are the
least for an entry to have neighbours on both sides, which is what the heuristics
relink; four keys fill two buckets beyond twice the size, where the table rehashes
itself, and beyond a limit of two, where it evicts. Three threads show a winner and
two losers of the race, or a loser and a late caller. The registrations of `classes` give one object two
candidates for the nearest class and the other one two notifications.

In `memory` a word has two bytes and a page four words, so that the vtable's header, its
functions and the word behind them are in three pages: the functions end before, at and
after the end of a page, with the next page mapped or not, and are more than the scan
allows in the longest case. The two hookers have one slot in common. `WritesPrefix` tries
every offset of source and target in their pages, for lengths below, at and above a page.

`NoRecursion`, `NoHookMissed` and `UnhookedWhenFreed` are stated for as long as no hook has
failed: they do not hold when one of the two hooks of an object could not be made, as the
run `cycle` shows for the first.

**Fairness.** Weak fairness is assumed of threads that run kernel code that does
not wait: the steps of a `free` and of a method call (each takes the table's lock for
one bounded operation), the registering thread and the delivery of notifications that are
due, and the creation of the engine, which is the same thread. It is not assumed of
publications, calls or frees: they are the environment's choice. The fairness of
`HookRegistry` is implied by that of `VtableHook`: `ImplementsRegistry` includes it.
`RemoveNotifier` waits for notifications, which are fair themselves. Deadlock is not
checked in `memory`, where a read of unmapped memory ends everything, in `shared`, where
the NULL dereference of `null` does, and in `classes` and `freed`, where each object is
published once and each class registered once: there may be nothing left to do, and in
`table`, where the panic of a rehash without a new table ends everything.

## What the runs found

Each is a run that violates one property, quoted with its source under `findings`.

- `null`: two vtables of one class share the entry under the NULL-vtable key, the first
  vtable's. When first the objects of the first vtable are unhooked and then those of the
  second, that entry goes from under the NULL-vtable key while the first vtable stays patched
  and in the table under its own key. It is hooked for another object without one, and when
  that is unhooked the entry that is not there is dereferenced.
- `cycle`: for an object whose own vtable hook failed the two hooks can call each other
  without end.
- `scan`: the address check of the scan adds entries to a byte address, so that an entry in a
  page that is not mapped can be read.
- `incomplete`: the instance is registered before it has all its hooks.
- `freed`: a notification uses a dictionary entry without a reference.

Reading the code for the models showed more, which no run states as a property (each is
listed with its line under `hazards`):

- Two vtable hookers of one vtable, unhooked in the order of hooking, leave the slot with
  a hook that is told that it is its own original function (`K` 1203).
- An object whose vtable hook failed has a private vtable; when it is published again
  the private vtable is hooked (`K` 2406).
- The loser of the race for the static instance is answered NULL, and its caller reports
  success (`K2` 735, 1676).
- A super call that comes to the hook while the last object of the super class is
  unhooked is answered the derived object's own function (`K` 1476).
- A rehash without memory loses entries or panics (`G` 865, 882), and an insertion that
  rehashes or evicts frees the entry an iterator comes to next (`G` 552, 584).
- The walk over the service plane, said to apply the hooks (`README.md` 139), does not
  (`E` 332); the condition in `DeleteStaticTable` is inverted (`K` 146).

## What is proved

Nearly every safety property of the runs is a theorem: it holds for every value of the
constants that the named assumptions allow, and TLC finds it on the small instances. The
theorems and what each says are listed in `PROJECT.json`; this is how they hang together.

### Direct vtable hooks

From the typing of the constants (`ConstantsTyped`, `ConstantsDistinct`) and from
`CountersFit`, that there are no more objects than a counter can count:

- *Types and holders* (`TypeCorrect`, `HoldersBalanced`, `FailureIsUndone`). Type
  correctness is not inductive by itself: a slot is restored from an entry that the table
  refers to, so the entry must still be allocated. The invariant `EntriesInv` joins the
  types with `HoldersExact`, which says who holds an entry, and `EntriesInUse`, that an
  entry that is held has the key and the original function that it was made with.
- *Counters* (`CountersExact`, `OriginalIsNotTheHook`). `CounterInv` adds that a hooker's
  counter is the number of its hooked objects, whichever vtables the classes share. A new
  entry cannot have the hook as its original: a slot that holds the hook refuses it.
- *Patches* (`PatchedWhileInTable`). If hookers serve disjoint sets of classes and classes
  do not share vtables (`HookersDisjoint`), a slot holds a hook exactly while the entry is
  in the table (`PatchInv`). Without the hypothesis two hookers that unhook in the order of
  hooking leave a patched slot without an entry.
- *Reference counts* (`ReferenceCountsExact`, `NullEntryThere`). If all objects of a class
  use one vtable (`OneVtable`), the reference count of an entry is the number of objects
  whose entries use it, and the entry under the NULL-vtable key is the one under the
  vtable's key. `CountInv` needs the converse of the count too: the two keys of a vtable
  are in the table together and for the same entry (`KeysAgree`, `KeysKnown`), an object's
  entry is one of these (`ObjectsKnown`), and an entry nobody holds counts nothing
  (`FreeIsBlank`). The run `null` shows what happens without `OneVtable`.
- *Calls* (`OriginalFunctionRight`, `NothingLeftBehind`, `OnlyLiveHooked`). `DirectInv` has
  both, and follows a thread through the free hook: a slot is the class's function or a
  hook (`SlotsOwn`), every entry has saved the class's function (`OrigsOwn`), a thread in
  `free()` has a live object and is in the function or a hook of its class or of a super
  class, and what that hook was given as the original function is the class's own or, in a
  super call, what the object's slot may hold (`CallsInFree`, `Known`); what is hooked is
  alive (`HookedLive`).
- *Refinement* (`RegistryRefined`). Under `DirectInv` the initial states are initial states
  of `HookRegistry` and every step is one of its steps or a stutter. This is the safety part
  of `ImplementsRegistry`.

### Both kinds of hooks

`HookChainProofs` reuses all this by the mapping `Direct`: give every object the vtable of
its class instead of its private one, and every step of `HookChain` is a step of
`VtableHook` or changes nothing of it (`DirectHookingUndisturbed`). So `ChainInv` is
`Direct!PatchInv` and `HooksInv`, which says of the per-object hooks that the private
vtable is there as long as an object or an entry uses it (`CopiesMade`, `PrivateUse`), that
the direct hook of an object is made first (`DirectFirst`) and that a call holds its object
(`CallsHeld`). From it, if `HookersDisjoint`: `ChainTypeCorrect`, `ObjectCountersExact`,
`PrivateOnlyWhileHooked`, `NoResidual`, `PrivateVtablesNeverHooked`.

Its last part follows a call. `CallInv` adds, while every hook could be installed
(`AllInstalled`), `Ordered`: a copy has saved the direct hook of its class exactly if there
is one, and a call goes through the private hook, then the direct one, then the class's
function. From it, if also `OneVtable`: `HooksNeverRecur`, `EveryHookMet`, `FreedUnhooked`.

### The hooking class instance and the engine

- `StaticInstanceProofs` (any number of threads and hooks, from `StaticAssumption`): the
  invariant relates the place of a thread in the call to what exists of its instance; a
  thread between the compare-and-swap and its answer owns `mStaticInstance`, and a failed
  `init` has a lock exactly if `mInit` is set.
- `HookEngineProofs` (any classes, objects and registrations): `EngineInv` says that
  registrations after the current one have left no trace, those before are wholly there or
  wholly gone (`RegistrationInv`), that a notification runs under a notifier that exists
  (`ViaNotifier`), and what it has found of the vtable hookers at each of its steps
  (`WalkInv`): these are all registered before the first notifier is, so that the nearest
  one is final when a notification looks for it. `AliveUnlessFailing` is the other side of
  the run `freed`: if no registration fails, no notification uses a freed entry.

### The hash table

`GhtTableProofs` has no bound on keys, buckets or entries: any hash function, any uses.
The invariant `TableInv` is, but for the types, that the table is `Sound`: no key twice
(`KeysOnce`), every bucket a doubly linked list of its entries (`Chained`), the list by
age one of all entries (`Aged`), and the counts right (`Counted`). The lemmas are

- on lists as such (`ListOf`): adding in front, removing, moving to the front and
  transposing keep a list a list of the right entries, a list can be read backwards, its
  length is the number of its entries, and `Walk` goes through it (`ListWalked`);
- on what the table's operations assign (`Placed`, `Unlinked`, `MadeNewest`, ...);
- on what they keep, with the entry that an insertion has placed but not counted yet, or
  not put in the list by age (`Aged(t, {e})`, `Counted(t, {e})`), down to the bounded
  bucket that unlinks its last entry (`MakeRoomKeeps`) and the loop of `ght_rehash`
  (`RehashKeeps`), which needs that there is an address for the copy of each entry.

`TableTyped`, `TableLinked` and `TableAged` have no hypothesis. `TableBounded` and
`TableEvicts` have `UsesHeld`: an owner does not resize a table that grows by itself or
that has a bucket limit, and a table is not both. Otherwise they do not hold: shrinking
exceeds the load, and `ght_rehash` does not give the limit to the new table.

Lists, `Walk`, the loop of `ght_rehash` and the rounding of the size need induction and
recursive functions. The library's induction theorems take an operator as a parameter,
which the provers cannot instantiate. `InductionOnSet` is about a *set* of numbers instead,
and follows from the well-foundedness of `<` on the naturals (`WFMin`); that a recursive
function exists is proved with it in each case, one argument at a time (`WalkPath`,
`RehashPathExists`, `RoundUpBound`).

### Memory

`VtableMemoryProofs` has no bound on words, pages, functions, entries or objects, and no
page table in mind: from `MemoryAssumption` (words divide pages, no frame has two pages,
addresses of pointers are aligned), `MemoryLayout`, `CopyLayout` and `NullIsNone`.

- *A write* (`WritesCopyPrefix`). If the ranges have no byte in common (`RangesApart`; the
  kernel's `bcopy_phys` asks for no less), a write is one `memcpy` of the bytes up to
  the first that is not mapped at either end. By induction over the turns of the loop: what
  is written so far is such a copy (`Writing`), a turn stays within two pages
  (`ChunkInPages`, `PhysInPage`), copies at least one byte (so that `len` turns are enough),
  and the loop stops only where the prefix of mapped bytes ends (`MappedPrefix`). It needs
  of a state that every mapped address is in memory (`WholeInv`).
- *A pointer* (`PointerWritten`). A word lies in one page (`WordInPage`), so a pointer is
  written as a whole and nothing else is: no write is torn.
- *The loops over the entries* (`TableHooked`, `TableRestored`, `TableForgotten`): what they
  change, and that each saves or restores what it should although the same memory is
  written all the time. This needs that an original which is read is no function that the
  loop has hooked before.
- *Nothing is lost* (`MemoryStaysExact`). `MemoryExact` says where memory may differ from what it
  was, which is not inductive: it does not say what is in the saved originals that the vtable
  is restored from. `ExactInv` adds that while the vtable is hooked they are the class's
  functions, byte for byte (`SavedFor`), that all of its functions are in memory (`Placed`),
  and that the buffer is where it was allocated (`BufferOK`). The private copy is in its
  buffer however long the scan finds the vtable to be (`CopyInBuffer`, `CopyPlaced`): the
  size of the buffer and the place of each hook in it come from the same numbers.
- *The private vtable is complete* (`CopyIsComplete`). The scan stops too early if a
  function's word is zero, so `HooksInv` adds to `ExactInv` what the functions are:
  while the vtable is hooked the hooked ones are the hooks (`SlotsHooked`), which are read
  from entries that nothing writes (`HookingBytes`); the others are the class's own
  (`FunctionHeld`). The word behind them is still zero if it is mapped (`ZeroHeld`).
  Though the scan asks about other addresses than it reads, what it asks about before the
  end of the vtable lies within it (`AskedInVtable`). So it ends with the zero entry, at its
  limit, or in memory that is not mapped behind the functions (`ScanFinds`), and a copy
  that is made has all of the words (`CopyInBuffer`, `CopyWords`), of which the hooked
  ones are then replaced and the originals saved (`CopyMade`).
- *Words are whole* (`MemoryIsWhole`). A word that hooking has not written is the initial one, and
  of the words that it has written `HooksInv` knows those of the direct hooks. For the per-object
  ones `PrivateOK` is added: the originals and all words of the heap are pointers or
  unused while there is a buffer. It is established by the copy, whose padding is zero and
  whose words come from whole words (`CopyWhole`), and kept by direct hooking, which
  writes elsewhere (`PrivateKept`).

### Only model-checked

- Liveness: `FreeTerminates`, `CallsReturn`, `PublishedGetHooked`, and the fairness in
  `ImplementsRegistry`. Fairness and ENABLED are beyond the prover.
- The refinement `IsMap` of `GhtMap`: the theorems say that the table holds what it should
  hold, not yet that each operation changes the map as the header says.

## What is not modelled

- Callbacks of `DldHookerCommonClass` (`K` 575-1063): they only log.
- The rw locks of `K2` 1770-1828, which nothing takes, the debug-only paths, and the
  list macros of `DldCommon.h`, which nothing uses.
- Races inside `OSDictionary` when classes are registered during notifications.
- The walk over the service plane and the terminated notification, which change nothing that
  hooking depends on, and the release of a running engine, which nothing does.
- The callback of bounded buckets (`G` 583), which nobody sets.
- Super calls together with per-object hooks, and super calls of other methods than `free`: for
  the lookup they are the same call.
- Both vtable hookers of `shared` together with `GetOriginalFunction` for the wrong one: the
  properties `PatchedIffInTable` and `FreeTerminates` are stated for hookers of disjoint
  classes, since they do not hold otherwise (see above).
- The storage of entries: `DldHookedObjectEntry::free()` does not call `super::free()` (`K` 45);
  the models say when `free()` is called, not what the C++ runtime keeps.
- Calls that run while the slots of a vtable are being patched one after the other: each slot
  is a function of its own, so for one function the patch is the atomic step of `VtableHook`.
- Hash functions, and sizes beyond `2^30` in `ght_create`.

## Plan

Done: `VtableHook` and its proofs, `HookRegistry`, `HookChain`, `GhtMap` and `GhtTable`,
`StaticInstance`, `HookEngine` and `VtableMemory`, each with its proofs.

A proof still worth having is `IsMap`, step by step: in addition to what `GhtTableProofs` says
of each operation, the order of the list by age (an insertion appends, a removal leaves the
rest as it is, the loop of `ght_rehash` keeps the order).

## Running

    tlc -config VtableHook_own.cfg MCVtableHook
    tlapm VtableHookProofs.tla

and the same for the other proof modules. A configuration `<Module>_<run>.cfg` belongs to the module `MC<Module>`.
