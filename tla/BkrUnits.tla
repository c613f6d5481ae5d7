------------------------------- MODULE BkrUnits -------------------------------
(***************************************************************************)
(* The units of the driver: how the parallel-port driver (bkr_parport.c)   *)
(* registers and removes them as ports come and go and as it is loaded and *)
(* unloaded, and how programs find, claim and give them back (bkr_main.c). *)
(*                                                                         *)
(* Sections under bkr_unit_list_lock are single steps; nothing else keeps  *)
(* a program from the worker that removes units.  The parport core calls   *)
(* attach() and detach() one at a time.                                    *)
(***************************************************************************)
EXTENDS Integers, Sequences, FiniteSetsExt, SequencesExt

CONSTANTS
  Ports,        \* port objects
  Files,        \* open() calls of the programs, each closed before the next
  Minors,       \* the unit numbers each of them asks for
  MaxUnits      \* bound: units registered, one after another

ASSUME UnitsAssumption ==
  /\ IsFiniteSet(Files)
  /\ Minors \in [Files -> SUBSET Nat]
  /\ MaxUnits \in Nat

VARIABLES
  list,      \* bkr_unit_list
  units,     \* port and number of every unit that was registered
  held,      \* what attach() acquired and nobody released
  work,      \* detach_queue
  core,      \* external: what the parport core is doing with the driver
  pending,   \* external: ports attach() or detach() has still to be called for
  plugged,   \* external: ports present
  driver,    \* external: the module, "out", "in" or "going"
  refs,      \* module_refcount() of the driver
  locked,    \* units whose lock is down
  moving,    \* units with a stream->direction other than BKR_STOPPED
  driving,   \* units that have claimed their port and run its DMA
  pc,        \* where each program is
  filp,      \* its unit: filp->private_data
  asked,     \* the unit number it asked for
  stale,     \* ghost: programs that touched a freed unit
  abandoned  \* ghost: units whose release() gave up

unitVars == <<list, units, held, work>>
coreVars == <<core, pending, plugged, driver>>
lockVars == <<refs, locked>>
ioVars   == <<moving, driving, abandoned>>
fileVars == <<pc, filp, asked, stale>>
vars     == <<unitVars, coreVars, lockVars, ioVars, fileVars>>

NoUnit   == 0
NoNumber == -1
Resources == {"private", "stream", "ring", "buffer", "device", "unit"}

Number(u) == units[u].number
PortOf(u) == units[u].port
Freed     == DOMAIN units \ Range(list)
Numbers   == {Number(list[i]) : i \in DOMAIN list}

Init ==
  /\ list = <<>> /\ units = <<>> /\ held = {} /\ work = <<>>
  /\ core = "idle" /\ pending = {} /\ driver = "out"
  /\ plugged = {}
  /\ refs = 0 /\ locked = {}
  /\ moving = {} /\ driving = {} /\ abandoned = {}
  /\ pc = [f \in Files |-> "closed"]
  /\ filp = [f \in Files |-> NoUnit]
  /\ asked = [f \in Files |-> NoNumber]
  /\ stale = {}

-----------------------------------------------------------------------------
(* Registering a unit.                                                     *)

(* The numbers of the list are compared with 0, 1, ... in turn: the first  *)
(* place where they differ.                                                *)
FirstGap == Min({n \in 1..(Len(list) + 1) : n <= Len(list) => Number(list[n]) # n - 1})

\* Mutant: a new unit goes to the end of the list.
AppendAt(s, n, u) == Append(s, u)

AddTail(s, n, u) == InsertAt(s, n, u)

(* The steps of attach() that it finds have failed, and what it may have   *)
(* acquired by then: private and stream are allocated before either is     *)
(* looked at.                                                              *)
Steps == {"stream", "buffer", "device", "unit"}
Acquired(step) ==
  CASE step = "stream" -> {{}, {"private"}, {"stream"}}
    [] step = "buffer" -> {{"private", "stream", "ring"}}
    [] step = "device" -> {{"private", "stream", "ring", "buffer"}}
    [] step = "unit"   -> {{"private", "stream", "ring", "buffer", "device"}}

(* The labels at the end of attach(), no_unit, no_parport, no_dma_buffer   *)
(* and no_stream, and what is released at each.                            *)
ExitLabels == 1..4
AtLabel == <<{"device"}, {"buffer"}, {"ring"}, {"private", "stream"}>>

\* Mutant: a port that cannot be shared leaves by the label below its own.
SkippingLabel(step) ==
  CASE step = "unit" -> 1 [] step \in {"device", "buffer"} -> 3 [] step = "stream" -> 4

(* The label a failure goes to.  Each falls through to those below it.     *)
Label(step) ==
  CASE step = "unit"   -> 1
    [] step = "device" -> 2
    [] step = "buffer" -> 3
    [] step = "stream" -> 4

Released(step) == UNION {AtLabel[i] : i \in {i \in ExitLabels : i >= Label(step)}}

(* What is left when it has gone: things acquired and not released, or     *)
(* released without having been acquired.  kfree() takes NULL.             *)
LeftBy(step, acquired) ==
  (acquired \ Released(step)) \union
    (Released(step) \ (acquired \union {"private", "stream"}))

(* The call for port p was the last one, or another follows.               *)
Done(p) ==
  /\ pending' = pending \ {p}
  /\ core' = IF pending = {p} THEN "idle" ELSE core

(* attach() for a port that suits it, to its end.                          *)
Attach(p) ==
  /\ core = "attaching" /\ p \in pending
  /\ Len(units) < MaxUnits
  /\ LET u == Len(units) + 1
     IN  /\ units' = Append(units, [port |-> p, number |-> FirstGap - 1])
         /\ list' = AddTail(list, FirstGap, u)
         /\ held' = held \union ({u} \X Resources)
  /\ Done(p)
  /\ UNCHANGED <<work, plugged, driver, lockVars, ioVars, fileVars>>

(* attach() that runs out of memory, or finds the port taken.              *)
AttachFails(p, step) ==
  /\ core = "attaching" /\ p \in pending
  /\ \E acquired \in Acquired(step) :
       held' = held \union ({NoUnit} \X LeftBy(step, acquired))
  /\ Done(p)
  /\ UNCHANGED <<list, units, work, plugged, driver, lockVars, ioVars, fileVars>>

(* No memory for the ring: ring_new() writes to what kmalloc() returned    *)
(* before attach() can see that it is NULL.  The kernel kills the thread,  *)
(* which has the lock of the parport core: nothing is attached, detached,  *)
(* loaded or unloaded any more.                                            *)
AttachOopses(p) ==
  /\ core = "attaching" /\ p \in pending
  /\ held' = held \union ({NoUnit} \X {"private", "stream"})
  /\ core' = "oopsed"
  /\ UNCHANGED <<list, units, work, pending, plugged, driver, lockVars, ioVars, fileVars>>

(* attach() for a port not named in the options, or without the features.  *)
AttachNot(p) ==
  /\ core = "attaching" /\ p \in pending
  /\ Done(p)
  /\ UNCHANGED <<unitVars, plugged, driver, lockVars, ioVars, fileVars>>

-----------------------------------------------------------------------------
(* Removing units.                                                         *)

UnitsOf(p) == {u \in Range(list) : PortOf(u) = p}

Queue(S) == \E queued \in SetToSeqs(S) : work' = work \o queued

\* Mutant: only units nobody uses are removed.
DetachIfIdle(p) ==
  /\ core = "detaching" /\ p \in pending
  /\ Queue(UnitsOf(p) \ (Range(work) \union locked))
  /\ core' = "detached"
  /\ pending' = pending \ {p}
  /\ UNCHANGED <<list, units, held, plugged, driver, lockVars, ioVars, fileVars>>

(* detach() under the lock of the list.  Work that is queued is not queued *)
(* twice.  A port has one unit at most, so that the order is of no account.*)
Detach(p) ==
  /\ core = "detaching" /\ p \in pending
  /\ Queue(UnitsOf(p) \ Range(work))
  /\ core' = "detached"
  /\ pending' = pending \ {p}
  /\ UNCHANGED <<list, units, held, plugged, driver, lockVars, ioVars, fileVars>>

(* The rest of detach(): it looks whether a unit is claimed, and waits for *)
(* the queue if none is.                                                   *)
DetachWaits ==
  /\ core = "detached" /\ refs = 0
  /\ core' = "flushing"
  /\ UNCHANGED <<unitVars, pending, plugged, driver, lockVars, ioVars, fileVars>>

DetachReturns ==
  /\ \/ core = "detached" /\ refs # 0
     \/ core = "flushing" /\ work = <<>>
  /\ core' = IF pending = {} /\ driver = "in" THEN "idle" ELSE "detaching"
  /\ UNCHANGED <<unitVars, pending, plugged, driver, lockVars, ioVars, fileVars>>

PlaceOf(u) == CHOOSE i \in DOMAIN list : list[i] = u

(* The unit is unlinked and all that belongs to it released; a port it had *)
(* claimed is taken from it.                                               *)
DoDetach ==
  /\ work # <<>>
  /\ LET u == Head(work)
     IN  /\ list' = RemoveAt(list, PlaceOf(u))
         /\ held' = held \ ({u} \X Resources)
         /\ locked' = locked \ {u}
         /\ moving' = moving \ {u}
         /\ driving' = driving \ {u}
         /\ abandoned' = abandoned \ {u}
  /\ work' = Tail(work)
  /\ UNCHANGED <<units, coreVars, refs, fileVars>>

-----------------------------------------------------------------------------
(* External: ports come and go, and the driver is loaded and unloaded.  A  *)
(* port object lives on while a unit is registered on it, so a port that   *)
(* comes back is not the object of any unit.                               *)
Load ==
  /\ driver = "out" /\ Len(units) < MaxUnits
  /\ driver' = "in"
  /\ pending' = plugged
  /\ core' = IF plugged = {} THEN "idle" ELSE "attaching"
  /\ UNCHANGED <<unitVars, plugged, lockVars, ioVars, fileVars>>

Plug(p) ==
  /\ core = "idle" /\ p \notin plugged /\ UnitsOf(p) = {}
  /\ Len(units) < MaxUnits
  /\ plugged' = plugged \union {p}
  /\ IF driver = "in" THEN core' = "attaching" /\ pending' = {p}
                      ELSE UNCHANGED <<core, pending>>
  /\ UNCHANGED <<unitVars, driver, lockVars, ioVars, fileVars>>

Unplug(p) ==
  /\ core = "idle" /\ p \in plugged
  /\ plugged' = plugged \ {p}
  /\ IF driver = "in" THEN core' = "detaching" /\ pending' = {p}
                      ELSE UNCHANGED <<core, pending>>
  /\ UNCHANGED <<unitVars, driver, lockVars, ioVars, fileVars>>

(* A module in use is not unloaded; from here on nobody can take hold of   *)
(* it.  bkr_parport_exit() then has every port detached.                   *)
Unload ==
  /\ driver = "in" /\ core = "idle" /\ refs = 0
  /\ driver' = "going"
  /\ core' = "detaching"
  /\ pending' = plugged
  /\ UNCHANGED <<unitVars, plugged, lockVars, ioVars, fileVars>>

\* Mutant: the queue is destroyed without being flushed.
HastyUnloaded ==
  /\ driver = "going" /\ core = "detaching" /\ pending = {}
  /\ driver' = "out"
  /\ core' = "idle"
  /\ UNCHANGED <<unitVars, pending, plugged, lockVars, ioVars, fileVars>>

(* The rest of bkr_parport_exit(): the queue is flushed and destroyed.     *)
Unloaded ==
  /\ driver = "going" /\ core = "detaching" /\ pending = {}
  /\ work = <<>>
  /\ driver' = "out"
  /\ core' = "idle"
  /\ UNCHANGED <<unitVars, pending, plugged, lockVars, ioVars, fileVars>>

-----------------------------------------------------------------------------
(* Programs.                                                               *)
At(f, label) == pc[f] = label /\ f \notin stale
Go(f, label) == pc' = [pc EXCEPT ![f] = label] /\ UNCHANGED <<filp, asked, stale>>
Close(f) ==
  /\ pc' = [pc EXCEPT ![f] = "closed"]
  /\ filp' = [filp EXCEPT ![f] = NoUnit]
  /\ asked' = [asked EXCEPT ![f] = NoNumber]
  /\ UNCHANGED stale
Live(f) == filp[f] \in Range(list)

(* open() walks the list, and keeps its last unit if it finds no other.    *)
Found(n) ==
  LET with == {u \in Range(list) : Number(u) = n}
  IN  IF with # {} THEN CHOOSE u \in with : TRUE
      ELSE IF list = <<>> THEN NoUnit ELSE Last(list)

Lookup(f, n) ==
  /\ At(f, "closed")
  /\ Found(n) # NoUnit
  /\ filp' = [filp EXCEPT ![f] = Found(n)]
  /\ asked' = [asked EXCEPT ![f] = n]
  /\ pc' = [pc EXCEPT ![f] = "found"]
  /\ UNCHANGED <<unitVars, coreVars, lockVars, ioVars, stale>>

\* Mutant: whatever the walk ended at is taken.
AnyNumber(f) == FALSE

OtherNumber(f) == Number(filp[f]) # asked[f]

\* Mutant: the module is put on the way out, whether or not it was taken.
PuttingOpenFails(f) ==
  /\ At(f, "found") /\ Live(f)
  /\ OtherNumber(f) \/ driver = "going" \/ filp[f] \in locked
  /\ refs' = refs - 1
  /\ Close(f)
  /\ UNCHANGED <<unitVars, coreVars, locked, ioVars>>

(* -ENODEV, or -EBUSY, or the driver is being unloaded.                    *)
OpenFails(f) ==
  /\ At(f, "found") /\ Live(f)
  /\ OtherNumber(f) \/ driver = "going" \/ filp[f] \in locked
  /\ Close(f)
  /\ UNCHANGED <<unitVars, coreVars, lockVars, ioVars>>

\* Mutant: the lock of the unit is waited for, and the module not held.
UncountedClaim(f) ==
  /\ At(f, "found") /\ Live(f)
  /\ ~OtherNumber(f) /\ filp[f] \notin locked
  /\ locked' = locked \union {filp[f]}
  /\ Go(f, "claimed")
  /\ UNCHANGED <<unitVars, coreVars, refs, ioVars>>

(* bkr_unit_claim()                                                        *)
Claim(f) ==
  /\ At(f, "found") /\ Live(f)
  /\ ~OtherNumber(f) /\ driver # "going" /\ filp[f] \notin locked
  /\ refs' = refs + 1
  /\ locked' = locked \union {filp[f]}
  /\ Go(f, "claimed")
  /\ UNCHANGED <<unitVars, coreVars, ioVars>>

(* The rest of open(): ready() calls the stream stopped, without stopping  *)
(* it.                                                                     *)
Ready(f) ==
  /\ At(f, "claimed") /\ Live(f)
  /\ moving' = moving \ {filp[f]}
  /\ Go(f, "open")
  /\ UNCHANGED <<unitVars, coreVars, lockVars, driving, abandoned>>

(* start_read() or start_write()                                           *)
Start(f) ==
  /\ At(f, "open") /\ Live(f)
  /\ filp[f] \notin moving
  /\ moving' = moving \union {filp[f]}
  /\ driving' = driving \union {filp[f]}
  /\ abandoned' = abandoned \ {filp[f]}
  /\ UNCHANGED <<unitVars, coreVars, lockVars, fileVars>>

(* release(): the stream is stopped, if it is not called stopped already,  *)
(* or the wait for it is given up.                                         *)
Stop(f) ==
  /\ At(f, "open") /\ Live(f)
  /\ IF filp[f] \in moving
     THEN moving' = moving \ {filp[f]} /\ driving' = driving \ {filp[f]}
     ELSE UNCHANGED <<moving, driving>>
  /\ Go(f, "stopped")
  /\ UNCHANGED <<unitVars, coreVars, lockVars, abandoned>>

GiveUp(f) ==
  /\ At(f, "open") /\ Live(f)
  /\ filp[f] \in moving
  /\ abandoned' = abandoned \union {filp[f]}
  /\ Go(f, "stopped")
  /\ UNCHANGED <<unitVars, coreVars, lockVars, moving, driving>>

(* bkr_unit_release()                                                      *)
Release(f) ==
  /\ At(f, "stopped") /\ Live(f)
  /\ refs' = refs - 1
  /\ locked' = locked \ {filp[f]}
  /\ Close(f)
  /\ UNCHANGED <<unitVars, coreVars, ioVars>>

(* The unit is freed when the program comes back to it.  What follows is   *)
(* not modelled: the program does nothing more.                            *)
StaleUse(f) ==
  /\ pc[f] # "closed" /\ ~Live(f) /\ f \notin stale
  /\ stale' = stale \union {f}
  /\ UNCHANGED <<unitVars, coreVars, lockVars, ioVars, pc, filp, asked>>

File(f) ==
  \/ \E n \in Minors[f] : Lookup(f, n)
  \/ OpenFails(f) \/ Claim(f) \/ Ready(f)
  \/ Start(f) \/ Stop(f) \/ GiveUp(f) \/ Release(f)
  \/ StaleUse(f)

-----------------------------------------------------------------------------
CoreStep ==
  \/ \E p \in Ports : Attach(p) \/ AttachNot(p) \/ AttachOopses(p) \/ Detach(p)
  \/ \E p \in Ports, step \in Steps : AttachFails(p, step)
  \/ DetachWaits \/ DetachReturns \/ Unloaded

Next ==
  \/ CoreStep
  \/ DoDetach
  \/ Load \/ Unload
  \/ \E p \in Ports : Plug(p) \/ Unplug(p)
  \/ \E f \in Files : File(f)

(* The worker thread and the thread that loads, unloads or removes a port  *)
(* keep running; programs need not, nor does anything make them close.     *)
Spec == Init /\ [][Next]_vars /\ WF_vars(DoDetach) /\ WF_vars(CoreStep)

-----------------------------------------------------------------------------
Holding == {f \in Files : pc[f] \in {"claimed", "open", "stopped"}}

TypeOK ==
  /\ Range(list) \union Range(work) \union locked \union moving \union driving
       \union abandoned \subseteq DOMAIN units
  /\ \A u \in DOMAIN units : PortOf(u) \in Ports /\ Number(u) \in Nat
  /\ core \in {"idle", "attaching", "oopsed", "detaching", "detached", "flushing"}
  /\ pending \union plugged \subseteq Ports
  /\ driver \in {"out", "in", "going"}
  /\ refs \in Nat
  /\ pc \in [Files -> {"closed", "found", "claimed", "open", "stopped"}]
  /\ stale \subseteq Files

(* A new unit has the lowest number no other unit has, whatever units were *)
(* removed before: the search compares the list with 0, 1, ... and works   *)
(* only on a list in the order of the numbers, which the place a new unit  *)
(* is linked at must keep.                                                 *)
NumbersAscend ==
  \A i, j \in DOMAIN list : i < j => Number(list[i]) < Number(list[j])

(* Nothing that attach() acquired outlives its failure or its unit, at     *)
(* whatever step it failed, nothing is released that was not acquired, and *)
(* all of it is there while the unit is in the list.  It cannot hold when  *)
(* ring_new() was given no memory: attach() is killed with what it has.    *)
HeldByListedUnits == core # "oopsed" => held = Range(list) \X Resources

(* A program that opened a number has the unit of that number, and no      *)
(* other program has it; the locks and the references to the driver are    *)
(* those of the programs that hold units, on every path out of open() and  *)
(* close().                                                                *)
ClaimsAreExclusive ==
  /\ \A f \in Holding : Number(filp[f]) = asked[f]
  /\ locked = {filp[f] : f \in Holding} \intersect Range(list)
  /\ \A f, g \in Holding : filp[f] = filp[g] => f = g
  /\ refs = Cardinality(Holding)

(* A unit is freed under a program only if its port was taken away: the    *)
(* driver is not unloaded while a unit is open, and none can be claimed    *)
(* once unloading has begun.  A program that is between finding a unit and *)
(* claiming it has no such protection.  Nor is a port left running, unless *)
(* close() had given up on it or its port is gone.                         *)
Freeing(u) ==
  PortOf(u) \in plugged =>
    /\ \A f \in Holding : filp[f] # u
    /\ u \in driving => u \in abandoned

UnloadSparesOpenUnits == [][\A u \in Freed' \ Freed : Freeing(u)]_vars

(* Unloading the driver leaves no unit in the list and no work in the      *)
(* queue, also for ports that went away while their unit was in use.       *)
UnloadIsClean == driver = "out" => list = <<>> /\ work = <<>>

(* Unloading ends, and a port that was taken away loses its unit, even     *)
(* while a program has it open.  (Unloading ends with the driver out, and  *)
(* a port does not come back before it has lost its unit, so that each is  *)
(* said by: again and again this is not what is going on.)                 *)
RemovalCompletes ==
  /\ []<>(driver # "going")
  /\ \A p \in Ports : []<>(p \in plugged \/ UnitsOf(p) = {})
=============================================================================
