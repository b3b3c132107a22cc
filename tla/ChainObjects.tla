---------------------------- MODULE ChainObjects ----------------------------
(***************************************************************************)
(* Objects, events and regions on the chain: the actions of shuttle.go,    *)
(* region.go and enclave.go, the same operations in vm/execution.go, and   *)
(* the StateManager and MerkleStore they call.                             *)
(*                                                                         *)
(* The chain runs actions of a block in parallel (Executors), except those *)
(* whose declared StateKeys conflict.  Regional data goes through          *)
(* StateManager straight to the Merkle database and not through the view   *)
(* the chain gives the action, so a failing action keeps what it wrote,    *)
(* and a crash loses neither.                                              *)
(*                                                                         *)
(* An object is abstracted to its code; the objects that SetInputObject    *)
(* and UpdateValidEnclaves store have none and stand for themselves.  IDs  *)
(* are strings anybody may choose, those of such objects included.         *)
(***************************************************************************)
EXTENDS Integers, FiniteSets

CONSTANTS
    Executors,
    Regions,
    IDs,        \* object IDs
    InputID,    \* InputID[id] is the string "input:" + id
    EnclaveIDs, \* the strings "enclave/" + hex
    Codes, Times,
    Txs         \* the actions the chain executes, again after a crash

VARIABLES
    objects,  \* r/<region>/<region>/object/<id>
    events,   \* r/<region>/<region>/event/<event id>: the call it holds
    regions,  \* regions with a record under RegionKey
    stores,   \* StateManager.regionStores
    paired,   \* regions for which the coordinator has a TEE pair
    run,      \* what each executor is doing
    done      \* history: the actions that have succeeded

chainVars == <<objects, events, regions, stores, paired, run, done>>

Absent == "absent"
Contents == Codes \cup {"input", "enclave", Absent}

\* "exec" actions go through RegionalExecutor; the others are Execute methods.
Kinds == {"create", "send", "input", "enclave", "execCreate", "execSend"}

TxRecords == [kind : Kinds, region : Regions, id : IDs, code : Codes, time : Times]

Creates == {t \in Txs : t.kind \in {"create", "execCreate"}}
Sends == {t \in Txs : t.kind \in {"send", "execSend"}}

ASSUME ChainAssumption ==
    /\ Txs \subseteq TxRecords
    /\ DOMAIN InputID \subseteq IDs
    /\ \A id \in DOMAIN InputID : InputID[id] \in IDs
    /\ EnclaveIDs \subseteq IDs
    /\ \A t \in Txs : t.kind = "input" => t.id \in DOMAIN InputID
    /\ \A t \in Txs : t.kind = "enclave" => t.id \in EnclaveIDs
    /\ {"input", "enclave", Absent} \cap Codes = {}

Reserved == {InputID[id] : id \in DOMAIN InputID} \cup EnclaveIDs

\* SendEvent names an event after its object and the second of its attestation,
\* RegionalExecutor after the object alone.
EventID(t) == IF t.kind = "send" THEN <<t.id, t.time>> ELSE <<t.id>>
EventIDs == (IDs \X Times) \cup {<<id>> : id \in IDs}

Idle == [pc |-> "idle"]
Steps == [pc : {"check", "event", "write"}, tx : Txs, read : Contents]

ChainTypeOK ==
    /\ objects \in [Regions \X IDs -> Contents]
    /\ events \in [Regions \X EventIDs -> Codes \cup {Absent}]
    /\ regions \subseteq Regions /\ stores \subseteq Regions /\ paired \subseteq Regions
    /\ run \in [Executors -> Steps \cup {Idle}]
    /\ done \subseteq Txs

ChainInit ==
    /\ objects = [ri \in Regions \X IDs |-> Absent]
    /\ events = [re \in Regions \X EventIDs |-> Absent]
    /\ regions = {} /\ stores = {} /\ paired = {}
    /\ run = [e \in Executors |-> Idle]
    /\ done = {}

-----------------------------------------------------------------------------
(* Which actions the chain runs at the same time.                          *)

\* Mutant: the object key of a creation is declared for reading.
WriteKeysReadOnly(t) ==
    CASE t.kind \in {"create", "execCreate"} -> {}
      [] t.kind \in {"send", "execSend"} ->
           {<<"obj", t.region, t.id>>, <<"evt", t.region, t.id>>}
      [] t.kind = "input" -> {<<"input_object">>}
      [] t.kind = "enclave" -> {<<"enclave", t.id>>}

\* The StateKeys of an action with permission to write.  They are not the keys
\* that are written, and not always as distinct as those.
WriteKeys(t) ==
    CASE t.kind \in {"create", "execCreate"} -> {<<"obj", t.region, t.id>>}
      [] t.kind \in {"send", "execSend"} ->
           {<<"obj", t.region, t.id>>, <<"evt", t.region, t.id>>}
      [] t.kind = "input" -> {<<"input_object">>}
      [] t.kind = "enclave" -> {<<"enclave", t.id>>}

\* Two actions conflict when both declare a key and one may write it.  (No key
\* that is only read, "r/<region>/info" or "object:<id>", is written by any.)
Conflict(t, u) == WriteKeys(t) \cap WriteKeys(u) # {}

Running == {e \in Executors : run[e] # Idle}

Begin(e, t) ==
    /\ run[e] = Idle
    /\ \A f \in Running : ~Conflict(t, run[f].tx)
    /\ run' = [run EXCEPT ![e] = [pc |-> "check", tx |-> t, read |-> Absent]]
    /\ UNCHANGED <<objects, events, regions, stores, paired, done>>

-----------------------------------------------------------------------------
(* The store of a region.                                                  *)

\* getRegionalStoreInternal: the cached store, or a new one if the coordinator
\* has a TEE pair for the region.
Reachable(r) == r \in stores \cup paired
OpenStore(r) == stores' = stores \cup {r}

\* The effect of MerkleStore.Insert on the map a key of which it sets: the
\* channel and the message to the TEEs may fail, then the Put, then the reading
\* of the new root, when the value is already there.  The chain sees the last
\* two as errors alike.
InsertOutcomes(map, key, value) ==
    {[ok |-> TRUE,  map |-> [map EXCEPT ![key] = value]],
     [ok |-> FALSE, map |-> map],
     [ok |-> FALSE, map |-> [map EXCEPT ![key] = value]]}

-----------------------------------------------------------------------------
(* The steps of an action.                                                 *)

\* It returns an error, keeping what it has written.
Fail(e) == run' = [run EXCEPT ![e] = Idle]

\* The store cannot be opened, or a read of it fails.
CheckFails(e) ==
    /\ run[e] # Idle /\ run[e].pc = "check"
    /\ Fail(e)
    /\ UNCHANGED <<objects, events, regions, stores, paired, done>>

\* StateManager's reads of the store.
GetRegion(r) == r \in regions
RegionExists(r) == GetRegion(r)
GetObject(r, id) == objects[<<r, id>>]
ObjectExists(r, id) == GetObject(r, id) # Absent

\* What the Execute methods ask of the state.  Malformed actions (sizes, code,
\* attestations that do not match) are refused like failing ones.
CreateObject(t) == GetRegion(t.region) /\ ~ObjectExists(t.region, t.id)
SendEvent(t) == GetObject(t.region, t.id) # Absent
SetInputObject(t) == ObjectExists(t.region, t.id)
UpdateValidEnclaves(t) == RegionExists(t.region)

\* The same for RegionalExecutor.
executeCreateObject(t) == GetObject(t.region, t.id) = Absent

\* Mutant: RegionalExecutor does not look the object of an event up.
executeSendEventUnchecked(t) == TRUE

executeSendEvent(t) == GetObject(t.region, t.id) # Absent

ExecuteAction(t) ==
    /\ GetRegion(t.region)
    /\ IF t \in Sends THEN executeSendEvent(t) ELSE executeCreateObject(t)

Passes(t) ==
    CASE t.kind = "create" -> CreateObject(t)
      [] t.kind = "send" -> SendEvent(t)
      [] t.kind = "input" -> SetInputObject(t)
      [] t.kind = "enclave" -> UpdateValidEnclaves(t)
      [] OTHER -> ExecuteAction(t)

Check(e) ==
    /\ run[e] # Idle /\ run[e].pc = "check"
    /\ LET t == run[e].tx
       IN  /\ Reachable(t.region)
           /\ OpenStore(t.region)
           /\ IF Passes(t)
              THEN run' = [run EXCEPT ![e] =
                             [pc   |-> IF t \in Sends THEN "event" ELSE "write",
                              tx   |-> t,
                              read |-> GetObject(t.region, t.id)]]
              ELSE Fail(e)
    /\ UNCHANGED <<objects, events, regions, paired, done>>

SetEvent(t) == InsertOutcomes(events, <<t.region, EventID(t)>>, t.code)

\* After SetEvent, RegionalExecutor is done; SendEvent goes on to the object.
StoreEvent(e) ==
    /\ run[e] # Idle /\ run[e].pc = "event"
    /\ LET t == run[e].tx
       IN  \E out \in SetEvent(t) :
             /\ events' = out.map
             /\ run' = [run EXCEPT ![e] = IF out.ok /\ t.kind = "send"
                                          THEN [@ EXCEPT !.pc = "write"] ELSE Idle]
             /\ done' = IF out.ok /\ t.kind = "execSend" THEN done \cup {t} ELSE done
    /\ UNCHANGED <<objects, regions, stores, paired>>

\* The object that SetObject is called for, and its content.  SendEvent writes
\* back what it has read: the list of events and the time it adds to the object
\* are not among the fields that SetObject stores.
Target(t) == <<t.region, IF t.kind = "input" THEN InputID[t.id] ELSE t.id>>
Content(step) ==
    CASE step.tx.kind \in {"create", "execCreate"} -> step.tx.code
      [] step.tx.kind = "send" -> step.read
      [] step.tx.kind = "input" -> "input"
      [] step.tx.kind = "enclave" -> "enclave"

SetObject(step) == InsertOutcomes(objects, Target(step.tx), Content(step))

StoreObject(e) ==
    /\ run[e] # Idle /\ run[e].pc = "write"
    /\ \E out \in SetObject(run[e]) :
         /\ objects' = out.map
         /\ done' = IF out.ok THEN done \cup {run[e].tx} ELSE done
    /\ run' = [run EXCEPT ![e] = Idle]
    /\ UNCHANGED <<events, regions, stores, paired>>

-----------------------------------------------------------------------------
(* Regions.                                                                *)

\* CreateRegion opens the store and reads a key that nothing writes; the error
\* for a missing key is database.ErrNotFound and it compares it with
\* actions.ErrNotFound, so it ends there.
CreateRegion(r) ==
    /\ Reachable(r)
    /\ OpenStore(r)
    /\ UNCHANGED <<objects, events, regions, paired, run, done>>

\* UpdateRegion ends at the same key, in the same way.
UpdateRegion(r) == CreateRegion(r)

\* StateManager.SetRegion.
SetRegion(r) ==
    /\ Reachable(r)
    /\ OpenStore(r)
    /\ regions' = regions \cup {r}
    /\ UNCHANGED <<objects, events, paired, run, done>>

\* StateManager.DeleteRegion drops the cached store and the record of SaveRegion,
\* not the one of SetRegion nor the region's objects.
DeleteRegion(r) ==
    /\ stores' = stores \ {r}
    /\ UNCHANGED <<objects, events, regions, paired, run, done>>

\* The coordinator gets a TEE pair for a region (RegisterRegion).
PairRegion(r) ==
    /\ paired' = paired \cup {r}
    /\ UNCHANGED <<objects, events, regions, stores, run, done>>

\* The process ends at any point and starts again: only the database is left.
CrashRestart ==
    /\ stores' = {} /\ paired' = {}
    /\ run' = [e \in Executors |-> Idle]
    /\ UNCHANGED <<objects, events, regions, done>>

ChainNext ==
    \/ \E e \in Executors, t \in Txs : Begin(e, t)
    \/ \E e \in Executors : CheckFails(e) \/ Check(e) \/ StoreEvent(e) \/ StoreObject(e)
    \/ \E r \in Regions :
         \/ CreateRegion(r) \/ UpdateRegion(r) \/ SetRegion(r) \/ DeleteRegion(r) \/ PairRegion(r)
    \/ CrashRestart

ChainSpec == ChainInit /\ [][ChainNext]_chainVars

-----------------------------------------------------------------------------
(* Properties.                                                             *)

\* A CreateObject that succeeded is final: whatever runs at the same time, fails
\* half-way, or is executed again after a crash, the object keeps the code it
\* was created with, and no second creation of it succeeds.  (IDs that spell the
\* name of an input object or of an enclave are not protected in this way.)
CreationFinal ==
    \A t \in done \cap Creates :
        t.id \notin Reserved => objects[<<t.region, t.id>>] = t.code

\* Every stored event is about an object of its region, although an event is
\* written before its action succeeds and is never taken back.
EventsOfObjects ==
    \A re \in Regions \X EventIDs :
        events[re] # Absent => objects[<<re[1], re[2][1]>>] # Absent
=============================================================================
