--------------------------- MODULE SharedOperators ---------------------------
(***************************************************************************)
(* crates/vrb-shared-operators: operators on shared resources, and the     *)
(* registry that gives a request to the first compatible one.              *)
(*                                                                         *)
(* A request is [kind, preferred, memory, sync, zeroCopy], an invocation   *)
(* [metadata, resources, waits, signals]; what an operator offers is       *)
(* [kind, backend, memory, sync, externalSync, zeroCopy].                  *)
(***************************************************************************)
EXTENDS Checked, Sequences, SequencesExt

CONSTANTS
  Operators,
  Offers      \* operator -> its SharedOperatorCapabilities

VARIABLE registered  \* kind -> the operators registered for it, in order

Kinds == {Offers[o].kind : o \in Operators}

-----------------------------------------------------------------------------
(* Invocations *)

\* SharedResourceRegion::validate
RegionIsValid(r) ==
  LET end == Plus(r.offset, r.length) IN
  /\ r.handle # 0 /\ r.allocation # 0 /\ r.length # 0
  /\ end # None /\ end <= r.allocation

SyncPoints(invocation) == invocation.waits \o invocation.signals

\* SharedOperatorInvocation::validate
InvocationIsValid(invocation) ==
  /\ \A r \in ToSet(invocation.resources) : RegionIsValid(r)
  /\ \A p \in ToSet(SyncPoints(invocation)) : p.handle # 0

-----------------------------------------------------------------------------
(* Selection *)

\* FirstCompatibleShared's closure `compatible`
Compatible(o, request, invocation) ==
  LET offer == Offers[o] IN
  /\ offer.kind = request.kind
  /\ request.memory # None => request.memory \in offer.memory
  /\ \A r \in ToSet(invocation.resources) : r.kind \in offer.memory
  /\ request.sync \/ SyncPoints(invocation) # << >> => offer.externalSync
  /\ \A p \in ToSet(SyncPoints(invocation)) : p.kind \in offer.sync
  /\ request.zeroCopy => offer.zeroCopy

FittingAt(candidates, request, invocation) ==
  {i \in DOMAIN candidates : Compatible(candidates[i], request, invocation)}

FavouredAt(candidates, request) ==
  {i \in DOMAIN candidates : Offers[candidates[i]].backend = request.preferred}

\* Iterator::find: of the candidates at these positions, the first.
FirstAt(positions, candidates) ==
  IF positions = {} THEN None
  ELSE candidates[CHOOSE i \in positions : \A j \in positions : i <= j]

\* Mutant: a preferred backend is preferred before compatibility is looked at.
PreferredFirst(request, invocation, candidates) ==
  LET favoured == FavouredAt(candidates, request)
      fitting == FittingAt(candidates, request, invocation)
  IN FirstAt(IF favoured # {} THEN favoured ELSE fitting, candidates)

\* FirstCompatibleShared::select
Select(request, invocation, candidates) ==
  LET fitting == FittingAt(candidates, request, invocation)
      favoured == fitting \cap FavouredAt(candidates, request)
  IN FirstAt(IF favoured # {} THEN favoured ELSE fitting, candidates)

\* SharedOperatorRegistry::execute, up to the operator's own execute_shared: the operator
\* that the invocation is handed to, or None for an error.
Dispatched(request, invocation) ==
  LET candidates == IF request.kind \in Kinds THEN registered[request.kind] ELSE << >>
  IN IF InvocationIsValid(invocation) THEN Select(request, invocation, candidates) ELSE None

-----------------------------------------------------------------------------
(* The registry *)

InRegistry == UNION {ToSet(registered[k]) : k \in Kinds}

RegistryInit == registered = [k \in Kinds |-> << >>]

\* register
Add(o) == registered' = [registered EXCEPT ![Offers[o].kind] = Append(@, o)]

\* A registry that goes drops its operators kind by kind, each in the order of its Vec.
NextDropped(o) == \E k \in Kinds : registered[k] # << >> /\ o = Head(registered[k])

Forget(o) == registered' = [registered EXCEPT ![Offers[o].kind] = Tail(@)]

=============================================================================
