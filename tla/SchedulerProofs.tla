-------------------------- MODULE SchedulerProofs ---------------------------
(***************************************************************************)
(* Theorems about Scheduler: its types, that a request is in one list      *)
(* between two steps, that none is lost while a step edits the lists its   *)
(* loops go through or fails in the middle of one, that the queue stays in *)
(* order of arrival, that the token queue of a request keeps the contract  *)
(* of TokenStream, and that what is in flight stays within max_running and *)
(* the pool, for every set of requests, every mode and whatever the engine *)
(* returns.                                                                *)
(***************************************************************************)
EXTENDS Scheduler, CollectionLemmas

-----------------------------------------------------------------------------
(* The invariant *)

Alive(r) == status[r] \in {"waiting", "running"}
InFlight == ToSet(prefilling) \cup ToSet(running)

\* No list names a request twice, nor does a loop, but for the abort's.
NoDuplicates ==
    /\ IsInjective(waiting) /\ IsInjective(prefilling) /\ IsInjective(running)
    /\ IsInjective(keep) /\ IsInjective(retracted)
    /\ pc # "abort" => IsInjective(todo)
    /\ ToSet(waiting) \cap (InFlight \cup ToSet(todo)) = {}
    /\ pc \notin {"prefilled", "abort", "died"} => ToSet(prefilling) \cap ToSet(running) = {}

\* Which locals are in use where, and in which mode the thread can be there.
LocalsInv ==
    /\ pc \in {"loop", "prefill batch", "decode", "ended", "died"} => todo = << >>
    /\ pc # "prefilled" => retracted = << >>
    /\ pc \notin {"prefilled", "decoded"} => keep = << >>
    /\ pc \in {"baseline", "prefill one"} => mode # "paged" /\ ToSet(todo) \cap InFlight = {}
    /\ pc = "baseline" => todo # << >> /\ Tail(todo) = << >>

\* The loop of the prefill phase has dealt with a request of the snapshot when it
\* is in keep, in retracted, in running or finished.
PrefilledInv ==
    pc = "prefilled" =>
        /\ ToSet(prefilling) \subseteq
              ToSet(todo) \cup ToSet(keep) \cup ToSet(retracted) \cup ToSet(running)
        /\ ToSet(todo) \cup ToSet(keep) \cup ToSet(retracted) \subseteq
              ToSet(prefilling) \ ToSet(running)
        /\ ToSet(todo) \cap (ToSet(keep) \cup ToSet(retracted)) = {}
        /\ ToSet(keep) \cap ToSet(retracted) = {}
        /\ \A r \in ToSet(retracted) : status[r] = "waiting" /\ ~ kv[r]
        /\ \A r \in ToSet(keep) : left[r] > 0
        /\ \A r \in ToSet(todo) : /\ result[r] = "retract" => ~ kv[r]
                                  /\ result[r] = "chunk" => left[r] > 0

\* The same for the loop of the decode phase, and for the abort's.
LoopsInv ==
    /\ pc = "decoded" => /\ ToSet(running) = ToSet(todo) \cup ToSet(keep)
                         /\ ToSet(todo) \cap ToSet(keep) = {}
    /\ pc = "abort" => /\ InFlight \subseteq ToSet(todo)
                       /\ \A r \in ToSet(todo) : Alive(r) => r \in InFlight

\* What the status of a request says about the lists it is in.
StatusInv ==
    /\ \A r \in ToSet(waiting) : status[r] = "waiting" /\ ~ kv[r]
    /\ \A r \in InFlight : Alive(r)
    /\ \A r \in ToSet(todo) : IF pc = "abort" THEN status[r] # "new" ELSE Alive(r)
    /\ \A r \in Req : status[r] = "new" => ~ kv[r]
    /\ pc \notin {"prefilled", "abort", "died"} =>
          \A r \in ToSet(prefilling) : kv[r] => left[r] > 0

\* In paged mode, and elsewhere until a step fails, the lists and the loop's
\* snapshot reach every request that is not finished.
ReachInv ==
    mode = "paged" \/ failures = 0 =>
        \A r \in Req : Alive(r) => r \in ToSet(waiting) \cup InFlight \cup ToSet(todo)

\* The inductive invariant.
IInv ==
    /\ TypeOK
    /\ NoDuplicates
    /\ LocalsInv
    /\ PrefilledInv
    /\ LoopsInv
    /\ StatusInv
    /\ ReachInv
-----------------------------------------------------------------------------
(* Steps *)

\* What is in a list is a request.
LEMMA ListsOfRequests ==
    ASSUME TypeOK
    PROVE  /\ ToSet(waiting) \subseteq Req /\ ToSet(prefilling) \subseteq Req
           /\ ToSet(running) \subseteq Req /\ ToSet(todo) \subseteq Req
           /\ ToSet(keep) \subseteq Req /\ ToSet(retracted) \subseteq Req
<1>1. ASSUME NEW s \in Seq(Req) PROVE ToSet(s) \subseteq Req
  BY LenProperties DEF ToSet
<1>. QED  BY <1>1 DEF TypeOK

\* A request is added to the end of the queue.
LEMMA AddRequestStep ==
    ASSUME IInv, NEW r \in Req, AddRequest(r)
    PROVE  IInv'
<1>1. r \notin ToSet(waiting) \cup InFlight \cup ToSet(todo)
  BY DEF AddRequest, IInv, StatusInv, Alive
<1>2. /\ waiting' \in Seq(Req) /\ IsInjective(waiting')
      /\ ToSet(waiting') = ToSet(waiting) \cup {r}
      /\ arrivals' \in Seq(Req)
  BY <1>1, Appended DEF AddRequest, IInv, TypeOK, NoDuplicates
<1>3. /\ status' = [status EXCEPT ![r] = "waiting"] /\ status[r] = "new"
      /\ status \in [Req -> {"new", "waiting", "running", "finished"}]
      /\ UNCHANGED <<prefilling, running, made, kv, left, sent, pc, todo, result, keep,
                     retracted, mode, peak, failures, flag>>
  BY DEF AddRequest, local, IInv, TypeOK
<1>4. TypeOK'
  BY <1>1, <1>2, <1>3 DEF IInv, TypeOK, Places
<1>5. NoDuplicates'
  BY <1>1, <1>2, <1>3 DEF IInv, NoDuplicates, InFlight
<1>6. LocalsInv'
  BY <1>1, <1>2, <1>3 DEF IInv, LocalsInv, InFlight, NoDuplicates
<1>7. PrefilledInv'
  BY <1>1, <1>2, <1>3 DEF IInv, PrefilledInv
<1>8. LoopsInv'
  BY <1>1, <1>2, <1>3 DEF IInv, LoopsInv, InFlight, Alive
<1>9. StatusInv'
  BY <1>1, <1>2, <1>3 DEF IInv, StatusInv, InFlight, Alive
<1>10. ReachInv'
  BY <1>1, <1>2, <1>3 DEF IInv, ReachInv, InFlight, Alive, LocalsInv
<1>. QED  BY <1>4, <1>5, <1>6, <1>7, <1>8, <1>9, <1>10 DEF IInv

\* A step that only moves the thread on, past a loop that is through.
Moves ==
    /\ UNCHANGED <<mode, peak, waiting, prefilling, running, status, made, kv, left, sent,
                   todo, result, keep, retracted, failures, arrivals>>
    /\ flag' \in BOOLEAN
    /\ \/ pc' = pc
       \/ pc = "loop" /\ pc' = "ended"
       \/ pc = "prefill one" /\ todo = << >> /\ pc' = "decode"
       \/ pc = "prefill batch" /\ pc' = "decode"
       \/ pc = "abort" /\ todo = << >> /\ pc' = "loop"
       \/ pc = "decode" /\ pc' = "loop"

\* Such a step keeps the invariant.
LEMMA MovesStep ==
    ASSUME IInv, Moves
    PROVE  IInv'
<1>1. ToSet(<< >>) = {} /\ IsInjective(<< >>)
  BY ShortLists
<1>2. TypeOK'
  BY <1>1 DEF Moves, IInv, TypeOK, Places
<1>3. NoDuplicates'
  BY <1>1 DEF Moves, IInv, NoDuplicates, InFlight, LoopsInv
<1>4. LocalsInv'
  BY <1>1 DEF Moves, IInv, LocalsInv, InFlight, NoDuplicates
<1>5. PrefilledInv'
  BY <1>1 DEF Moves, IInv, PrefilledInv
<1>6. LoopsInv'
  BY <1>1 DEF Moves, IInv, LoopsInv, InFlight, LocalsInv, Alive
<1>7. StatusInv'
  BY <1>1 DEF Moves, IInv, StatusInv, InFlight, Alive, NoDuplicates, LocalsInv, LoopsInv
<1>8. ReachInv'
  BY <1>1 DEF Moves, IInv, ReachInv, InFlight, Alive, LocalsInv
<1>. QED  BY <1>2, <1>3, <1>4, <1>5, <1>6, <1>7, <1>8 DEF IInv

\* A call raises: the step is left, and the requests of S may have been touched.
LEMMA StepFailsStep ==
    ASSUME IInv, StepFails, pc \notin {"abort", "loop", "ended", "died"},
           NEW S \in SUBSET Req,
           \A r \in S : Alive(r) /\ r \notin ToSet(waiting),
           mode = "paged" => S \subseteq InFlight,
           status' \in [Req -> {"new", "waiting", "running", "finished"}],
           kv' \in [Req -> BOOLEAN], made' \in [Req -> Nat],
           \A r \in Req : (r \in S /\ status'[r] = "running") \/ status'[r] = status[r],
           \A r \in Req \ S : kv'[r] = kv[r]
    PROVE  IInv'
<1>1. /\ todo' \in Seq(Req) /\ ToSet(todo') = InFlight
      /\ retracted' = << >> /\ keep' = << >>
      /\ result' = [r \in Req |-> "none"] /\ failures' = failures + 1
      /\ failures' \in 0 .. MaxFailures /\ failures' # 0 /\ pc' = "abort"
      /\ UNCHANGED <<waiting, prefilling, running, left, sent, mode, peak, flag, arrivals>>
  BY Joined, SchedulerAssumption
     DEF StepFails, StepRaised, lists, outer, InFlight, IInv, TypeOK
<1>2. ToSet(<< >>) = {} /\ IsInjective(<< >>) /\ << >> \in Seq(Req)
  BY ShortLists
<1>3. mode = "paged" => ToSet(todo) \subseteq InFlight
  BY <1>2 DEF IInv, TypeOK, Places, LocalsInv, PrefilledInv, LoopsInv, InFlight
<1>4. ToSet(waiting) \cup InFlight \subseteq Req
  BY ListsOfRequests DEF IInv, InFlight
<1>5. TypeOK'
  BY <1>1, <1>2, <1>3, <1>4 DEF IInv, TypeOK, Places
<1>6. NoDuplicates'
  BY <1>1, <1>2, <1>3, <1>4 DEF IInv, NoDuplicates, InFlight
<1>7. LocalsInv'
  BY <1>1, <1>2, <1>3, <1>4 DEF IInv, LocalsInv, InFlight, NoDuplicates
<1>8. PrefilledInv'
  BY <1>1, <1>2, <1>3, <1>4 DEF IInv, PrefilledInv
<1>9. LoopsInv'
  BY <1>1, <1>2, <1>3, <1>4 DEF IInv, LoopsInv, InFlight
<1>10. StatusInv'
  BY <1>1, <1>2, <1>3, <1>4 DEF IInv, StatusInv, InFlight, Alive, NoDuplicates, LocalsInv
<1>11. ReachInv'
  BY <1>1, <1>2, <1>3, <1>4 DEF IInv, ReachInv, InFlight, Alive, LocalsInv
<1>. QED  BY <1>5, <1>6, <1>7, <1>8, <1>9, <1>10, <1>11 DEF IInv

\* The engine raises, and those it was called for may have a kv_cache by then.
LEMMA EngineRaises ==
    ASSUME IInv, NEW S \in SUBSET Req, EngineRaisesAfterInit(S),
           pc \notin {"abort", "loop", "ended", "died"},
           \A r \in S : Alive(r) /\ r \notin ToSet(waiting),
           mode = "paged" => S \subseteq InFlight
    PROVE  IInv'
<1>1. /\ status' = [r \in Req |-> IF r \in S THEN "running" ELSE status[r]]
      /\ status \in [Req -> {"new", "waiting", "running", "finished"}]
      /\ made' \in [Req -> Nat] /\ StepFails
  BY DEF EngineRaisesAfterInit, IInv, TypeOK
<1>2. PICK T \in SUBSET S : kv' = [r \in Req |-> kv[r] \/ r \in T]
  BY DEF EngineRaisesAfterInit
<1>3. kv' \in [Req -> BOOLEAN] /\ \A r \in Req \ S : kv'[r] = kv[r]
  <2>1. kv \in [Req -> BOOLEAN]
    BY DEF IInv, TypeOK
  <2>2. ASSUME NEW r \in Req \ S PROVE kv'[r] = kv[r]
    <3>1. r \in Req /\ r \notin T /\ kv[r] \in BOOLEAN
      BY <2>1
    <3>2. kv'[r] = (kv[r] \/ r \in T)
      BY <1>2, <3>1
    <3>. QED  BY <3>1, <3>2
  <2>. QED  BY <1>2, <2>1, <2>2
<1>4. /\ status' \in [Req -> {"new", "waiting", "running", "finished"}]
      /\ \A r \in Req : (r \in S /\ status'[r] = "running") \/ status'[r] = status[r]
  BY <1>1
<1>. QED  BY <1>1, <1>3, <1>4, StepFailsStep

\* An engine call, or the decoding of a token, raises.
LEMMA RaisesStep ==
    ASSUME IInv, \/ BaselineRaises \/ PrefillOneRaises \/ PrefillBatchRaises \/ DecodeRaises
                 \/ StreamRaises
    PROVE  IInv'
<1>1. ASSUME todo # << >> PROVE Head(todo) \in Req /\ Head(todo) \in ToSet(todo)
  <2>1. todo \in Seq(Req)
    BY DEF IInv, TypeOK
  <2>. QED  BY <1>1, <2>1, HeadAndTail
<1>2. ToSet(prefilling) \subseteq Req
  BY ListsOfRequests DEF IInv
<1>3. CASE BaselineRaises \/ PrefillOneRaises
  <2>. DEFINE S == {Head(todo)}
  <2>1. /\ pc \in {"baseline", "prefill one"} /\ todo # << >> /\ EngineRaisesAfterInit(S)
    BY <1>3 DEF BaselineRaises, PrefillOneRaises, IInv, LocalsInv
  <2>2. /\ S \in SUBSET Req /\ mode # "paged"
        /\ \A r \in S : Alive(r) /\ r \notin ToSet(waiting)
    BY <1>1, <2>1 DEF IInv, LocalsInv, StatusInv, NoDuplicates
  <2>. QED  BY <2>1, <2>2, EngineRaises
<1>4. CASE PrefillBatchRaises
  <2>1. \A r \in ToSet(prefilling) : Alive(r) /\ r \notin ToSet(waiting)
    BY DEF IInv, StatusInv, NoDuplicates, InFlight
  <2>. QED  BY <1>2, <1>4, <2>1, EngineRaises DEF PrefillBatchRaises, InFlight
<1>5. CASE DecodeRaises
  <2>1. /\ status' = status /\ kv' = kv /\ made' = made /\ pc = "decode" /\ StepFails
        /\ status \in [Req -> {"new", "waiting", "running", "finished"}]
        /\ kv \in [Req -> BOOLEAN] /\ made \in [Req -> Nat]
    BY <1>5 DEF DecodeRaises, IInv, TypeOK
  <2>. DEFINE S == {}
  <2>2. S \in SUBSET Req /\ \A r \in S : Alive(r) /\ r \notin ToSet(waiting)
    OBVIOUS
  <2>. QED  BY <2>1, <2>2, StepFailsStep
<1>6. CASE StreamRaises
  <2>. DEFINE h == Head(todo)
              S == {h}
  <2>1. /\ pc \in {"baseline", "prefill one", "prefilled", "decoded"} /\ StepFails
        /\ h \in Req /\ h \in ToSet(todo)
        /\ made' = [made EXCEPT ![h] = @ + 1]
        /\ status' = [status EXCEPT ![h] = "running"]
        /\ kv' = [kv EXCEPT ![h] = TRUE]
        /\ status \in [Req -> {"new", "waiting", "running", "finished"}]
        /\ kv \in [Req -> BOOLEAN] /\ made \in [Req -> Nat]
    BY <1>1, <1>6 DEF StreamRaises, IInv, TypeOK
  <2>. HIDE DEF h
  <2>2. /\ \A r \in S : Alive(r) /\ r \notin ToSet(waiting)
        /\ mode = "paged" => S \subseteq InFlight
    BY <2>1 DEF IInv, StatusInv, NoDuplicates, LocalsInv, PrefilledInv, LoopsInv, InFlight
  <2>3. /\ status' \in [Req -> {"new", "waiting", "running", "finished"}]
        /\ kv' \in [Req -> BOOLEAN] /\ made' \in [Req -> Nat]
        /\ \A r \in Req : (r \in S /\ status'[r] = "running") \/ status'[r] = status[r]
        /\ \A r \in Req \ S : kv'[r] = kv[r]
    <3>1. status' \in [Req -> {"new", "waiting", "running", "finished"}] /\ made' \in [Req -> Nat]
      <4>1. made \in [Req -> Nat] /\ h \in Req /\ made' = [made EXCEPT ![h] = @ + 1]
        BY <2>1, Zenon
      <4>2. made' \in [Req -> Nat]
        BY <4>1
      <4>. QED  BY <2>1, <4>2
    <3>2. kv' \in [Req -> BOOLEAN] /\ \A r \in Req \ S : kv'[r] = kv[r]
      BY <2>1
    <3>3. \A r \in Req : (r \in S /\ status'[r] = "running") \/ status'[r] = status[r]
      BY <2>1
    <3>. QED  BY <3>1, <3>2, <3>3
  <2>4. S \in SUBSET Req /\ pc \notin {"abort", "loop", "ended", "died"} /\ StepFails
    BY <2>1
  <2>. HIDE DEF S
  <2>. QED  BY <2>2, <2>3, <2>4, StepFailsStep
<1>. QED  BY <1>3, <1>4, <1>5, <1>6

\* A finished request leaves both lists.
LEMMA LeavesLists ==
    ASSUME IInv, NEW r \in Req,
           running' = RemoveFirst(running, r), prefilling' = RemoveFirst(prefilling, r)
    PROVE  /\ running' \in Seq(Req) /\ IsInjective(running')
           /\ ToSet(running') = ToSet(running) \ {r}
           /\ prefilling' \in Seq(Req) /\ IsInjective(prefilling')
           /\ ToSet(prefilling') = ToSet(prefilling) \ {r}
<1>1. /\ running \in Seq(Req) /\ IsInjective(running)
      /\ prefilling \in Seq(Req) /\ IsInjective(prefilling)
  BY DEF IInv, TypeOK, NoDuplicates
<1>2. /\ running' \in Seq(Req) /\ IsInjective(running')
      /\ ToSet(running') = ToSet(running) \ {r}
  BY <1>1, Removed
<1>3. /\ prefilling' \in Seq(Req) /\ IsInjective(prefilling')
      /\ ToSet(prefilling') = ToSet(prefilling) \ {r}
  BY <1>1, Removed
<1>. QED  BY <1>2, <1>3

\* ... with its marker on the queue.
LEMMA FinishRequestFacts ==
    ASSUME IInv, NEW r \in Req, NEW out \in Seq({"token", "finished"}),
           FinishRequest(r, running, prefilling, out)
    PROVE  /\ status' = [status EXCEPT ![r] = "finished"]
           /\ kv' = [kv EXCEPT ![r] = FALSE]
           /\ sent' \in [Req -> Seq({"token", "finished"})]
           /\ running' \in Seq(Req) /\ IsInjective(running')
           /\ ToSet(running') = ToSet(running) \ {r}
           /\ prefilling' \in Seq(Req) /\ IsInjective(prefilling')
           /\ ToSet(prefilling') = ToSet(prefilling) \ {r}
<1>1. out \o <<"finished">> \in Seq({"token", "finished"})
  OBVIOUS
<1>2. sent' \in [Req -> Seq({"token", "finished"})]
  BY <1>1 DEF FinishRequest, IInv, TypeOK
<1>. QED  BY <1>2, LeavesLists DEF FinishRequest

\* What taking a token does, for a request that is finished by it or goes on.
Finishes(r) ==
    /\ status' = [status EXCEPT ![r] = "finished"]
    /\ kv' = [kv EXCEPT ![r] = FALSE]
    /\ running' \in Seq(Req) /\ IsInjective(running')
    /\ ToSet(running') = ToSet(running) \ {r}
    /\ prefilling' \in Seq(Req) /\ IsInjective(prefilling')
    /\ ToSet(prefilling') = ToSet(prefilling) \ {r}
    /\ keep' = keep

\* Taking a token finishes the request or goes on with it.
LEMMA TakeTokenFacts ==
    ASSUME IInv, NEW r \in Req, NEW go, TakeToken(r, go)
    PROVE  /\ made' \in [Req -> Nat] /\ sent' \in [Req -> Seq({"token", "finished"})]
           /\ Finishes(r) \/ (go /\ prefilling' = prefilling)
<1>1. /\ made' = [made EXCEPT ![r] = @ + 1]
      /\ made \in [Req -> Nat] /\ sent \in [Req -> Seq({"token", "finished"})]
  BY DEF TakeToken, IInv, TypeOK
<1>2. Append(sent[r], "token") \in Seq({"token", "finished"})
  BY <1>1
<1>3. CASE /\ FinishRequest(r, running, prefilling, Append(sent[r], "token"))
           /\ UNCHANGED keep
  <2>. DEFINE out == Append(sent[r], "token")
  <2>1. FinishRequest(r, running, prefilling, out) /\ keep' = keep
    BY <1>3
  <2>. HIDE DEF out
  <2>2. /\ status' = [status EXCEPT ![r] = "finished"]
        /\ kv' = [kv EXCEPT ![r] = FALSE]
        /\ sent' \in [Req -> Seq({"token", "finished"})]
        /\ running' \in Seq(Req) /\ IsInjective(running')
        /\ ToSet(running') = ToSet(running) \ {r}
        /\ prefilling' \in Seq(Req) /\ IsInjective(prefilling')
        /\ ToSet(prefilling') = ToSet(prefilling) \ {r}
    BY <1>2, <2>1, FinishRequestFacts DEF out
  <2>3. Finishes(r) /\ sent' \in [Req -> Seq({"token", "finished"})]
    BY <2>1, <2>2 DEF Finishes
  <2>4. made' \in [Req -> Nat]
    BY <1>1
  <2>. QED  BY <2>3, <2>4
<1>4. CASE /\ sent' = [sent EXCEPT ![r] = Append(@, "token")]
           /\ go
           /\ UNCHANGED prefilling
  BY <1>1, <1>2, <1>4
<1>. QED  BY <1>1, <1>3, <1>4 DEF TakeToken

\* One turn of _abort_inflight_requests.
LEMMA AbortOneStep ==
    ASSUME IInv, AbortOne
    PROVE  IInv'
<1>1. todo \in Seq(Req) /\ todo # << >>
  BY DEF AbortOne, IInv, TypeOK, LocalsInv
<1>. DEFINE h == Head(todo)
<1>2. /\ h \in Req /\ Tail(todo) \in Seq(Req)
      /\ ToSet(todo) = {h} \cup ToSet(Tail(todo))
      /\ IsInjective(todo) => IsInjective(Tail(todo)) /\ h \notin ToSet(Tail(todo))
  BY <1>1, HeadAndTail
<1>. HIDE DEF h
<1>3. /\ status' = [status EXCEPT ![h] = "finished"]
      /\ kv' = [kv EXCEPT ![h] = FALSE]
      /\ sent' \in [Req -> Seq({"token", "finished"})]
      /\ running' \in Seq(Req) /\ IsInjective(running')
      /\ ToSet(running') = ToSet(running) \ {h}
      /\ prefilling' \in Seq(Req) /\ IsInjective(prefilling')
      /\ ToSet(prefilling') = ToSet(prefilling) \ {h}
  <2>1. FinishRequest(h, running, prefilling, sent[h]) /\ sent[h] \in Seq({"token", "finished"})
    BY <1>2 DEF AbortOne, h, IInv, TypeOK
  <2>. QED  BY <1>2, <2>1, FinishRequestFacts
<1>4. /\ pc = "abort" /\ todo' = Tail(todo)
      /\ status \in [Req -> {"new", "waiting", "running", "finished"}]
      /\ kv \in [Req -> BOOLEAN]
      /\ UNCHANGED <<waiting, made, left, pc, result, keep, retracted, mode, peak, failures,
                     flag, arrivals>>
  BY DEF AbortOne, h, outside, outer, IInv, TypeOK
<1>5. ToSet(waiting) \cup InFlight \cup ToSet(todo) \cup ToSet(keep) \subseteq Req
  BY ListsOfRequests DEF IInv, InFlight
<1>6. TypeOK'
  BY <1>2, <1>3, <1>4, <1>5 DEF IInv, TypeOK, Places
<1>7. NoDuplicates'
  BY <1>2, <1>3, <1>4, <1>5 DEF IInv, NoDuplicates, InFlight
<1>8. LocalsInv'
  BY <1>2, <1>3, <1>4, <1>5 DEF IInv, LocalsInv, InFlight, NoDuplicates
<1>9. PrefilledInv'
  BY <1>2, <1>3, <1>4, <1>5 DEF IInv, PrefilledInv
<1>10. LoopsInv'
  BY <1>2, <1>3, <1>4, <1>5 DEF IInv, LoopsInv, InFlight, Alive
<1>11. StatusInv'
  BY <1>2, <1>3, <1>4, <1>5 DEF IInv, StatusInv, InFlight, Alive, NoDuplicates, LocalsInv
<1>12. ReachInv'
  BY <1>2, <1>3, <1>4, <1>5 DEF IInv, ReachInv, InFlight, Alive, LocalsInv
<1>. QED  BY <1>6, <1>7, <1>8, <1>9, <1>10, <1>11, <1>12 DEF IInv

\* A commit that raises in the abort is the end of the thread: the others in flight
\* stay in the lists.
LEMMA AbortRaisesStep ==
    ASSUME IInv, AbortRaises
    PROVE  IInv'
<1>. DEFINE h == Head(todo)
<1>1. h \in Req /\ h \in ToSet(todo)
  <2>1. todo # << >> /\ todo \in Seq(Req)
    BY DEF AbortRaises, IInv, TypeOK
  <2>. QED  BY <2>1, HeadAndTail
<1>2. /\ running' = RemoveFirst(running, h) /\ prefilling' = RemoveFirst(prefilling, h)
      /\ status' = [status EXCEPT ![h] = "finished"]
      /\ status \in [Req -> {"new", "waiting", "running", "finished"}]
      /\ pc = "abort" /\ pc' = "died" /\ todo' = << >>
      /\ UNCHANGED <<waiting, made, kv, left, sent, result, keep, retracted, mode, peak,
                     failures, flag, arrivals>>
  BY DEF AbortRaises, outside, outer, IInv, TypeOK
<1>. HIDE DEF h
<1>3. /\ running' \in Seq(Req) /\ IsInjective(running')
      /\ ToSet(running') = ToSet(running) \ {h}
      /\ prefilling' \in Seq(Req) /\ IsInjective(prefilling')
      /\ ToSet(prefilling') = ToSet(prefilling) \ {h}
  BY <1>1, <1>2, LeavesLists
<1>4. ToSet(<< >>) = {} /\ IsInjective(<< >>) /\ << >> \in Seq(Req)
  BY ShortLists
<1>5. ToSet(waiting) \cup InFlight \cup ToSet(todo) \subseteq Req
  BY ListsOfRequests DEF IInv, InFlight
<1>6. TypeOK'
  BY <1>1, <1>2, <1>3, <1>4 DEF IInv, TypeOK, Places
<1>7. NoDuplicates'
  BY <1>1, <1>2, <1>3, <1>4 DEF IInv, NoDuplicates, InFlight
<1>8. LocalsInv' /\ PrefilledInv' /\ LoopsInv'
  BY <1>2, <1>4 DEF IInv, LocalsInv, PrefilledInv, LoopsInv
<1>9. StatusInv'
  BY <1>1, <1>2, <1>3, <1>4, <1>5 DEF IInv, StatusInv, InFlight, Alive, NoDuplicates
<1>10. ReachInv'
  BY <1>1, <1>2, <1>3, <1>4, <1>5 DEF IInv, ReachInv, LoopsInv, InFlight, Alive
<1>. QED  BY <1>6, <1>7, <1>8, <1>9, <1>10 DEF IInv

\* A commit that raises in the step leaves the others to the abort.
LEMMA FirstCommitRaisesStep ==
    ASSUME IInv, FirstCommitRaises
    PROVE  IInv'
<1>. DEFINE h == Head(todo)
<1>1. h \in Req /\ h \in ToSet(todo)
  <2>1. todo # << >> /\ todo \in Seq(Req)
    BY DEF FirstCommitRaises, IInv, TypeOK
  <2>. QED  BY <2>1, HeadAndTail
<1>2. /\ running' = RemoveFirst(running, h) /\ prefilling' = RemoveFirst(prefilling, h)
      /\ status' = [status EXCEPT ![h] = "finished"]
      /\ status \in [Req -> {"new", "waiting", "running", "finished"}]
      /\ pc = "prefilled" /\ pc' = "abort" /\ todo' = prefilling' \o running'
      /\ keep' = << >> /\ retracted' = << >>
      /\ result' = [r \in Req |-> "none"]
      /\ failures' = failures + 1 /\ failures < MaxFailures
      /\ made' = [made EXCEPT ![h] = @ + 1]
      /\ sent' = [sent EXCEPT ![h] = Append(@, "token")]
      /\ UNCHANGED <<waiting, kv, left, mode, peak, flag, arrivals>>
  BY DEF FirstCommitRaises, StepRaised, outer, IInv, TypeOK
<1>. HIDE DEF h
<1>3. /\ running' \in Seq(Req) /\ IsInjective(running')
      /\ ToSet(running') = ToSet(running) \ {h}
      /\ prefilling' \in Seq(Req) /\ IsInjective(prefilling')
      /\ ToSet(prefilling') = ToSet(prefilling) \ {h}
  BY <1>1, <1>2, LeavesLists
<1>4. /\ ToSet(<< >>) = {} /\ IsInjective(<< >>) /\ << >> \in Seq(Req)
      /\ todo' \in Seq(Req) /\ ToSet(todo') = ToSet(prefilling') \cup ToSet(running')
  <2>. DEFINE pre == prefilling'
              run == running'
  <2>1. pre \in Seq(Req) /\ run \in Seq(Req) /\ todo' = pre \o run
    BY <1>2, <1>3
  <2>. HIDE DEF pre, run
  <2>2. pre \o run \in Seq(Req) /\ ToSet(pre \o run) = ToSet(pre) \cup ToSet(run)
    BY <2>1, Joined
  <2>. QED  BY <2>1, <2>2, ShortLists DEF pre, run
<1>5. ToSet(waiting) \cup InFlight \cup ToSet(todo) \subseteq Req
  BY ListsOfRequests DEF IInv, InFlight
<1>6. TypeOK'
  <2>1. made' \in [Req -> Nat] /\ failures' \in 0 .. MaxFailures
    <3>1. made \in [Req -> Nat] /\ failures \in 0 .. MaxFailures /\ MaxFailures \in Nat
      BY SchedulerAssumption DEF IInv, TypeOK
    <3>2. /\ made' = [made EXCEPT ![h] = @ + 1]
          /\ failures' = failures + 1 /\ failures < MaxFailures
      BY <1>2
    <3>3. made' \in [Req -> Nat]
      BY <1>1, <3>1, <3>2
    <3>4. failures' \in 0 .. MaxFailures
      BY <3>1, <3>2
    <3>. QED  BY <3>3, <3>4
  <2>2. sent' \in [Req -> Seq({"token", "finished"})]
    <3>1. sent \in [Req -> Seq({"token", "finished"})]
      BY DEF IInv, TypeOK
    <3>2. Append(sent[h], "token") \in Seq({"token", "finished"})
      BY <1>1, <3>1
    <3>. QED  BY <1>1, <1>2, <3>1, <3>2
  <2>. QED  BY <1>1, <1>2, <1>3, <1>4, <2>1, <2>2 DEF IInv, TypeOK, Places
<1>7. NoDuplicates'
  BY <1>1, <1>2, <1>3, <1>4 DEF IInv, NoDuplicates, InFlight
<1>8. LocalsInv' /\ PrefilledInv' /\ LoopsInv'
  BY <1>2, <1>4 DEF IInv, LocalsInv, PrefilledInv, LoopsInv, InFlight
<1>9. StatusInv'
  BY <1>1, <1>2, <1>3, <1>4, <1>5 DEF IInv, StatusInv, InFlight, Alive, NoDuplicates
<1>10. ReachInv'
  <2>1. mode = "paged"
    BY DEF FirstCommitRaises, CommitMayRaise
  <2>2. ASSUME NEW r \in Req, Alive(r)'
        PROVE  r \in ToSet(waiting) \cup InFlight /\ r # h
    BY <1>1, <1>2, <2>1, <2>2 DEF IInv, ReachInv, PrefilledInv, InFlight, Alive
  <2>3. ASSUME NEW r \in ToSet(waiting) \cup InFlight, r # h
        PROVE  r \in ToSet(waiting') \cup InFlight'
    BY <1>2, <1>3, <2>3 DEF InFlight
  <2>. QED  BY <2>2, <2>3 DEF ReachInv
<1>. QED  BY <1>6, <1>7, <1>8, <1>9, <1>10 DEF IInv

\* The oldest request is taken off the queue.
LEMMA BaselineStartStep ==
    ASSUME IInv, BaselineStart
    PROVE  IInv'
<1>1. waiting \in Seq(Req) /\ waiting # << >>
  BY DEF BaselineStart, IInv, TypeOK
<1>. DEFINE h == Head(waiting)
<1>2. /\ h \in Req /\ Tail(waiting) \in Seq(Req)
      /\ ToSet(waiting) = {h} \cup ToSet(Tail(waiting))
      /\ IsInjective(waiting) => IsInjective(Tail(waiting)) /\ h \notin ToSet(Tail(waiting))
  BY <1>1, HeadAndTail
<1>3. <<h>> \in Seq(Req) /\ ToSet(<<h>>) = {h} /\ IsInjective(<<h>>)
  BY <1>2, ShortLists
<1>4. /\ todo' = <<h>> /\ todo' # << >> /\ Tail(todo') = << >>
      /\ waiting' = Tail(waiting) /\ pc = "loop" /\ mode = "baseline" /\ pc' = "baseline"
      /\ status' = [status EXCEPT ![h] = "running"]
      /\ status \in [Req -> {"new", "waiting", "running", "finished"}]
      /\ UNCHANGED <<prefilling, running, made, kv, left, sent, result, keep, retracted,
                     mode, peak, failures, flag, arrivals>>
  BY <1>2 DEF BaselineStart, AtLoop, outside, outer, IInv, TypeOK
<1>. HIDE DEF h
<1>5. ToSet(<< >>) = {} /\ IsInjective(<< >>) /\ << >> \in Seq(Req)
  BY ShortLists
<1>6. ToSet(waiting) \cup InFlight \cup ToSet(todo) \cup ToSet(keep) \subseteq Req
  BY ListsOfRequests DEF IInv, InFlight
<1>7. /\ todo' \in Seq(Req) /\ ToSet(todo') = {h} /\ IsInjective(todo')
  BY <1>3, <1>4
<1>8. TypeOK'
  BY <1>2, <1>4, <1>5, <1>6, <1>7 DEF IInv, TypeOK, Places
<1>9. NoDuplicates'
  BY <1>2, <1>4, <1>5, <1>6, <1>7 DEF IInv, NoDuplicates, InFlight
<1>10. LocalsInv'
  BY <1>2, <1>4, <1>5, <1>6, <1>7 DEF IInv, LocalsInv, InFlight, NoDuplicates
<1>11. PrefilledInv'
  BY <1>2, <1>4, <1>5, <1>6, <1>7 DEF IInv, PrefilledInv
<1>12. LoopsInv'
  BY <1>2, <1>4, <1>5, <1>6, <1>7 DEF IInv, LoopsInv, InFlight
<1>13. StatusInv'
  BY <1>2, <1>4, <1>5, <1>6, <1>7 DEF IInv, StatusInv, InFlight, Alive, NoDuplicates,
     LocalsInv
<1>14. ReachInv'
  BY <1>2, <1>4, <1>5, <1>6, <1>7 DEF IInv, ReachInv, InFlight, Alive, LocalsInv
<1>. QED  BY <1>8, <1>9, <1>10, <1>11, <1>12, <1>13, <1>14 DEF IInv

\* The token of a baseline request.
LEMMA BaselineTokenStep ==
    ASSUME IInv, BaselineToken
    PROVE  IInv'
<1>1. todo \in Seq(Req) /\ todo # << >>
  BY DEF BaselineToken, IInv, TypeOK, LocalsInv
<1>. DEFINE h == Head(todo)
<1>2. /\ h \in Req /\ Tail(todo) \in Seq(Req)
      /\ ToSet(todo) = {h} \cup ToSet(Tail(todo))
      /\ IsInjective(todo) => IsInjective(Tail(todo)) /\ h \notin ToSet(Tail(todo))
  BY <1>1, HeadAndTail
<1>. HIDE DEF h
<1>3. /\ pc = "baseline" /\ mode # "paged" /\ Tail(todo) = << >>
      /\ status \in [Req -> {"new", "waiting", "running", "finished"}]
      /\ kv \in [Req -> BOOLEAN]
      /\ IF status'[h] = "finished" THEN pc' = "loop" /\ todo' = << >>
                                    ELSE UNCHANGED <<pc, todo>>
      /\ UNCHANGED <<waiting, left, result, retracted, mode, peak, failures, flag, arrivals>>
  BY DEF BaselineToken, h, outside, outer, IInv, TypeOK, LocalsInv
<1>4. ToSet(<< >>) = {} /\ IsInjective(<< >>) /\ << >> \in Seq(Req)
  BY ShortLists
<1>5. ToSet(waiting) \cup InFlight \cup ToSet(todo) \cup ToSet(keep) \subseteq Req
  BY ListsOfRequests DEF IInv, InFlight
<1>6. /\ made' \in [Req -> Nat] /\ sent' \in [Req -> Seq({"token", "finished"})]
      /\ Finishes(h) \/ /\ UNCHANGED <<running, status, keep, prefilling>>
                        /\ kv' = [kv EXCEPT ![h] = TRUE]
  BY <1>2, TakeTokenFacts DEF BaselineToken, h
<1>7. CASE Finishes(h)
  <2>1. status'[h] = "finished"
    BY <1>2, <1>3, <1>7 DEF Finishes
  <2>2. TypeOK'
    BY <1>2, <1>3, <1>4, <1>5, <1>6, <1>7, <2>1 DEF Finishes, IInv, TypeOK, Places
  <2>3. NoDuplicates'
    BY <1>2, <1>3, <1>4, <1>5, <1>6, <1>7, <2>1 DEF Finishes, IInv, NoDuplicates, InFlight
  <2>4. LocalsInv'
    BY <1>2, <1>3, <1>4, <1>5, <1>6, <1>7, <2>1 DEF Finishes, IInv, LocalsInv, InFlight,
       NoDuplicates
  <2>5. PrefilledInv'
    BY <1>2, <1>3, <1>4, <1>5, <1>6, <1>7, <2>1 DEF Finishes, IInv, PrefilledInv
  <2>6. LoopsInv'
    BY <1>2, <1>3, <1>4, <1>5, <1>6, <1>7, <2>1 DEF Finishes, IInv, LoopsInv, InFlight
  <2>7. StatusInv'
    BY <1>2, <1>3, <1>4, <1>5, <1>6, <1>7, <2>1 DEF Finishes, IInv, StatusInv, InFlight,
       Alive, NoDuplicates, LocalsInv
  <2>8. ReachInv'
    BY <1>2, <1>3, <1>4, <1>5, <1>6, <1>7, <2>1 DEF Finishes, IInv, ReachInv, InFlight, Alive,
       LocalsInv
  <2>. QED  BY <2>2, <2>3, <2>4, <2>5, <2>6, <2>7, <2>8 DEF IInv
<1>8. CASE UNCHANGED <<running, status, keep, prefilling>> /\ kv' = [kv EXCEPT ![h] = TRUE]
  <2>1. status'[h] # "finished"
    BY <1>2, <1>3, <1>8 DEF IInv, StatusInv, Alive
  <2>2. TypeOK'
    BY <1>2, <1>3, <1>4, <1>5, <1>6, <1>8, <2>1 DEF IInv, TypeOK, Places
  <2>3. NoDuplicates'
    BY <1>2, <1>3, <1>4, <1>5, <1>6, <1>8, <2>1 DEF IInv, NoDuplicates, InFlight
  <2>4. LocalsInv'
    BY <1>2, <1>3, <1>4, <1>5, <1>6, <1>8, <2>1 DEF IInv, LocalsInv, InFlight, NoDuplicates
  <2>5. PrefilledInv'
    BY <1>2, <1>3, <1>4, <1>5, <1>6, <1>8, <2>1 DEF IInv, PrefilledInv
  <2>6. LoopsInv'
    BY <1>2, <1>3, <1>4, <1>5, <1>6, <1>8, <2>1 DEF IInv, LoopsInv, InFlight
  <2>7. StatusInv'
    BY <1>2, <1>3, <1>4, <1>5, <1>6, <1>8, <2>1 DEF IInv, StatusInv, InFlight, Alive,
       NoDuplicates, LocalsInv
  <2>8. ReachInv'
    BY <1>2, <1>3, <1>4, <1>5, <1>6, <1>8, <2>1 DEF IInv, ReachInv, InFlight, Alive, LocalsInv
  <2>. QED  BY <2>2, <2>3, <2>4, <2>5, <2>6, <2>7, <2>8 DEF IInv
<1>. QED  BY <1>6, <1>7, <1>8

\* One turn of the loop that prefills the batch one by one.
LEMMA PrefillOneStep ==
    ASSUME IInv, PrefillOne
    PROVE  IInv'
<1>1. todo \in Seq(Req) /\ todo # << >>
  BY DEF PrefillOne, IInv, TypeOK, LocalsInv
<1>. DEFINE h == Head(todo)
<1>2. /\ h \in Req /\ Tail(todo) \in Seq(Req)
      /\ ToSet(todo) = {h} \cup ToSet(Tail(todo))
      /\ IsInjective(todo) => IsInjective(Tail(todo)) /\ h \notin ToSet(Tail(todo))
  BY <1>1, HeadAndTail
<1>. HIDE DEF h
<1>3. /\ pc = "prefill one" /\ mode # "paged" /\ todo' = Tail(todo)
      /\ status \in [Req -> {"new", "waiting", "running", "finished"}]
      /\ kv \in [Req -> BOOLEAN]
      /\ h \notin ToSet(prefilling) \cup ToSet(running) \cup ToSet(waiting)
      /\ UNCHANGED <<waiting, left, pc, result, retracted, mode, peak, failures, flag,
                     arrivals>>
  BY <1>2 DEF PrefillOne, h, outside, outer, IInv, TypeOK, LocalsInv, NoDuplicates, InFlight
<1>4. /\ todo' \in Seq(Req) /\ IsInjective(todo')
      /\ ToSet(todo) = {h} \cup ToSet(todo') /\ h \notin ToSet(todo') /\ h \in Req
  BY <1>2, <1>3 DEF IInv, NoDuplicates
<1>5. ToSet(<< >>) = {} /\ IsInjective(<< >>) /\ << >> \in Seq(Req)
  BY ShortLists
<1>6. ToSet(waiting) \cup InFlight \cup ToSet(todo) \cup ToSet(keep) \subseteq Req
  BY ListsOfRequests DEF IInv, InFlight
<1>7. made' \in [Req -> Nat] /\ sent' \in [Req -> Seq({"token", "finished"})]
  BY <1>2, TakeTokenFacts DEF PrefillOne, h
<1>8. CASE Finishes(h)
  <2>1. TypeOK'
    BY <1>3, <1>4, <1>5, <1>6, <1>7, <1>8 DEF Finishes, IInv, TypeOK, Places
  <2>2. NoDuplicates'
    BY <1>3, <1>4, <1>5, <1>6, <1>7, <1>8 DEF Finishes, IInv, NoDuplicates, InFlight
  <2>3. LocalsInv'
    BY <1>3, <1>4, <1>5, <1>6, <1>7, <1>8 DEF Finishes, IInv, LocalsInv, InFlight,
       NoDuplicates
  <2>4. PrefilledInv'
    BY <1>3, <1>4, <1>5, <1>6, <1>7, <1>8 DEF Finishes, IInv, PrefilledInv
  <2>5. LoopsInv'
    BY <1>3, <1>4, <1>5, <1>6, <1>7, <1>8 DEF Finishes, IInv, LoopsInv, InFlight
  <2>6. StatusInv'
    BY <1>3, <1>4, <1>5, <1>6, <1>7, <1>8 DEF Finishes, IInv, StatusInv, InFlight, Alive,
       NoDuplicates, LocalsInv
  <2>7. ReachInv'
    BY <1>3, <1>4, <1>5, <1>6, <1>7, <1>8 DEF Finishes, IInv, ReachInv, InFlight, Alive,
       LocalsInv
  <2>. QED  BY <2>1, <2>2, <2>3, <2>4, <2>5, <2>6, <2>7 DEF IInv
<1>9. CASE /\ running' = Append(running, h)
           /\ status' = [status EXCEPT ![h] = "running"]
           /\ kv' = [kv EXCEPT ![h] = TRUE]
           /\ UNCHANGED <<keep, prefilling>>
  <2>1. /\ running' \in Seq(Req) /\ ToSet(running') = ToSet(running) \cup {h}
        /\ IsInjective(running')
        /\ status' = [status EXCEPT ![h] = "running"]
        /\ kv' = [kv EXCEPT ![h] = TRUE]
        /\ keep' = keep /\ prefilling' = prefilling
    <3>1. running \in Seq(Req) /\ IsInjective(running) /\ h \in Req /\ h \notin ToSet(running)
      BY <1>2, <1>3 DEF IInv, TypeOK, NoDuplicates
    <3>2. /\ Append(running, h) \in Seq(Req) /\ IsInjective(Append(running, h))
          /\ ToSet(Append(running, h)) = ToSet(running) \cup {h}
      BY <3>1, Appended
    <3>. QED  BY <1>9, <3>2
  <2>2. TypeOK'
    BY <1>3, <1>4, <1>5, <1>6, <1>7, <2>1 DEF IInv, TypeOK, Places
  <2>. DEFINE moved == InFlight \cup {h}
  <2>3. /\ InFlight' = moved /\ ToSet(todo') \cap moved = {}
        /\ ToSet(waiting') \cap (InFlight' \cup ToSet(todo')) = {}
        /\ ToSet(prefilling') \cap ToSet(running') = {}
    <3>1. InFlight' = moved
      BY <2>1 DEF InFlight
    <3>2. /\ ToSet(waiting) \cap (InFlight \cup ToSet(todo)) = {}
          /\ ToSet(prefilling) \cap ToSet(running) = {}
      BY <1>3 DEF IInv, NoDuplicates
    <3>3. ToSet(todo) \cap InFlight = {}
      BY <1>3 DEF IInv, LocalsInv
    <3>4. ToSet(todo') \cap moved = {}
      BY <1>4, <3>3
    <3>5. ToSet(waiting') \cap (moved \cup ToSet(todo')) = {}
      BY <1>3, <1>4, <3>2
    <3>6. ToSet(prefilling') \cap ToSet(running') = {}
      BY <1>3, <2>1, <3>2
    <3>. QED  BY <3>1, <3>4, <3>5, <3>6
  <2>4. NoDuplicates'
    <3>1. /\ IsInjective(waiting') /\ IsInjective(prefilling') /\ IsInjective(running')
          /\ IsInjective(keep') /\ IsInjective(retracted') /\ IsInjective(todo')
      BY <1>3, <1>4, <2>1 DEF IInv, NoDuplicates
    <3>. QED  BY <2>3, <3>1 DEF NoDuplicates
  <2>5. LocalsInv'
    <3>1. retracted = << >> /\ keep = << >>
      BY <1>3 DEF IInv, LocalsInv
    <3>2. ToSet(todo') \cap InFlight' = {}
      BY <2>3
    <3>. QED  BY <1>3, <2>1, <3>1, <3>2 DEF LocalsInv
  <2>6. PrefilledInv'
    BY <1>3, <1>4, <1>5, <1>6, <1>7, <2>1 DEF IInv, PrefilledInv
  <2>7. LoopsInv'
    BY <1>3, <1>4, <1>5, <1>6, <1>7, <2>1 DEF IInv, LoopsInv, InFlight
  <2>8. StatusInv'
    BY <1>3, <1>4, <1>5, <1>6, <1>7, <2>1 DEF IInv, StatusInv, InFlight, Alive, NoDuplicates,
       LocalsInv
  <2>9. ReachInv'
    BY <1>3, <1>4, <1>5, <1>6, <1>7, <2>1 DEF IInv, ReachInv, InFlight, Alive, LocalsInv
  <2>. QED  BY <2>2, <2>4, <2>5, <2>6, <2>7, <2>8, <2>9 DEF IInv
<1>. QED  BY <1>2, <1>8, <1>9, TakeTokenFacts DEF PrefillOne, h

\* One turn of the loop over the results of a decode.
LEMMA DecodedOneStep ==
    ASSUME IInv, DecodedOne
    PROVE  IInv'
<1>1. todo \in Seq(Req) /\ todo # << >>
  BY DEF DecodedOne, IInv, TypeOK, LocalsInv
<1>. DEFINE h == Head(todo)
<1>2. /\ h \in Req /\ Tail(todo) \in Seq(Req)
      /\ ToSet(todo) = {h} \cup ToSet(Tail(todo))
      /\ IsInjective(todo) => IsInjective(Tail(todo)) /\ h \notin ToSet(Tail(todo))
  BY <1>1, HeadAndTail
<1>. HIDE DEF h
<1>3. /\ pc = "decoded" /\ todo' = Tail(todo)
      /\ status \in [Req -> {"new", "waiting", "running", "finished"}]
      /\ kv \in [Req -> BOOLEAN]
      /\ h \in ToSet(running) /\ h \notin ToSet(prefilling) \cup ToSet(keep)
      /\ h \notin ToSet(waiting)
      /\ UNCHANGED <<waiting, left, pc, result, retracted, mode, peak, failures, flag,
                     arrivals>>
  BY <1>2 DEF DecodedOne, h, outside, outer, IInv, TypeOK, LoopsInv, NoDuplicates, InFlight
<1>4. /\ todo' \in Seq(Req) /\ IsInjective(todo')
      /\ ToSet(todo) = {h} \cup ToSet(todo') /\ h \notin ToSet(todo') /\ h \in Req
  BY <1>2, <1>3 DEF IInv, NoDuplicates
<1>5. ToSet(<< >>) = {} /\ IsInjective(<< >>) /\ << >> \in Seq(Req)
  BY ShortLists
<1>6. ToSet(waiting) \cup InFlight \cup ToSet(todo) \cup ToSet(keep) \subseteq Req
  BY ListsOfRequests DEF IInv, InFlight
<1>7. made' \in [Req -> Nat] /\ sent' \in [Req -> Seq({"token", "finished"})]
  BY <1>2, TakeTokenFacts DEF DecodedOne, h
<1>8. CASE Finishes(h)
  <2>1. TypeOK'
    BY <1>3, <1>4, <1>5, <1>6, <1>7, <1>8 DEF Finishes, IInv, TypeOK, Places
  <2>2. NoDuplicates'
    BY <1>3, <1>4, <1>5, <1>6, <1>7, <1>8 DEF Finishes, IInv, NoDuplicates, InFlight
  <2>3. LocalsInv'
    BY <1>3, <1>4, <1>5, <1>6, <1>7, <1>8 DEF Finishes, IInv, LocalsInv, InFlight,
       NoDuplicates
  <2>4. PrefilledInv'
    BY <1>3, <1>4, <1>5, <1>6, <1>7, <1>8 DEF Finishes, IInv, PrefilledInv
  <2>5. LoopsInv'
    BY <1>3, <1>4, <1>5, <1>6, <1>7, <1>8 DEF Finishes, IInv, LoopsInv, InFlight
  <2>6. StatusInv'
    BY <1>3, <1>4, <1>5, <1>6, <1>7, <1>8 DEF Finishes, IInv, StatusInv, InFlight, Alive,
       NoDuplicates, LocalsInv
  <2>7. ReachInv'
    BY <1>3, <1>4, <1>5, <1>6, <1>7, <1>8 DEF Finishes, IInv, ReachInv, InFlight, Alive,
       LocalsInv
  <2>. QED  BY <2>1, <2>2, <2>3, <2>4, <2>5, <2>6, <2>7 DEF IInv
<1>9. CASE keep' = Append(keep, h) /\ UNCHANGED <<running, status, kv, prefilling>>
  <2>1. /\ keep' \in Seq(Req) /\ ToSet(keep') = ToSet(keep) \cup {h}
        /\ IsInjective(keep')
        /\ running' = running /\ status' = status /\ kv' = kv /\ prefilling' = prefilling
    BY <1>2, <1>3, <1>9, Appended DEF IInv, TypeOK, NoDuplicates
  <2>2. TypeOK'
    BY <1>3, <1>4, <1>5, <1>6, <1>7, <2>1 DEF IInv, TypeOK, Places
  <2>3. NoDuplicates'
    BY <1>3, <1>4, <1>5, <1>6, <1>7, <2>1 DEF IInv, NoDuplicates, InFlight
  <2>4. LocalsInv'
    BY <1>3, <1>4, <1>5, <1>6, <1>7, <2>1 DEF IInv, LocalsInv, InFlight, NoDuplicates
  <2>5. PrefilledInv'
    BY <1>3, <1>4, <1>5, <1>6, <1>7, <2>1 DEF IInv, PrefilledInv
  <2>6. LoopsInv'
    BY <1>3, <1>4, <1>5, <1>6, <1>7, <2>1 DEF IInv, LoopsInv, InFlight
  <2>7. StatusInv'
    BY <1>3, <1>4, <1>5, <1>6, <1>7, <2>1 DEF IInv, StatusInv, InFlight, Alive, NoDuplicates,
       LocalsInv
  <2>8. ReachInv'
    BY <1>3, <1>4, <1>5, <1>6, <1>7, <2>1 DEF IInv, ReachInv, InFlight, Alive, LocalsInv
  <2>. QED  BY <2>2, <2>3, <2>4, <2>5, <2>6, <2>7, <2>8 DEF IInv
<1>. QED  BY <1>2, <1>8, <1>9, TakeTokenFacts DEF DecodedOne, h

\* One turn of the loop over the results of a prefill batch.
LEMMA PrefilledOneStep ==
    ASSUME IInv, PrefilledOne
    PROVE  IInv'
<1>1. todo \in Seq(Req) /\ todo # << >>
  BY DEF PrefilledOne, IInv, TypeOK, LocalsInv
<1>. DEFINE h == Head(todo)
<1>2. /\ h \in Req /\ Tail(todo) \in Seq(Req)
      /\ ToSet(todo) = {h} \cup ToSet(Tail(todo))
      /\ IsInjective(todo) => IsInjective(Tail(todo)) /\ h \notin ToSet(Tail(todo))
  BY <1>1, HeadAndTail
<1>. HIDE DEF h
<1>3. /\ pc = "prefilled" /\ todo' = Tail(todo)
      /\ status \in [Req -> {"new", "waiting", "running", "finished"}]
      /\ kv \in [Req -> BOOLEAN]
      /\ h \in ToSet(prefilling) /\ h \notin ToSet(keep) \cup ToSet(running)
      /\ h \notin ToSet(retracted) \cup ToSet(waiting)
      /\ UNCHANGED <<waiting, left, pc, result, mode, peak, failures, flag, arrivals>>
  BY <1>2 DEF PrefilledOne, h, outside, outer, IInv, TypeOK, PrefilledInv, NoDuplicates
<1>4. /\ todo' \in Seq(Req) /\ IsInjective(todo')
      /\ ToSet(todo) = {h} \cup ToSet(todo') /\ h \notin ToSet(todo') /\ h \in Req
  BY <1>2, <1>3 DEF IInv, NoDuplicates
<1>5. ToSet(<< >>) = {} /\ IsInjective(<< >>) /\ << >> \in Seq(Req)
  BY ShortLists
<1>6. ToSet(waiting) \cup InFlight \cup ToSet(todo) \cup ToSet(keep) \subseteq Req
  BY ListsOfRequests DEF IInv, InFlight
<1>7. ToSet(retracted) \subseteq Req
  BY ListsOfRequests DEF IInv
<1>8. CASE RetractOne(h)
  <2>1. /\ retracted' \in Seq(Req) /\ ToSet(retracted') = ToSet(retracted) \cup {h}
        /\ IsInjective(retracted') /\ ~ kv[h]
        /\ status' = [status EXCEPT ![h] = "waiting"]
        /\ UNCHANGED <<running, prefilling, made, kv, sent, keep>>
    BY <1>2, <1>3, <1>8, Appended DEF RetractOne, IInv, TypeOK, NoDuplicates, PrefilledInv
  <2>2. TypeOK'
    BY <1>3, <1>4, <1>5, <1>6, <1>7, <2>1 DEF IInv, TypeOK, Places
  <2>3. NoDuplicates'
    BY <1>3, <1>4, <1>5, <1>6, <1>7, <2>1 DEF IInv, NoDuplicates, InFlight
  <2>4. LocalsInv'
    BY <1>3, <1>4, <1>5, <1>6, <1>7, <2>1 DEF IInv, LocalsInv, InFlight, NoDuplicates
  <2>5. PrefilledInv'
    BY <1>3, <1>4, <1>5, <1>6, <1>7, <2>1 DEF IInv, PrefilledInv
  <2>6. LoopsInv'
    BY <1>3, <1>4, <1>5, <1>6, <1>7, <2>1 DEF IInv, LoopsInv, InFlight
  <2>7. StatusInv'
    BY <1>3, <1>4, <1>5, <1>6, <1>7, <2>1 DEF IInv, StatusInv, InFlight, Alive, NoDuplicates,
       LocalsInv
  <2>8. ReachInv'
    BY <1>3, <1>4, <1>5, <1>6, <1>7, <2>1 DEF IInv, ReachInv, InFlight, Alive, LocalsInv
  <2>. QED  BY <2>2, <2>3, <2>4, <2>5, <2>6, <2>7, <2>8 DEF IInv
<1>9. CASE ChunkOne(h)
  <2>1. /\ keep' \in Seq(Req) /\ ToSet(keep') = ToSet(keep) \cup {h}
        /\ IsInjective(keep') /\ left[h] > 0
        /\ UNCHANGED <<running, prefilling, status, made, kv, sent, retracted>>
    BY <1>2, <1>3, <1>9, Appended DEF ChunkOne, IInv, TypeOK, NoDuplicates, PrefilledInv
  <2>2. TypeOK'
    BY <1>3, <1>4, <1>5, <1>6, <1>7, <2>1 DEF IInv, TypeOK, Places
  <2>3. NoDuplicates'
    BY <1>3, <1>4, <1>5, <1>6, <1>7, <2>1 DEF IInv, NoDuplicates, InFlight
  <2>4. LocalsInv'
    BY <1>3, <1>4, <1>5, <1>6, <1>7, <2>1 DEF IInv, LocalsInv, InFlight, NoDuplicates
  <2>5. PrefilledInv'
    BY <1>3, <1>4, <1>5, <1>6, <1>7, <2>1 DEF IInv, PrefilledInv
  <2>6. LoopsInv'
    BY <1>3, <1>4, <1>5, <1>6, <1>7, <2>1 DEF IInv, LoopsInv, InFlight
  <2>7. StatusInv'
    BY <1>3, <1>4, <1>5, <1>6, <1>7, <2>1 DEF IInv, StatusInv, InFlight, Alive, NoDuplicates,
       LocalsInv
  <2>8. ReachInv'
    BY <1>3, <1>4, <1>5, <1>6, <1>7, <2>1 DEF IInv, ReachInv, InFlight, Alive, LocalsInv
  <2>. QED  BY <2>2, <2>3, <2>4, <2>5, <2>6, <2>7, <2>8 DEF IInv
<1>10. CASE FirstToken(h)
  <2>1. /\ made' \in [Req -> Nat] /\ sent' \in [Req -> Seq({"token", "finished"})]
        /\ retracted' = retracted
    BY <1>2, <1>10, TakeTokenFacts DEF FirstToken
  <2>2. ASSUME Finishes(h) PROVE IInv'
    <3>1. TypeOK'
      BY <1>3, <1>4, <1>5, <1>6, <1>7, <2>1, <2>2 DEF Finishes, IInv, TypeOK, Places
    <3>2. NoDuplicates'
      BY <1>3, <1>4, <1>5, <1>6, <1>7, <2>1, <2>2 DEF Finishes, IInv, NoDuplicates, InFlight
    <3>3. LocalsInv'
      BY <1>3, <1>4, <1>5, <1>6, <1>7, <2>1, <2>2 DEF Finishes, IInv, LocalsInv, InFlight,
         NoDuplicates
    <3>4. PrefilledInv'
      BY <1>3, <1>4, <1>5, <1>6, <1>7, <2>1, <2>2 DEF Finishes, IInv, PrefilledInv
    <3>5. LoopsInv'
      BY <1>3, <1>4, <1>5, <1>6, <1>7, <2>1, <2>2 DEF Finishes, IInv, LoopsInv, InFlight
    <3>6. StatusInv'
      BY <1>3, <1>4, <1>5, <1>6, <1>7, <2>1, <2>2 DEF Finishes, IInv, StatusInv, InFlight,
         Alive, NoDuplicates, LocalsInv
    <3>7. ReachInv'
      BY <1>3, <1>4, <1>5, <1>6, <1>7, <2>1, <2>2 DEF Finishes, IInv, ReachInv, InFlight, Alive,
         LocalsInv
    <3>. QED  BY <3>1, <3>2, <3>3, <3>4, <3>5, <3>6, <3>7 DEF IInv
  <2>3. ASSUME running' = Append(running, h), UNCHANGED <<status, kv, keep, prefilling>>
        PROVE  IInv'
    <3>1. /\ running' \in Seq(Req) /\ ToSet(running') = ToSet(running) \cup {h}
          /\ IsInjective(running')
          /\ status' = status /\ kv' = kv /\ keep' = keep /\ prefilling' = prefilling
      BY <1>2, <1>3, <2>3, Appended DEF IInv, TypeOK, NoDuplicates
    <3>2. TypeOK'
      BY <1>3, <1>4, <1>5, <1>6, <1>7, <2>1, <3>1 DEF IInv, TypeOK, Places
    <3>3. NoDuplicates'
      BY <1>3, <1>4, <1>5, <1>6, <1>7, <2>1, <3>1 DEF IInv, NoDuplicates, InFlight
    <3>4. LocalsInv'
      BY <1>3, <1>4, <1>5, <1>6, <1>7, <2>1, <3>1 DEF IInv, LocalsInv, InFlight, NoDuplicates
    <3>5. PrefilledInv'
      BY <1>3, <1>4, <1>5, <1>6, <1>7, <2>1, <3>1 DEF IInv, PrefilledInv
    <3>6. LoopsInv'
      BY <1>3, <1>4, <1>5, <1>6, <1>7, <2>1, <3>1 DEF IInv, LoopsInv, InFlight
    <3>7. StatusInv'
      BY <1>3, <1>4, <1>5, <1>6, <1>7, <2>1, <3>1 DEF IInv, StatusInv, InFlight, Alive,
         NoDuplicates, LocalsInv
    <3>8. ReachInv'
      BY <1>3, <1>4, <1>5, <1>6, <1>7, <2>1, <3>1 DEF IInv, ReachInv, InFlight, Alive, LocalsInv
    <3>. QED  BY <3>2, <3>3, <3>4, <3>5, <3>6, <3>7, <3>8 DEF IInv
  <2>. QED  BY <1>2, <1>10, <2>2, <2>3, TakeTokenFacts DEF FirstToken
<1>. QED  BY <1>8, <1>9, <1>10 DEF PrefilledOne, h

\* The batched step takes the oldest requests off the queue.
LEMMA BatchedAdmitStep ==
    ASSUME IInv, BatchedAdmit
    PROVE  IInv'
<1>. DEFINE room == IF MaxRunning > Len(running) THEN MaxRunning - Len(running) ELSE 0
            k == Min({Len(waiting), room})
            a == SubSeq(waiting, 1, k)
            b == SubSeq(waiting, k + 1, Len(waiting))
<1>1. /\ Len(waiting) \in Nat /\ room \in Nat /\ waiting \in Seq(Req)
      /\ IsInjective(waiting)
  BY LenProperties, SchedulerAssumption DEF IInv, TypeOK, NoDuplicates
<1>2. /\ todo' = a /\ waiting' = b /\ pc = "loop" /\ mode = "batched" /\ pc' = "prefill one"
      /\ UNCHANGED <<prefilling, running, status, made, kv, left, sent, result, keep, retracted,
                     mode, peak, failures, flag, arrivals>>
  BY DEF BatchedAdmit, AtLoop, outside, outer
<1>. HIDE DEF room
<1>3. k \in 0 .. Len(waiting)
  BY <1>1 DEF Min
<1>. HIDE DEF k
<1>4. /\ a \in Seq(Req) /\ b \in Seq(Req) /\ ToSet(waiting) = ToSet(a) \cup ToSet(b)
      /\ IsInjective(a) /\ IsInjective(b) /\ ToSet(a) \cap ToSet(b) = {}
  BY <1>1, <1>3, Divided
<1>. HIDE DEF a, b
<1>5. /\ todo' \in Seq(Req) /\ waiting' \in Seq(Req)
      /\ ToSet(waiting) = ToSet(todo') \cup ToSet(waiting')
      /\ IsInjective(todo') /\ IsInjective(waiting') /\ ToSet(todo') \cap ToSet(waiting') = {}
  BY <1>2, <1>4
<1>6. /\ pc = "loop" /\ mode = "batched" /\ pc' = "prefill one"
      /\ UNCHANGED <<prefilling, running, status, made, kv, left, sent, result, keep, retracted,
                     mode, peak, failures, flag, arrivals>>
  BY <1>2
<1>7. ToSet(<< >>) = {} /\ IsInjective(<< >>) /\ << >> \in Seq(Req)
  BY ShortLists
<1>8. ToSet(waiting) \cup InFlight \cup ToSet(todo) \cup ToSet(keep) \subseteq Req
  BY ListsOfRequests DEF IInv, InFlight
<1>9. TypeOK'
  BY <1>5, <1>6, <1>7, <1>8 DEF IInv, TypeOK, Places
<1>10. NoDuplicates'
  BY <1>5, <1>6, <1>7, <1>8 DEF IInv, NoDuplicates, InFlight
<1>11. LocalsInv'
  BY <1>5, <1>6, <1>7, <1>8 DEF IInv, LocalsInv, InFlight, NoDuplicates
<1>12. PrefilledInv'
  BY <1>5, <1>6, <1>7, <1>8 DEF IInv, PrefilledInv
<1>13. LoopsInv'
  BY <1>5, <1>6, <1>7, <1>8 DEF IInv, LoopsInv, InFlight
<1>14. StatusInv'
  BY <1>5, <1>6, <1>7, <1>8 DEF IInv, StatusInv, InFlight, Alive, NoDuplicates, LocalsInv
<1>15. ReachInv'
  BY <1>5, <1>6, <1>7, <1>8 DEF IInv, ReachInv, InFlight, Alive, LocalsInv
<1>. QED  BY <1>9, <1>10, <1>11, <1>12, <1>13, <1>14, <1>15 DEF IInv

\* The paged step admits the oldest requests.
LEMMA PagedAdmitStep ==
    ASSUME IInv, PagedAdmit
    PROVE  IInv'
<1>1. waiting \in Seq(Req) /\ IsInjective(waiting) /\ prefilling \in Seq(Req)
  BY DEF IInv, TypeOK, NoDuplicates
<1>2. PICK k \in 0 .. Len(waiting) :
         /\ prefilling' = prefilling \o SubSeq(waiting, 1, k)
         /\ waiting' = SubSeq(waiting, k + 1, Len(waiting))
         /\ status' = [r \in Req |-> IF r \in ToSet(SubSeq(waiting, 1, k)) THEN "running"
                                                                          ELSE status[r]]
  BY DEF PagedAdmit
<1>. DEFINE a == SubSeq(waiting, 1, k)
            b == SubSeq(waiting, k + 1, Len(waiting))
<1>3. /\ a \in Seq(Req) /\ b \in Seq(Req) /\ ToSet(waiting) = ToSet(a) \cup ToSet(b)
      /\ IsInjective(a) /\ IsInjective(b) /\ ToSet(a) \cap ToSet(b) = {}
  BY <1>1, Divided
<1>4. /\ prefilling' = prefilling \o a /\ waiting' = b
      /\ status' = [r \in Req |-> IF r \in ToSet(a) THEN "running" ELSE status[r]]
  BY <1>2
<1>. HIDE DEF a, b
<1>5. /\ prefilling' \in Seq(Req) /\ ToSet(prefilling') = ToSet(prefilling) \cup ToSet(a)
      /\ IsInjective(prefilling')
      /\ waiting' \in Seq(Req) /\ ToSet(waiting) = ToSet(a) \cup ToSet(waiting')
      /\ IsInjective(waiting') /\ ToSet(a) \cap ToSet(waiting') = {}
  <2>1. IsInjective(prefilling) /\ ToSet(prefilling) \cap ToSet(a) = {}
    BY <1>3 DEF IInv, NoDuplicates, InFlight
  <2>. QED  BY <1>1, <1>3, <1>4, <2>1, Joined
<1>6. /\ pc = "loop" /\ mode = "paged" /\ pc' = "prefill batch"
      /\ status \in [Req -> {"new", "waiting", "running", "finished"}]
      /\ UNCHANGED <<running, made, kv, left, sent, todo, result, keep, retracted, mode, peak,
                     failures, flag, arrivals>>
  BY DEF PagedAdmit, AtLoop, local, outside, outer, IInv, TypeOK
<1>7. ToSet(<< >>) = {} /\ IsInjective(<< >>) /\ << >> \in Seq(Req)
  BY ShortLists
<1>8. ToSet(waiting) \cup InFlight \cup ToSet(todo) \cup ToSet(keep) \subseteq Req
  BY ListsOfRequests DEF IInv, InFlight
<1>9. status' = [r \in Req |-> IF r \in ToSet(a) THEN "running" ELSE status[r]]
  BY <1>4
<1>10. TypeOK'
  BY <1>5, <1>6, <1>7, <1>8, <1>9 DEF IInv, TypeOK, Places
<1>11. NoDuplicates'
  BY <1>5, <1>6, <1>7, <1>8, <1>9 DEF IInv, NoDuplicates, InFlight
<1>12. LocalsInv'
  BY <1>5, <1>6, <1>7, <1>8, <1>9 DEF IInv, LocalsInv, InFlight, NoDuplicates
<1>13. PrefilledInv'
  BY <1>5, <1>6, <1>7, <1>8, <1>9 DEF IInv, PrefilledInv
<1>14. LoopsInv'
  BY <1>5, <1>6, <1>7, <1>8, <1>9 DEF IInv, LoopsInv, InFlight
<1>15. StatusInv'
  BY <1>5, <1>6, <1>7, <1>8, <1>9 DEF IInv, StatusInv, InFlight, Alive, NoDuplicates,
     LocalsInv
<1>16. ReachInv'
  BY <1>5, <1>6, <1>7, <1>8, <1>9 DEF IInv, ReachInv, InFlight, Alive, LocalsInv
<1>. QED  BY <1>10, <1>11, <1>12, <1>13, <1>14, <1>15, <1>16 DEF IInv

\* A prefill batch: what it returns for a request goes with its kv_cache.
LEMMA PrefillBatchStep ==
    ASSUME IInv, PrefillBatch
    PROVE  IInv'
<1>. DEFINE P == ToSet(prefilling)
<1>1. PICK failed \in SUBSET {r \in P : ~ kv[r]} :
         /\ kv' = [r \in Req |-> kv[r] \/ r \in P \ failed]
         /\ \E steps \in [P -> 1 .. MaxChunks] :
              left' = [r \in Req |-> IF r \notin P \ failed THEN left[r]
                                    ELSE IF kv[r] THEN left[r] - 1 ELSE steps[r] - 1]
         /\ result' = [r \in Req |-> IF r \in failed THEN "retract"
                                    ELSE IF left'[r] > 0 THEN "chunk" ELSE "token"]
  BY DEF PrefillBatch
<1>2. PICK steps \in [P -> 1 .. MaxChunks] :
         left' = [r \in Req |-> IF r \notin P \ failed THEN left[r]
                               ELSE IF kv[r] THEN left[r] - 1 ELSE steps[r] - 1]
  BY <1>1
<1>3. /\ pc = "prefill batch" /\ pc' = "prefilled" /\ todo' = prefilling
      /\ left \in [Req -> Nat] /\ kv \in [Req -> BOOLEAN] /\ P \subseteq Req
      /\ UNCHANGED <<waiting, prefilling, running, status, made, sent, keep, retracted, mode,
                     peak, failures, flag, arrivals>>
  BY ListsOfRequests DEF PrefillBatch, lists, outside, outer, IInv, TypeOK
<1>4. left' \in [Req -> Nat]
  <2>1. ASSUME NEW r \in Req
        PROVE  (IF r \notin P \ failed THEN left[r]
                ELSE IF kv[r] THEN left[r] - 1 ELSE steps[r] - 1) \in Nat
    <3>1. CASE r \notin P \ failed
      BY <1>3, <3>1
    <3>2. CASE r \in P \ failed /\ kv[r]
      <4>1. left[r] > 0 /\ left[r] \in Nat
        BY <1>3, <3>2 DEF IInv, StatusInv
      <4>. QED  BY <3>2, <4>1
    <3>3. CASE r \in P \ failed /\ ~ kv[r]
      <4>1. steps[r] \in 1 .. MaxChunks /\ MaxChunks \in Nat
        BY <3>3, SchedulerAssumption
      <4>. QED  BY <3>3, <4>1
    <3>. QED  BY <3>1, <3>2, <3>3
  <2>. QED  BY <1>2, <2>1
<1>5. kv' \in [Req -> BOOLEAN]
  BY <1>1, <1>3
<1>6. ASSUME NEW r \in P, r \in failed PROVE ~ kv'[r]
  <2>1. r \in Req /\ ~ kv[r] /\ r \notin P \ failed
    BY <1>3, <1>6
  <2>. QED  BY <1>1, <2>1
<1>7. ASSUME NEW r \in Req \ P PROVE kv'[r] = kv[r]
  <2>1. r \in Req /\ r \notin P \ failed /\ kv[r] \in BOOLEAN
    BY <1>3
  <2>. QED  BY <1>1, <2>1
<1>8. result' \in [Req -> {"none", "token", "chunk", "retract"}]
  BY <1>1
<1>9. \A r \in P : /\ result'[r] = "retract" => ~ kv'[r]
                   /\ result'[r] = "chunk" => left'[r] > 0
  <2>1. ASSUME NEW r \in P, result'[r] = "retract" PROVE r \in failed
    BY <1>1, <1>3, <2>1
  <2>2. ASSUME NEW r \in P, result'[r] = "chunk" PROVE left'[r] > 0
    BY <1>1, <1>3, <2>2
  <2>. QED  BY <1>6, <2>1, <2>2
<1>10. todo' = prefilling /\ retracted = << >> /\ keep = << >> /\ todo = << >>
  BY <1>3 DEF IInv, LocalsInv
<1>. HIDE DEF P
<1>11. ToSet(<< >>) = {} /\ IsInjective(<< >>) /\ << >> \in Seq(Req)
  BY ShortLists
<1>12. ToSet(waiting) \cup InFlight \cup ToSet(todo) \cup ToSet(keep) \subseteq Req
  BY ListsOfRequests DEF IInv, InFlight
<1>13. TypeOK'
  BY <1>3, <1>4, <1>5, <1>7, <1>8, <1>9, <1>10, <1>11, <1>12 DEF P, IInv, TypeOK, Places
<1>14. NoDuplicates'
  BY <1>3, <1>4, <1>5, <1>7, <1>8, <1>9, <1>10, <1>11, <1>12 DEF P, IInv, NoDuplicates,
     InFlight
<1>15. LocalsInv'
  BY <1>3, <1>4, <1>5, <1>7, <1>8, <1>9, <1>10, <1>11, <1>12 DEF P, IInv, LocalsInv,
     InFlight, NoDuplicates
<1>16. PrefilledInv'
  BY <1>3, <1>4, <1>5, <1>7, <1>8, <1>9, <1>10, <1>11, <1>12 DEF P, IInv, PrefilledInv,
     NoDuplicates
<1>17. LoopsInv'
  BY <1>3, <1>4, <1>5, <1>7, <1>8, <1>9, <1>10, <1>11, <1>12 DEF P, IInv, LoopsInv, InFlight
<1>18. StatusInv'
  BY <1>3, <1>4, <1>5, <1>7, <1>8, <1>9, <1>10, <1>11, <1>12 DEF P, IInv, StatusInv,
     InFlight, Alive, NoDuplicates, LocalsInv
<1>19. ReachInv'
  BY <1>3, <1>4, <1>5, <1>7, <1>8, <1>9, <1>10, <1>11, <1>12 DEF P, IInv, ReachInv,
     InFlight, Alive, LocalsInv
<1>. QED  BY <1>13, <1>14, <1>15, <1>16, <1>17, <1>18, <1>19 DEF IInv

\* The end of the prefill phase: what is still prefilling, and what goes back.
LEMMA PrefilledEndStep ==
    ASSUME IInv, PrefilledEnd
    PROVE  IInv'
<1>1. ToSet(<< >>) = {} /\ IsInjective(<< >>) /\ << >> \in Seq(Req)
  BY ShortLists
<1>2. /\ pc = "prefilled" /\ todo = << >> /\ pc' = "decode" /\ prefilling' = keep
      /\ keep' = << >> /\ retracted' = << >> /\ result' = [r \in Req |-> "none"]
      /\ UNCHANGED <<running, status, made, kv, left, sent, todo, mode, peak, failures, flag,
                     arrivals>>
  BY DEF PrefilledEnd, outside, outer
<1>3. /\ ToSet(prefilling) \subseteq ToSet(keep) \cup ToSet(retracted) \cup ToSet(running)
      /\ ToSet(keep) \cup ToSet(retracted) \subseteq ToSet(prefilling) \ ToSet(running)
      /\ ToSet(keep) \cap ToSet(retracted) = {}
      /\ \A r \in ToSet(retracted) : status[r] = "waiting" /\ ~ kv[r]
      /\ \A r \in ToSet(keep) : left[r] > 0
  BY <1>1, <1>2 DEF IInv, PrefilledInv
<1>4. /\ waiting' \in Seq(Req) /\ ToSet(waiting') = ToSet(retracted) \cup ToSet(waiting)
      /\ IsInjective(waiting')
  <2>1. /\ retracted \in Seq(Req) /\ waiting \in Seq(Req)
        /\ IsInjective(retracted) /\ IsInjective(waiting)
        /\ ToSet(retracted) \cap ToSet(waiting) = {} /\ waiting' = retracted \o waiting
    BY <1>3 DEF PrefilledEnd, IInv, TypeOK, NoDuplicates, InFlight
  <2>. QED  BY <2>1, Joined
<1>5. ToSet(waiting) \cup InFlight \cup ToSet(todo) \cup ToSet(keep) \subseteq Req
  BY ListsOfRequests DEF IInv, InFlight
<1>6. TypeOK'
  BY <1>1, <1>2, <1>3, <1>4, <1>5 DEF IInv, TypeOK, Places
<1>7. NoDuplicates'
  BY <1>1, <1>2, <1>3, <1>4, <1>5 DEF IInv, NoDuplicates, InFlight
<1>8. LocalsInv'
  BY <1>1, <1>2, <1>3, <1>4, <1>5 DEF IInv, LocalsInv, InFlight, NoDuplicates
<1>9. PrefilledInv'
  BY <1>1, <1>2, <1>3, <1>4, <1>5 DEF IInv, PrefilledInv
<1>10. LoopsInv'
  BY <1>1, <1>2, <1>3, <1>4, <1>5 DEF IInv, LoopsInv, InFlight
<1>11. StatusInv'
  BY <1>1, <1>2, <1>3, <1>4, <1>5 DEF IInv, StatusInv, InFlight, Alive, NoDuplicates,
     LocalsInv
<1>12. ReachInv'
  BY <1>1, <1>2, <1>3, <1>4, <1>5 DEF IInv, ReachInv, InFlight, Alive, LocalsInv
<1>. QED  BY <1>6, <1>7, <1>8, <1>9, <1>10, <1>11, <1>12 DEF IInv

\* A decode batch over what is running, and the end of its loop.
LEMMA DecodeSteps ==
    ASSUME IInv, Decode \/ DecodedEnd
    PROVE  IInv'
<1>1. ToSet(<< >>) = {} /\ IsInjective(<< >>) /\ << >> \in Seq(Req)
  BY ShortLists
<1>2. ToSet(waiting) \cup InFlight \cup ToSet(todo) \cup ToSet(keep) \subseteq Req
  BY ListsOfRequests DEF IInv, InFlight
<1>3. CASE Decode
  <2>1. /\ pc = "decode" /\ pc' = "decoded" /\ todo' = running
        /\ UNCHANGED <<waiting, prefilling, running, status, made, kv, left, sent, result, keep,
                       retracted, mode, peak, failures, flag, arrivals>>
    BY <1>3 DEF Decode, lists, outside, outer
  <2>2. TypeOK'
    BY <1>1, <1>2, <2>1 DEF IInv, TypeOK, Places
  <2>3. NoDuplicates'
    BY <1>1, <1>2, <2>1 DEF IInv, NoDuplicates, InFlight
  <2>4. LocalsInv'
    BY <1>1, <1>2, <2>1 DEF IInv, LocalsInv, InFlight, NoDuplicates
  <2>5. PrefilledInv'
    BY <1>1, <1>2, <2>1 DEF IInv, PrefilledInv
  <2>6. LoopsInv'
    BY <1>1, <1>2, <2>1 DEF IInv, LoopsInv, InFlight, LocalsInv
  <2>7. StatusInv'
    BY <1>1, <1>2, <2>1 DEF IInv, StatusInv, InFlight, Alive, NoDuplicates, LocalsInv
  <2>8. ReachInv'
    BY <1>1, <1>2, <2>1 DEF IInv, ReachInv, InFlight, Alive, LocalsInv
  <2>. QED  BY <2>2, <2>3, <2>4, <2>5, <2>6, <2>7, <2>8 DEF IInv
<1>4. CASE DecodedEnd
  <2>1. /\ pc = "decoded" /\ todo = << >> /\ pc' = "loop" /\ running' = keep /\ keep' = << >>
        /\ UNCHANGED <<waiting, prefilling, status, made, kv, left, sent, todo, result,
                       retracted, mode, peak, failures, flag, arrivals>>
    BY <1>4 DEF DecodedEnd, outside, outer
  <2>2. ToSet(keep) = ToSet(running)
    BY <1>1, <2>1 DEF IInv, LoopsInv
  <2>3. TypeOK'
    BY <1>1, <1>2, <2>1, <2>2 DEF IInv, TypeOK, Places
  <2>4. NoDuplicates'
    BY <1>1, <1>2, <2>1, <2>2 DEF IInv, NoDuplicates, InFlight
  <2>5. LocalsInv'
    BY <1>1, <1>2, <2>1, <2>2 DEF IInv, LocalsInv, InFlight, NoDuplicates
  <2>6. PrefilledInv'
    BY <1>1, <1>2, <2>1, <2>2 DEF IInv, PrefilledInv
  <2>7. LoopsInv'
    BY <1>1, <1>2, <2>1, <2>2 DEF IInv, LoopsInv, InFlight
  <2>8. StatusInv'
    BY <1>1, <1>2, <2>1, <2>2 DEF IInv, StatusInv, InFlight, Alive, NoDuplicates, LocalsInv
  <2>9. ReachInv'
    BY <1>1, <1>2, <2>1, <2>2 DEF IInv, ReachInv, InFlight, Alive, LocalsInv
  <2>. QED  BY <2>3, <2>4, <2>5, <2>6, <2>7, <2>8, <2>9 DEF IInv
<1>. QED  BY <1>3, <1>4

\* The scheduler starts with nothing in its lists.
LEMMA InitIInv == Init => IInv
<1>. SUFFICES ASSUME Init PROVE IInv
  OBVIOUS
<1>1. ToSet(<< >>) = {} /\ IsInjective(<< >>) /\ << >> \in Seq(Req)
  BY ShortLists
<1>2. TypeOK
  BY <1>1, SchedulerAssumption DEF Init, TypeOK, Places
<1>3. NoDuplicates /\ LocalsInv /\ PrefilledInv /\ LoopsInv
  BY <1>1 DEF Init, NoDuplicates, LocalsInv, PrefilledInv, LoopsInv, InFlight
<1>4. StatusInv /\ ReachInv
  BY <1>1 DEF Init, StatusInv, ReachInv, InFlight, Alive
<1>. QED  BY <1>2, <1>3, <1>4 DEF IInv

\* Every step keeps the invariant.
LEMMA NextIInv == IInv /\ [Next]_vars => IInv'
<1>. SUFFICES ASSUME IInv, [Next]_vars PROVE IInv'
  OBVIOUS
<1>1. ASSUME NEW r \in Req, AddRequest(r) PROVE IInv'
  BY <1>1, AddRequestStep
<1>2. CASE \/ Stop \/ ThreadEnd \/ PrefillAllDone \/ NothingToPrefill \/ NothingToDecode
           \/ AbortEnd \/ UNCHANGED vars
  <2>1. flag \in BOOLEAN
    BY DEF IInv, TypeOK
  <2>2. Moves
    BY <1>2, <2>1 DEF Stop, ThreadEnd, PrefillAllDone, NothingToPrefill, NothingToDecode,
       AbortEnd, Moves, lists, local, outside, outer, vars
  <2>. QED  BY <2>2, MovesStep
<1>3. CASE \/ BaselineRaises \/ PrefillOneRaises \/ PrefillBatchRaises \/ DecodeRaises
           \/ StreamRaises
  BY <1>3, RaisesStep
<1>4. CASE BaselineStart \/ BaselineToken \/ AbortOne
  BY <1>4, BaselineStartStep, BaselineTokenStep, AbortOneStep
<1>8. CASE FirstCommitRaises \/ AbortRaises
  BY <1>8, FirstCommitRaisesStep, AbortRaisesStep
<1>5. CASE BatchedAdmit \/ PrefillOne
  BY <1>5, BatchedAdmitStep, PrefillOneStep
<1>6. CASE PagedAdmit \/ PrefillBatch \/ PrefilledOne \/ PrefilledEnd
  BY <1>6, PagedAdmitStep, PrefillBatchStep, PrefilledOneStep, PrefilledEndStep
<1>7. CASE Decode \/ DecodedOne \/ DecodedEnd
  BY <1>7, DecodeSteps, DecodedOneStep
<1>. QED  BY <1>1, <1>2, <1>3, <1>4, <1>5, <1>6, <1>7, <1>8 DEF Next, SchedulerStep

\* The invariant holds in every state.
LEMMA Invariant == Spec => []IInv
<1>. QED  BY InitIInv, NextIInv, PTL DEF Spec

-----------------------------------------------------------------------------
(* Theorems *)

\* The variables have their types: the scheduler's, the steps' locals among them.
THEOREM SchedulerTypeCorrect == Spec => []TypeOK
<1>1. IInv => TypeOK
  BY DEF IInv
<1>. QED  BY <1>1, Invariant, PTL

\* What the concatenation of the lists holds.
LEMMA AllLists ==
    ASSUME TypeOK
    PROVE  /\ Reachable = ToSet(waiting) \cup InFlight \cup ToSet(todo) \cup ToSet(retracted)
           /\ waiting \o prefilling \o running \in Seq(Req)
           /\ ToSet(waiting \o prefilling \o running) = ToSet(waiting) \cup InFlight
<1>1. /\ waiting \in Seq(Req) /\ prefilling \in Seq(Req) /\ running \in Seq(Req)
      /\ todo \in Seq(Req) /\ retracted \in Seq(Req)
  BY DEF TypeOK
<1>. DEFINE wp == waiting \o prefilling
            wpr == wp \o running
            wprt == wpr \o todo
<1>2. wp \in Seq(Req) /\ ToSet(wp) = ToSet(waiting) \cup ToSet(prefilling)
  BY <1>1, Joined
<1>. HIDE DEF wp
<1>3. wpr \in Seq(Req) /\ ToSet(wpr) = ToSet(wp) \cup ToSet(running)
  BY <1>1, <1>2, Joined
<1>. HIDE DEF wpr
<1>4. wprt \in Seq(Req) /\ ToSet(wprt) = ToSet(wpr) \cup ToSet(todo)
  BY <1>1, <1>3, Joined
<1>. HIDE DEF wprt
<1>5. ToSet(wprt \o retracted) = ToSet(wprt) \cup ToSet(retracted)
  BY <1>1, <1>4, Joined
<1>6. Reachable = ToSet(wprt \o retracted)
  BY DEF Reachable, wprt, wpr, wp
<1>7. waiting \o prefilling \o running = wpr
  BY DEF wpr, wp
<1>. QED  BY <1>2, <1>3, <1>4, <1>5, <1>6, <1>7 DEF InFlight

\* No request that was added is dropped from the lists before it is finished, in
\* paged mode through failing steps, retracts and aborts, in the other modes until
\* a step fails: _abort_inflight_requests and the loops of the step reach it.
THEOREM NoRequestIsLost == Spec => []NoRequestLost
<1>1. IInv => NoRequestLost
  BY AllLists DEF IInv, ReachInv, NoRequestLost, Alive
<1>. QED  BY <1>1, Invariant, PTL

\* Between two steps a request is in one list, once, and in none when finished.
THEOREM OneListEachHolds == Spec => []OneListEach
<1>1. IInv => OneListEach
  <2>. SUFFICES ASSUME IInv, pc = "loop"
                PROVE  LET all == waiting \o prefilling \o running
                       IN  /\ IsInjective(all)
                           /\ \A r \in ToSet(all) : status[r] # "finished"
                           /\ \A r \in ToSet(waiting) : status[r] = "waiting" /\ ~ kv[r]
    BY DEF OneListEach
  <2>1. /\ waiting \in Seq(Req) /\ prefilling \in Seq(Req) /\ running \in Seq(Req)
        /\ IsInjective(waiting) /\ IsInjective(prefilling) /\ IsInjective(running)
        /\ ToSet(waiting) \cap InFlight = {} /\ ToSet(prefilling) \cap ToSet(running) = {}
    BY DEF IInv, TypeOK, NoDuplicates
  <2>. DEFINE wp == waiting \o prefilling
  <2>2. wp \in Seq(Req) /\ ToSet(wp) = ToSet(waiting) \cup ToSet(prefilling) /\ IsInjective(wp)
    BY <2>1, Joined DEF InFlight
  <2>. HIDE DEF wp
  <2>3. IsInjective(wp \o running)
    <3>1. ToSet(wp) \cap ToSet(running) = {}
      BY <2>1, <2>2 DEF InFlight
    <3>. QED  BY <2>1, <2>2, <3>1, Joined
  <2>4. ToSet(waiting \o prefilling \o running) = ToSet(waiting) \cup InFlight
    BY AllLists DEF IInv
  <2>5. /\ \A r \in ToSet(waiting) \cup InFlight : status[r] # "finished"
        /\ \A r \in ToSet(waiting) : status[r] = "waiting" /\ ~ kv[r]
    BY DEF IInv, StatusInv, Alive
  <2>. QED  BY <2>3, <2>4, <2>5 DEF wp
<1>. QED  BY <1>1, Invariant, PTL

-----------------------------------------------------------------------------
(* The order of the queue *)

\* Where r is in an order of arrival, lists whose requests from S follow it, and
\* requests that are all ahead of others.
PositionIn(arr, r) == CHOOSE i \in 1 .. Len(arr) : arr[i] = r
InOrder(arr, s, S) ==
    \A i, j \in 1 .. Len(s) :
        i < j /\ s[i] \in S /\ s[j] \in S => PositionIn(arr, s[i]) < PositionIn(arr, s[j])
Ahead(arr, S, T) == \A r \in S : \A s \in T : PositionIn(arr, r) < PositionIn(arr, s)

\* An arrival moves nobody and is behind all others.
LEMMA ArrivalAppended ==
    ASSUME NEW arr \in Seq(Req), IsInjective(arr), NEW r \in Req, r \notin ToSet(arr)
    PROVE  LET new == Append(arr, r)
           IN  /\ \A x \in ToSet(arr) : /\ PositionIn(new, x) = PositionIn(arr, x)
                                        /\ PositionIn(new, x) < PositionIn(new, r)
<1>. DEFINE new == Append(arr, r)
            n == Len(arr)
<1>1. /\ n \in Nat /\ DOMAIN arr = 1 .. n /\ Len(new) = n + 1 /\ new[n + 1] = r
      /\ \A i \in 1 .. n : new[i] = arr[i]
  BY LenProperties, AppendProperties
<1>. HIDE DEF new, n
<1>2. \A i \in 1 .. n + 1 : i \in 1 .. n \/ i = n + 1
  BY <1>1
<1>3. PositionIn(new, r) = n + 1
  <2>1. \A i \in 1 .. n + 1 : new[i] = r <=> i = n + 1
    BY <1>1, <1>2 DEF ToSet
  <2>2. n + 1 \in 1 .. n + 1
    BY <1>1
  <2>. QED  BY <1>1, <2>1, <2>2 DEF PositionIn
<1>4. ASSUME NEW x \in ToSet(arr)
      PROVE  PositionIn(new, x) = PositionIn(arr, x) /\ PositionIn(new, x) \in 1 .. n
  <2>1. PICK k \in 1 .. n : arr[k] = x
    BY <1>1 DEF ToSet
  <2>2. \A i \in 1 .. n : arr[i] = x <=> i = k
    BY <1>1, <2>1 DEF IsInjective
  <2>3. k \in 1 .. n + 1 /\ \A i \in 1 .. n + 1 : new[i] = x <=> i = k
    BY <1>1, <1>2, <2>1, <2>2
  <2>4. PositionIn(arr, x) = k
    BY <2>1, <2>2 DEF PositionIn, n
  <2>5. PositionIn(new, x) = k
    BY <1>1, <2>3 DEF PositionIn
  <2>. QED  BY <2>4, <2>5
<1>5. \A i \in 1 .. n : i < n + 1
  BY <1>1
<1>. QED  BY <1>3, <1>4, <1>5 DEF new

\* A part of a list in order.
LEMMA PartInOrder ==
    ASSUME NEW arr, NEW S, NEW s \in Seq(Req), InOrder(arr, s, S),
           NEW m \in Nat \ {0}, NEW n \in Int, n <= Len(s)
    PROVE  InOrder(arr, SubSeq(s, m, n), S)
<1>. DEFINE p == SubSeq(s, m, n)
<1>1. /\ Len(s) \in Nat /\ DOMAIN s = 1 .. Len(s)
      /\ \A i \in m .. n : i \in 1 .. Len(s) /\ s[i] \in Req
  BY LenProperties, ElementOfSeq
<1>2. /\ Len(p) = IF m <= n THEN n - m + 1 ELSE 0
      /\ \A i \in 1 .. n - m + 1 : p[i] = s[m + i - 1]
  BY <1>1, SubSeqProperties
<1>. HIDE DEF p
<1>3. 1 .. Len(p) = 1 .. n - m + 1
  BY <1>2
<1>4. \A i \in 1 .. n - m + 1 : m + i - 1 \in 1 .. Len(s)
  BY <1>1
<1>5. \A i, j \in 1 .. n - m + 1 : i < j => m + i - 1 < m + j - 1
  OBVIOUS
<1>. QED  BY <1>2, <1>3, <1>4, <1>5 DEF InOrder, p

\* A list in order behind another.
LEMMA JoinedInOrder ==
    ASSUME NEW arr, NEW S, NEW s \in Seq(Req), NEW t \in Seq(Req),
           InOrder(arr, s, S), InOrder(arr, t, S), Ahead(arr, ToSet(s) \cap S, ToSet(t) \cap S)
    PROVE  InOrder(arr, s \o t, S)
<1>. DEFINE st == s \o t
<1>1. /\ Len(s) \in Nat /\ Len(t) \in Nat /\ DOMAIN s = 1 .. Len(s) /\ DOMAIN t = 1 .. Len(t)
      /\ Len(st) = Len(s) + Len(t)
      /\ \A i \in 1 .. Len(s) : st[i] = s[i]
      /\ \A i \in Len(s) + 1 .. Len(s) + Len(t) : st[i] = t[i - Len(s)]
  BY LenProperties, ConcatProperties
<1>. HIDE DEF st
<1>2. SUFFICES ASSUME NEW i \in 1 .. Len(st), NEW j \in 1 .. Len(st), i < j, st[i] \in S, st[j] \in S
               PROVE  PositionIn(arr, st[i]) < PositionIn(arr, st[j])
  BY DEF InOrder, st
<1>3. \A k \in 1 .. Len(st) : \/ k \in 1 .. Len(s)
                              \/ k \in Len(s) + 1 .. Len(s) + Len(t) /\ k - Len(s) \in 1 .. Len(t)
  BY <1>1
<1>4. CASE i \in 1 .. Len(s) /\ j \in 1 .. Len(s)
  BY <1>1, <1>2, <1>4 DEF InOrder
<1>5. CASE i \in 1 .. Len(s) /\ j \in Len(s) + 1 .. Len(s) + Len(t)
  <2>1. st[i] \in ToSet(s) /\ st[j] \in ToSet(t)
    <3>1. st[i] = s[i] /\ i \in DOMAIN s
      BY <1>1, <1>5
    <3>2. j - Len(s) \in DOMAIN t /\ st[j] = t[j - Len(s)]
      BY <1>1, <1>5
    <3>. QED  BY <3>1, <3>2 DEF ToSet
  <2>. QED  BY <1>2, <2>1 DEF Ahead
<1>6. CASE i \in Len(s) + 1 .. Len(s) + Len(t)
  <2>1. j \in Len(s) + 1 .. Len(s) + Len(t) /\ i - Len(s) < j - Len(s)
    BY <1>1, <1>2, <1>3, <1>6
  <2>2. i - Len(s) \in 1 .. Len(t) /\ j - Len(s) \in 1 .. Len(t)
    BY <1>1, <1>6, <2>1
  <2>. QED  BY <1>1, <1>2, <1>6, <2>1, <2>2 DEF InOrder
<1>. QED  BY <1>3, <1>4, <1>5, <1>6

\* A list in order divided: what is taken first is ahead of the rest.
LEMMA DividedInOrder ==
    ASSUME NEW arr, NEW S, NEW s \in Seq(Req), InOrder(arr, s, S), NEW k \in 0 .. Len(s)
    PROVE  LET a == SubSeq(s, 1, k)
               b == SubSeq(s, k + 1, Len(s))
           IN  InOrder(arr, a, S) /\ InOrder(arr, b, S) /\ Ahead(arr, ToSet(a) \cap S, ToSet(b) \cap S)
<1>. DEFINE a == SubSeq(s, 1, k)
            b == SubSeq(s, k + 1, Len(s))
<1>1. Len(s) \in Nat /\ k + 1 \in Nat \ {0} /\ k \in Int /\ Len(s) \in Int /\ k <= Len(s)
  BY LenProperties
<1>2. InOrder(arr, a, S) /\ InOrder(arr, b, S)
  BY <1>1, PartInOrder
<1>3. ToSet(a) = {s[i] : i \in 1 .. k} /\ ToSet(b) = {s[i] : i \in k + 1 .. Len(s)}
  BY <1>1, PartOfList
<1>. HIDE DEF a, b
<1>4. \A i \in 1 .. k : \A j \in k + 1 .. Len(s) : i \in 1 .. Len(s) /\ j \in 1 .. Len(s) /\ i < j
  BY <1>1
<1>5. Ahead(arr, ToSet(a) \cap S, ToSet(b) \cap S)
  BY <1>3, <1>4 DEF Ahead, InOrder
<1>. QED  BY <1>2, <1>5 DEF a, b

\* The head is ahead of the tail.
LEMMA TailInOrder ==
    ASSUME NEW arr, NEW S, NEW s \in Seq(Req), s # << >>, InOrder(arr, s, S)
    PROVE  InOrder(arr, Tail(s), S) /\ Ahead(arr, {Head(s)} \cap S, ToSet(Tail(s)) \cap S)
<1>1. /\ Tail(s) = SubSeq(s, 2, Len(s)) /\ Len(s) \in Nat \ {0} /\ Head(s) = s[1]
  BY HeadTailProperties, TailIsSubSeq, LenProperties, EmptySeq
<1>. DEFINE n == Len(s)
<1>2. n \in Int /\ n <= Len(s) /\ 2 \in Nat \ {0} /\ 1 \in 1 .. n
  BY <1>1
<1>3. \A i \in 2 .. n : i \in 1 .. n /\ 1 < i
  BY <1>2
<1>4. InOrder(arr, SubSeq(s, 2, n), S) /\ ToSet(SubSeq(s, 2, n)) = {s[i] : i \in 2 .. n}
  <2>. HIDE DEF n
  <2>. QED  BY <1>2, PartInOrder, PartOfList
<1>5. Ahead(arr, {s[1]} \cap S, {s[i] : i \in 2 .. n} \cap S)
  BY <1>2, <1>3 DEF Ahead, InOrder
<1>. QED  BY <1>1, <1>4, <1>5

\* A request behind all others is appended.
LEMMA AppendedInOrder ==
    ASSUME NEW arr, NEW S, NEW s \in Seq(Req), InOrder(arr, s, S), NEW r \in Req,
           Ahead(arr, ToSet(s) \cap S, {r} \cap S)
    PROVE  InOrder(arr, Append(s, r), S)
<1>1. Append(s, r) = s \o <<r>>
  BY AppendIsConcat
<1>. DEFINE t == <<r>>
<1>2. t \in Seq(Req) /\ ToSet(t) = {r}
  BY ShortLists
<1>3. InOrder(arr, t, S)
  BY DEF InOrder
<1>. HIDE DEF t
<1>4. InOrder(arr, s \o t, S)
  BY <1>2, <1>3, JoinedInOrder
<1>. QED  BY <1>1, <1>4 DEF t

\* A list with nobody from S.
LEMMA NoneInOrder ==
    ASSUME NEW arr, NEW s \in Seq(Req), NEW S, ToSet(s) \cap S = {}
    PROVE  InOrder(arr, s, S)
<1>1. \A i \in 1 .. Len(s) : s[i] \in ToSet(s)
  BY LenProperties DEF ToSet
<1>. QED  BY <1>1 DEF InOrder

\* The requests the engine has not begun, and those it refuses in this batch.
Fresh == {r \in Req : ~ kv[r]}
Refused == {r \in Req : result[r] = "retract"}

\* Only requests that have no KV yet go back to the queue.  They are admitted, and
\* gone through, in the order of their arrival and before what still waits; a
\* request that has KV may stay in prefilling behind them.
OrderInv ==
    /\ IsInjective(arrivals)
    /\ ToSet(waiting) \cup ToSet(prefilling) \subseteq ToSet(arrivals)
    /\ \A r \in Req : status[r] = "new" => r \notin ToSet(arrivals)
    /\ InOrder(arrivals, waiting, Req)
    /\ pc \notin {"prefill batch", "prefilled", "abort", "died"} =>
          \A r \in ToSet(prefilling) : kv[r]
    /\ pc = "prefill batch" =>
          /\ InOrder(arrivals, prefilling, Fresh)
          /\ Ahead(arrivals, ToSet(prefilling) \cap Fresh, ToSet(waiting))
    /\ pc = "prefilled" =>
          /\ InOrder(arrivals, todo, Refused)
          /\ InOrder(arrivals, retracted, Req)
          /\ Ahead(arrivals, ToSet(retracted), ToSet(todo) \cap Refused)
          /\ Ahead(arrivals, ToSet(retracted) \cup (ToSet(todo) \cap Refused), ToSet(waiting))
          /\ \A r \in ToSet(todo) \ Refused : kv[r]
          /\ \A r \in ToSet(keep) : kv[r]

\* A step that ends outside the prefill phase, adds nobody to prefilling and only
\* takes from the queue.
LEMMA OrderKept ==
    ASSUME OrderInv, arrivals' = arrivals, pc' \notin {"prefill batch", "prefilled"},
           \A r \in Req : status'[r] = "new" => status[r] = "new",
           InOrder(arrivals, waiting', Req), ToSet(waiting') \subseteq ToSet(waiting),
           ToSet(prefilling') \subseteq ToSet(prefilling),
           pc' \notin {"abort", "died"} => \A r \in ToSet(prefilling') : kv'[r]
    PROVE  OrderInv'
BY DEF OrderInv

\* The queue grows by the request that came last.
LEMMA AddRequestOrder ==
    ASSUME IInv, OrderInv, NEW r \in Req, AddRequest(r)
    PROVE  OrderInv'
<1>1. /\ arrivals \in Seq(Req) /\ IsInjective(arrivals) /\ r \notin ToSet(arrivals)
      /\ waiting \in Seq(Req) /\ waiting' = Append(waiting, r)
      /\ arrivals' = Append(arrivals, r)
      /\ UNCHANGED <<prefilling, pc, todo, keep, retracted, kv, result>>
  BY DEF AddRequest, local, IInv, TypeOK, OrderInv
<1>2. /\ IsInjective(arrivals') /\ ToSet(arrivals') = ToSet(arrivals) \cup {r}
      /\ ToSet(waiting') = ToSet(waiting) \cup {r}
  BY <1>1, Appended
<1>3. \A x \in ToSet(arrivals) : /\ PositionIn(arrivals', x) = PositionIn(arrivals, x)
                                 /\ PositionIn(arrivals', x) < PositionIn(arrivals', r)
  BY <1>1, ArrivalAppended
<1>4. ASSUME NEW s \in Seq(Req), NEW S, InOrder(arrivals, s, S), ToSet(s) \subseteq ToSet(arrivals)
      PROVE  InOrder(arrivals', s, S)
  <2>1. \A i \in 1 .. Len(s) : s[i] \in ToSet(arrivals)
    BY <1>4, LenProperties DEF ToSet
  <2>. QED  BY <1>3, <1>4, <2>1 DEF InOrder
<1>5. ASSUME NEW S \in SUBSET ToSet(arrivals), NEW T \in SUBSET ToSet(arrivals),
             Ahead(arrivals, S, T)
      PROVE  Ahead(arrivals', S, T) /\ Ahead(arrivals', S, T \cup {r})
  BY <1>3, <1>5 DEF Ahead
<1>6. /\ ToSet(waiting) \subseteq ToSet(arrivals) /\ ToSet(prefilling) \subseteq ToSet(arrivals)
      /\ prefilling \in Seq(Req) /\ todo \in Seq(Req) /\ retracted \in Seq(Req)
  BY DEF OrderInv, IInv, TypeOK
<1>7. InOrder(arrivals', waiting', Req)
  <2>1. InOrder(arrivals', waiting, Req)
    BY <1>1, <1>4, <1>6 DEF OrderInv
  <2>2. Ahead(arrivals', ToSet(waiting) \cap Req, {r} \cap Req)
    BY <1>3, <1>6 DEF Ahead
  <2>. QED  BY <1>1, <2>1, <2>2, AppendedInOrder
<1>8. \A x \in Req : status'[x] = "new" => x \notin ToSet(arrivals')
  <2>1. /\ status' = [status EXCEPT ![r] = "waiting"]
        /\ status \in [Req -> {"new", "waiting", "running", "finished"}]
    BY DEF AddRequest, IInv, TypeOK
  <2>. QED  BY <1>2, <2>1 DEF OrderInv
<1>9. ASSUME pc = "prefill batch"
      PROVE  /\ InOrder(arrivals', prefilling, Fresh)
             /\ Ahead(arrivals', ToSet(prefilling) \cap Fresh, ToSet(waiting'))
  BY <1>2, <1>4, <1>5, <1>6, <1>9 DEF OrderInv
<1>10. ASSUME pc = "prefilled"
       PROVE  /\ InOrder(arrivals', todo, Refused) /\ InOrder(arrivals', retracted, Req)
              /\ Ahead(arrivals', ToSet(retracted), ToSet(todo) \cap Refused)
              /\ Ahead(arrivals', ToSet(retracted) \cup (ToSet(todo) \cap Refused),
                       ToSet(waiting'))
  <2>1. ToSet(todo) \subseteq ToSet(arrivals) /\ ToSet(retracted) \subseteq ToSet(arrivals)
    BY <1>6, <1>10 DEF IInv, PrefilledInv
  <2>2. /\ InOrder(arrivals, todo, Refused) /\ InOrder(arrivals, retracted, Req)
        /\ Ahead(arrivals, ToSet(retracted), ToSet(todo) \cap Refused)
        /\ Ahead(arrivals, ToSet(retracted) \cup (ToSet(todo) \cap Refused), ToSet(waiting))
    BY <1>10 DEF OrderInv
  <2>3. InOrder(arrivals', todo, Refused) /\ InOrder(arrivals', retracted, Req)
    BY <1>4, <1>6, <2>1, <2>2
  <2>4. Ahead(arrivals', ToSet(retracted), ToSet(todo) \cap Refused)
    BY <1>5, <2>1, <2>2
  <2>. DEFINE back == ToSet(retracted) \cup (ToSet(todo) \cap Refused)
  <2>5. back \in SUBSET ToSet(arrivals) /\ Ahead(arrivals, back, ToSet(waiting))
    BY <2>1, <2>2
  <2>. HIDE DEF back
  <2>6. Ahead(arrivals', back, ToSet(waiting'))
    BY <1>2, <1>5, <1>6, <2>5
  <2>. QED  BY <2>3, <2>4, <2>6 DEF back
<1>11. Fresh' = Fresh /\ Refused' = Refused
  BY <1>1 DEF Fresh, Refused
<1>. QED  BY <1>1, <1>2, <1>6, <1>7, <1>8, <1>9, <1>10, <1>11 DEF OrderInv

\* What is admitted is the head of the queue.
LEMMA BatchedAdmitOrder ==
    ASSUME IInv, OrderInv, BatchedAdmit
    PROVE  OrderInv'
<1>. DEFINE room == IF MaxRunning > Len(running) THEN MaxRunning - Len(running) ELSE 0
            k == Min({Len(waiting), room})
<1>1. /\ Len(waiting) \in Nat /\ room \in Nat /\ waiting \in Seq(Req)
      /\ InOrder(arrivals, waiting, Req)
  <2>1. Len(waiting) \in Nat /\ Len(running) \in Nat /\ waiting \in Seq(Req)
    BY LenProperties DEF IInv, TypeOK
  <2>2. MaxRunning \in Nat
    BY SchedulerAssumption
  <2>3. room \in Nat
    BY <2>1, <2>2
  <2>4. InOrder(arrivals, waiting, Req)
    BY DEF OrderInv
  <2>. QED  BY <2>1, <2>3, <2>4
<1>2. /\ waiting' = SubSeq(waiting, k + 1, Len(waiting)) /\ pc = "loop" /\ pc' = "prefill one"
      /\ UNCHANGED <<prefilling, arrivals, status, kv>>
  BY DEF BatchedAdmit, AtLoop, outside, outer
<1>. HIDE DEF room
<1>3. k \in 0 .. Len(waiting)
  BY <1>1 DEF Min
<1>. HIDE DEF k
<1>4. InOrder(arrivals, waiting', Req) /\ ToSet(waiting') \subseteq ToSet(waiting)
  <2>. DEFINE a == SubSeq(waiting, 1, k)
              b == SubSeq(waiting, k + 1, Len(waiting))
  <2>1. ToSet(waiting) = ToSet(a) \cup ToSet(b) /\ InOrder(arrivals, b, Req)
    BY <1>1, <1>3, Divided, DividedInOrder
  <2>. QED  BY <1>2, <2>1
<1>5. \A r \in ToSet(prefilling') : kv'[r]
  BY <1>2 DEF OrderInv
<1>. QED  BY <1>2, <1>4, <1>5, OrderKept

\* The steps outside the prefill phase, those that leave it and those that fail:
\* they take from the queue's head and from prefilling only.
LEMMA ShrinkingOrder ==
    ASSUME IInv, OrderInv,
           \/ ThreadEnd \/ PrefillAllDone \/ NothingToPrefill \/ NothingToDecode
           \/ AbortEnd \/ Decode \/ DecodedEnd
           \/ BaselineRaises \/ PrefillOneRaises \/ PrefillBatchRaises \/ DecodeRaises
           \/ StreamRaises
           \/ FirstCommitRaises \/ AbortRaises
           \/ BaselineStart \/ BaselineToken \/ AbortOne
           \/ PrefillOne \/ DecodedOne
    PROVE  OrderInv'
<1>. USE DEF outside, outer, lists, local
<1>1. /\ status \in [Req -> {"new", "waiting", "running", "finished"}] /\ kv \in [Req -> BOOLEAN]
      /\ waiting \in Seq(Req) /\ InOrder(arrivals, waiting, Req)
      /\ todo # << >> => Head(todo) \in Req
      /\ ToSet(prefilling) \subseteq Req /\ InFlight \subseteq Req
      /\ pc \notin {"prefill batch", "prefilled", "abort", "died"} =>
            \A r \in ToSet(prefilling) : kv[r]
  <2>1. todo \in Seq(Req)
    BY DEF IInv, TypeOK
  <2>2. todo # << >> => Head(todo) \in Req
    BY <2>1, HeadAndTail
  <2>3. ToSet(prefilling) \subseteq Req /\ InFlight \subseteq Req
    BY ListsOfRequests DEF IInv, InFlight
  <2>. QED  BY <2>2, <2>3 DEF IInv, TypeOK, OrderInv
<1>2. CASE \/ ThreadEnd \/ PrefillAllDone \/ NothingToPrefill \/ NothingToDecode
           \/ AbortEnd \/ Decode \/ DecodedEnd
  <2>1. /\ UNCHANGED <<waiting, prefilling, arrivals, status, kv>>
        /\ pc' \notin {"prefill batch", "prefilled"}
    BY <1>2 DEF ThreadEnd, PrefillAllDone, NothingToPrefill, NothingToDecode, AbortEnd,
       Decode, DecodedEnd
  <2>2. pc' \notin {"abort", "died"} => \A r \in ToSet(prefilling) : kv[r]
    <3>1. ToSet(<< >>) = {}
      BY ShortLists
    <3>2. CASE AbortEnd
      BY <3>1, <3>2 DEF AbortEnd, IInv, LoopsInv, InFlight
    <3>3. CASE NothingToPrefill
      BY <3>1, <3>3 DEF NothingToPrefill
    <3>4. CASE \/ ThreadEnd \/ PrefillAllDone \/ NothingToDecode \/ Decode \/ DecodedEnd
      BY <1>1, <3>4 DEF ThreadEnd, PrefillAllDone, NothingToDecode, Decode, DecodedEnd
    <3>. QED  BY <1>2, <3>2, <3>3, <3>4
  <2>. QED  BY <1>1, <2>1, <2>2, OrderKept
<1>3. CASE \/ BaselineRaises \/ PrefillOneRaises \/ PrefillBatchRaises \/ DecodeRaises
           \/ StreamRaises
  <2>1. UNCHANGED <<waiting, prefilling, arrivals>> /\ pc' = "abort"
    BY <1>3 DEF BaselineRaises, PrefillOneRaises, PrefillBatchRaises, DecodeRaises,
       StreamRaises, EngineRaisesAfterInit, StepFails, StepRaised
  <2>2. \A r \in Req : status'[r] = "new" => status[r] = "new"
    BY <1>1, <1>3 DEF BaselineRaises, PrefillOneRaises, PrefillBatchRaises, DecodeRaises,
       StreamRaises, EngineRaisesAfterInit
  <2>. QED  BY <1>1, <2>1, <2>2, OrderKept
<1>4. CASE BaselineStart
  <2>1. /\ waiting # << >> /\ waiting' = Tail(waiting) /\ pc = "loop" /\ pc' = "baseline"
        /\ status' = [status EXCEPT ![Head(waiting)] = "running"]
        /\ UNCHANGED <<prefilling, arrivals, kv>>
    BY <1>4 DEF BaselineStart, AtLoop
  <2>2. InOrder(arrivals, waiting', Req) /\ ToSet(waiting') \subseteq ToSet(waiting)
    <3>1. ToSet(waiting) = {Head(waiting)} \cup ToSet(Tail(waiting))
      BY <1>1, <2>1, HeadAndTail
    <3>2. InOrder(arrivals, Tail(waiting), Req)
      BY <1>1, <2>1, TailInOrder
    <3>. QED  BY <2>1, <3>1, <3>2
  <2>3. \A r \in Req : status'[r] = "new" => status[r] = "new"
    BY <1>1, <2>1
  <2>. QED  BY <1>1, <2>1, <2>2, <2>3, OrderKept
<1>5. CASE AbortOne
  <2>. DEFINE h == Head(todo)
              out == sent[h]
  <2>1. /\ FinishRequest(h, running, prefilling, out) /\ h \in Req
        /\ out \in Seq({"token", "finished"})
        /\ UNCHANGED <<waiting, arrivals>> /\ pc' = "abort"
    BY <1>1, <1>5 DEF AbortOne, IInv, TypeOK
  <2>. HIDE DEF h, out
  <2>2. /\ status' = [status EXCEPT ![h] = "finished"]
        /\ ToSet(prefilling') = ToSet(prefilling) \ {h}
    BY <2>1, FinishRequestFacts
  <2>. QED  BY <1>1, <2>1, <2>2, OrderKept
<1>6. CASE BaselineToken \/ PrefillOne \/ DecodedOne
  <2>. DEFINE h == Head(todo)
  <2>1. /\ h \in Req /\ UNCHANGED <<waiting, arrivals>>
        /\ pc \in {"baseline", "prefill one", "decoded"}
        /\ pc' \notin {"prefill batch", "prefilled", "abort"}
    BY <1>1, <1>6 DEF BaselineToken, PrefillOne, DecodedOne, IInv, LocalsInv
  <2>2. \/ Finishes(h)
        \/ /\ prefilling' = prefilling
           /\ \A r \in Req : (status'[r] = "new" => status[r] = "new") /\ (kv[r] => kv'[r])
    <3>1. CASE BaselineToken
      <4>. DEFINE go == UNCHANGED <<running, status, keep>> /\ kv' = [kv EXCEPT ![h] = TRUE]
      <4>1. /\ TakeToken(h, go)
            /\ go => status' = status /\ kv' = [kv EXCEPT ![h] = TRUE]
        BY <3>1 DEF BaselineToken
      <4>. HIDE DEF go, h
      <4>2. Finishes(h) \/ (go /\ prefilling' = prefilling)
        BY <2>1, <4>1, TakeTokenFacts
      <4>. QED  BY <1>1, <2>1, <4>1, <4>2
    <3>2. CASE PrefillOne
      <4>. DEFINE go == /\ running' = Append(running, h)
                        /\ status' = [status EXCEPT ![h] = "running"]
                        /\ kv' = [kv EXCEPT ![h] = TRUE]
                        /\ UNCHANGED keep
      <4>1. /\ TakeToken(h, go)
            /\ go => /\ status' = [status EXCEPT ![h] = "running"]
                     /\ kv' = [kv EXCEPT ![h] = TRUE]
        BY <3>2 DEF PrefillOne
      <4>. HIDE DEF go, h
      <4>2. Finishes(h) \/ (go /\ prefilling' = prefilling)
        BY <2>1, <4>1, TakeTokenFacts
      <4>. QED  BY <1>1, <2>1, <4>1, <4>2
    <3>3. CASE DecodedOne
      <4>. DEFINE go == keep' = Append(keep, h) /\ UNCHANGED <<running, status, kv>>
      <4>1. TakeToken(h, go) /\ (go => status' = status /\ kv' = kv)
        BY <3>3 DEF DecodedOne
      <4>. HIDE DEF go, h
      <4>2. Finishes(h) \/ (go /\ prefilling' = prefilling)
        BY <2>1, <4>1, TakeTokenFacts
      <4>. QED  BY <1>1, <2>1, <4>1, <4>2
    <3>. QED  BY <1>6, <3>1, <3>2, <3>3
  <2>. HIDE DEF h
  <2>3. /\ ToSet(prefilling') \subseteq ToSet(prefilling)
        /\ \A r \in Req : status'[r] = "new" => status[r] = "new"
        /\ \A r \in ToSet(prefilling') : kv'[r]
    <3>1. CASE Finishes(h)
      BY <1>1, <2>1, <3>1 DEF Finishes
    <3>2. CASE /\ prefilling' = prefilling
               /\ \A r \in Req : (status'[r] = "new" => status[r] = "new") /\ (kv[r] => kv'[r])
      BY <1>1, <2>1, <3>2
    <3>. QED  BY <2>2, <3>1, <3>2
  <2>. QED  BY <1>1, <2>1, <2>3, OrderKept
<1>7. CASE FirstCommitRaises \/ AbortRaises
  <2>. DEFINE h == Head(todo)
  <2>1. /\ h \in Req /\ UNCHANGED <<waiting, arrivals>> /\ pc' \in {"abort", "died"}
        /\ running' = RemoveFirst(running, h) /\ prefilling' = RemoveFirst(prefilling, h)
        /\ status' = [status EXCEPT ![h] = "finished"]
    BY <1>1, <1>7 DEF FirstCommitRaises, AbortRaises, StepRaised
  <2>. HIDE DEF h
  <2>2. ToSet(prefilling') = ToSet(prefilling) \ {h}
    BY <2>1, LeavesLists
  <2>. QED  BY <1>1, <2>1, <2>2, OrderKept
<1>. QED  BY <1>2, <1>3, <1>4, <1>5, <1>6, <1>7

\* Admitted requests come from the head of the queue and have no KV; the others in
\* prefilling have theirs.
LEMMA PagedAdmitOrder ==
    ASSUME IInv, OrderInv, PagedAdmit
    PROVE  OrderInv'
<1>1. /\ waiting \in Seq(Req) /\ prefilling \in Seq(Req)
      /\ status \in [Req -> {"new", "waiting", "running", "finished"}]
      /\ InOrder(arrivals, waiting, Req)
      /\ pc = "loop" /\ pc' = "prefill batch" /\ arrivals' = arrivals /\ kv' = kv
      /\ \A r \in ToSet(prefilling) : kv[r]
  BY DEF PagedAdmit, AtLoop, outside, outer, IInv, TypeOK, OrderInv
<1>2. PICK k \in 0 .. Len(waiting) :
         /\ prefilling' = prefilling \o SubSeq(waiting, 1, k)
         /\ waiting' = SubSeq(waiting, k + 1, Len(waiting))
         /\ status' = [r \in Req |-> IF r \in ToSet(SubSeq(waiting, 1, k)) THEN "running"
                                                                          ELSE status[r]]
  BY DEF PagedAdmit
<1>. DEFINE a == SubSeq(waiting, 1, k)
            b == SubSeq(waiting, k + 1, Len(waiting))
<1>3. /\ a \in Seq(Req) /\ ToSet(waiting) = ToSet(a) \cup ToSet(b)
      /\ InOrder(arrivals, b, Req) /\ Ahead(arrivals, ToSet(a) \cap Req, ToSet(b) \cap Req)
      /\ InOrder(arrivals, a, Req)
  BY <1>1, Divided, DividedInOrder
<1>4. prefilling' = prefilling \o a /\ waiting' = b
  BY <1>2
<1>5. \A r \in Req : status'[r] = "new" => status[r] = "new"
  BY <1>1, <1>2
<1>. HIDE DEF a, b
<1>6. ToSet(waiting) \subseteq Req /\ ToSet(prefilling) \cap Fresh = {} /\ Fresh \subseteq Req
  BY <1>1, ListsOfRequests DEF IInv, Fresh
<1>7. ToSet(prefilling') = ToSet(prefilling) \cup ToSet(a)
  <2>1. prefilling \in Seq(Req)
    BY <1>1 DEF IInv, TypeOK
  <2>2. ToSet(prefilling \o a) = ToSet(prefilling) \cup ToSet(a)
    BY <1>3, <2>1, Joined
  <2>. QED  BY <1>4, <2>2
<1>8. InOrder(arrivals, prefilling', Fresh)
  <2>1. InOrder(arrivals, prefilling, Fresh)
    BY <1>1, <1>6, NoneInOrder
  <2>2. InOrder(arrivals, a, Fresh)
    BY <1>3, <1>6 DEF InOrder
  <2>3. Ahead(arrivals, ToSet(prefilling) \cap Fresh, ToSet(a) \cap Fresh)
    BY <1>6 DEF Ahead
  <2>. QED  BY <1>1, <1>3, <1>4, <2>1, <2>2, <2>3, JoinedInOrder
<1>9. Ahead(arrivals, ToSet(prefilling') \cap Fresh, ToSet(waiting'))
  <2>1. ToSet(prefilling') \cap Fresh \subseteq ToSet(a) \cap Req /\ ToSet(b) \cap Req = ToSet(b)
    BY <1>3, <1>6, <1>7
  <2>. QED  BY <1>3, <1>4, <2>1 DEF Ahead
<1>10. Fresh' = Fresh
  BY <1>1 DEF Fresh
<1>. QED  BY <1>1, <1>3, <1>4, <1>5, <1>7, <1>8, <1>9, <1>10 DEF OrderInv

\* The engine refuses only requests it has not begun.
LEMMA PrefillBatchOrder ==
    ASSUME IInv, OrderInv, PrefillBatch
    PROVE  OrderInv'
<1>1. /\ todo' = prefilling /\ retracted' = << >> /\ keep' = << >>
      /\ UNCHANGED <<waiting, prefilling, arrivals, status>>
      /\ pc = "prefill batch" /\ pc' = "prefilled"
      /\ kv \in [Req -> BOOLEAN] /\ result \in [Req -> {"none", "token", "chunk", "retract"}]
      /\ prefilling \in Seq(Req)
  BY DEF PrefillBatch, lists, outside, outer, IInv, LocalsInv, TypeOK
<1>2. PICK failed \in SUBSET {r \in ToSet(prefilling) : ~ kv[r]} :
         /\ kv' = [r \in Req |-> kv[r] \/ r \in ToSet(prefilling) \ failed]
         /\ result' = [r \in Req |-> IF r \in failed THEN "retract"
                                    ELSE IF left'[r] > 0 THEN "chunk" ELSE "token"]
  BY DEF PrefillBatch
<1>3. ToSet(prefilling) \subseteq Req
  BY ListsOfRequests DEF IInv
<1>4. /\ Refused' = failed /\ failed \subseteq ToSet(prefilling) \cap Fresh
      /\ \A r \in ToSet(todo') \ Refused' : kv'[r]
  <2>1. failed \subseteq ToSet(prefilling) \cap Fresh
    BY <1>2, <1>3 DEF Fresh
  <2>2. Refused' = failed
    BY <1>2, <1>3, <2>1 DEF Refused
  <2>. QED  BY <1>1, <1>2, <1>3, <2>1, <2>2
<1>5. ToSet(<< >>) = {} /\ InOrder(arrivals, << >>, Req)
  BY ShortLists DEF InOrder
<1>6. InOrder(arrivals, todo', Refused')
  BY <1>1, <1>4 DEF InOrder, OrderInv
<1>7. /\ Ahead(arrivals, ToSet(retracted'), ToSet(todo') \cap Refused')
      /\ Ahead(arrivals, ToSet(retracted') \cup (ToSet(todo') \cap Refused'), ToSet(waiting'))
  BY <1>1, <1>4, <1>5 DEF Ahead, OrderInv
<1>. QED  BY <1>1, <1>4, <1>5, <1>6, <1>7 DEF OrderInv

\* A refused request is put behind those refused before it; a request that goes on
\* with its prefill has its KV.
LEMMA PrefilledOneOrder ==
    ASSUME IInv, OrderInv, PrefilledOne
    PROVE  OrderInv'
<1>. DEFINE h == Head(todo)
<1>1. /\ pc = "prefilled" /\ todo # << >> /\ todo \in Seq(Req) /\ todo' = Tail(todo)
      /\ retracted \in Seq(Req) /\ keep \in Seq(Req) /\ IsInjective(todo)
      /\ status \in [Req -> {"new", "waiting", "running", "finished"}] /\ kv \in [Req -> BOOLEAN]
      /\ UNCHANGED <<waiting, arrivals, pc, result>>
  BY DEF PrefilledOne, outside, outer, IInv, TypeOK, NoDuplicates
<1>2. /\ h \in Req /\ ToSet(todo) = {h} \cup ToSet(todo') /\ h \notin ToSet(todo')
      /\ ToSet(todo) \subseteq Req /\ ToSet(keep) \subseteq Req /\ h \notin ToSet(keep)
  <2>1. /\ h \in Req /\ ToSet(todo) = {h} \cup ToSet(todo') /\ h \notin ToSet(todo')
    BY <1>1, HeadAndTail
  <2>2. ToSet(todo) \cap ToSet(keep) = {}
    BY <1>1 DEF IInv, PrefilledInv
  <2>. QED  BY <2>1, <2>2, ListsOfRequests DEF IInv
<1>3. /\ InOrder(arrivals, todo, Refused) /\ InOrder(arrivals, retracted, Req)
      /\ Ahead(arrivals, ToSet(retracted), ToSet(todo) \cap Refused)
      /\ Ahead(arrivals, ToSet(retracted) \cup (ToSet(todo) \cap Refused), ToSet(waiting))
      /\ \A r \in ToSet(todo) \ Refused : kv[r]
      /\ \A r \in ToSet(keep) : kv[r]
  BY <1>1 DEF OrderInv
<1>4. /\ InOrder(arrivals, todo', Refused)
      /\ Ahead(arrivals, {h} \cap Refused, ToSet(todo') \cap Refused)
  BY <1>1, <1>3, TailInOrder
<1>5. RetractOne(h) \/ ChunkOne(h) \/ FirstToken(h)
  BY DEF PrefilledOne
<1>. HIDE DEF h
<1>6. Refused' = Refused
  BY <1>1 DEF Refused
<1>7. CASE RetractOne(h)
  <2>1. /\ status' = [status EXCEPT ![h] = "waiting"] /\ retracted' = Append(retracted, h)
        /\ h \in Refused /\ UNCHANGED <<keep, prefilling, kv>>
    BY <1>2, <1>7 DEF RetractOne, Refused
  <2>2. ToSet(retracted') = ToSet(retracted) \cup {h}
    BY <1>1, <1>2, <2>1, Appended
  <2>3. InOrder(arrivals, retracted', Req)
    <3>1. Ahead(arrivals, ToSet(retracted) \cap Req, {h} \cap Req)
      BY <1>2, <1>3, <2>1 DEF Ahead
    <3>. QED  BY <1>1, <1>2, <1>3, <2>1, <3>1, AppendedInOrder
  <2>4. Ahead(arrivals, ToSet(retracted'), ToSet(todo') \cap Refused)
    BY <1>2, <1>3, <1>4, <2>1, <2>2 DEF Ahead
  <2>5. Ahead(arrivals, ToSet(retracted') \cup (ToSet(todo') \cap Refused), ToSet(waiting))
    BY <1>2, <1>3, <2>1, <2>2 DEF Ahead
  <2>6. \A r \in Req : status'[r] = "new" => status[r] = "new"
    BY <1>1, <2>1
  <2>. QED  BY <1>1, <1>2, <1>3, <1>4, <1>6, <2>1, <2>3, <2>4, <2>5, <2>6 DEF OrderInv
<1>8. CASE ChunkOne(h) \/ FirstToken(h)
  <2>1. h \notin Refused /\ retracted' = retracted
    BY <1>8 DEF ChunkOne, FirstToken, Refused
  <2>2. /\ ToSet(prefilling') \subseteq ToSet(prefilling)
        /\ \A r \in Req : /\ status'[r] = "new" => status[r] = "new"
                          /\ r # h => kv'[r] = kv[r]
        /\ \A r \in ToSet(keep') : kv'[r]
    <3>1. CASE ChunkOne(h)
      <4>1. keep' = Append(keep, h) /\ UNCHANGED <<prefilling, status, kv>>
        BY <3>1 DEF ChunkOne
      <4>2. ToSet(keep') = ToSet(keep) \cup {h}
        BY <1>1, <1>2, <4>1, Appended
      <4>3. kv[h]
        BY <1>2, <1>3, <2>1
      <4>. QED  BY <1>3, <4>1, <4>2, <4>3
    <3>2. CASE FirstToken(h)
      <4>. DEFINE go == running' = Append(running, h) /\ UNCHANGED <<status, kv, keep>>
      <4>1. TakeToken(h, go) /\ (go => UNCHANGED <<status, kv, keep>>)
        BY <3>2 DEF FirstToken
      <4>. HIDE DEF go
      <4>2. Finishes(h) \/ (go /\ prefilling' = prefilling)
        BY <1>2, <4>1, TakeTokenFacts
      <4>3. CASE Finishes(h)
        BY <1>1, <1>2, <1>3, <4>3 DEF Finishes
      <4>4. CASE go /\ prefilling' = prefilling
        BY <1>3, <4>1, <4>4
      <4>. QED  BY <4>2, <4>3, <4>4
    <3>. QED  BY <1>8, <3>1, <3>2
  <2>3. \A r \in ToSet(todo') \ Refused : kv'[r]
    BY <1>2, <1>3, <2>2
  <2>4. /\ Ahead(arrivals, ToSet(retracted), ToSet(todo') \cap Refused)
        /\ Ahead(arrivals, ToSet(retracted) \cup (ToSet(todo') \cap Refused), ToSet(waiting))
    BY <1>2, <1>3 DEF Ahead
  <2>. QED  BY <1>1, <1>3, <1>4, <1>6, <2>1, <2>2, <2>3, <2>4 DEF OrderInv
<1>. QED  BY <1>5, <1>7, <1>8

\* What is put back at the front of the queue came before what waits there.
LEMMA PrefilledEndOrder ==
    ASSUME IInv, OrderInv, PrefilledEnd
    PROVE  OrderInv'
<1>1. /\ pc = "prefilled" /\ pc' = "decode" /\ prefilling' = keep
      /\ waiting' = retracted \o waiting /\ UNCHANGED <<arrivals, status, kv>>
      /\ retracted \in Seq(Req) /\ waiting \in Seq(Req)
  BY DEF PrefilledEnd, outside, outer, IInv, TypeOK
<1>2. ToSet(keep) \cup ToSet(retracted) \subseteq ToSet(prefilling)
  BY <1>1 DEF IInv, PrefilledInv
<1>3. /\ InOrder(arrivals, retracted, Req) /\ InOrder(arrivals, waiting, Req)
      /\ Ahead(arrivals, ToSet(retracted) \cap Req, ToSet(waiting) \cap Req)
      /\ \A r \in ToSet(keep) : kv[r]
  BY <1>1 DEF OrderInv, Ahead
<1>4. ToSet(waiting') = ToSet(retracted) \cup ToSet(waiting) /\ InOrder(arrivals, waiting', Req)
  BY <1>1, <1>3, Joined, JoinedInOrder
<1>. QED  BY <1>1, <1>2, <1>3, <1>4 DEF OrderInv

\* A stop leaves the lists as they are.
LEMMA StutterOrder ==
    ASSUME OrderInv, Stop \/ UNCHANGED vars
    PROVE  OrderInv'
<1>1. UNCHANGED <<arrivals, waiting, prefilling, todo, keep, retracted, status, kv, result, pc>>
  BY DEF Stop, lists, local, vars
<1>. QED  BY <1>1 DEF OrderInv, Fresh, Refused

\* The invariant of the order holds in every state.
LEMMA OrderInvariant == Spec => []OrderInv
<1>1. Init => OrderInv
  <2>1. ToSet(<< >>) = {} /\ IsInjective(<< >>)
    BY ShortLists
  <2>. QED  BY <2>1 DEF Init, OrderInv, InOrder
<1>2. IInv /\ OrderInv /\ [Next]_vars => OrderInv'
  <2>. SUFFICES ASSUME IInv, OrderInv, [Next]_vars PROVE OrderInv'
    OBVIOUS
  <2>1. ASSUME NEW r \in Req, AddRequest(r) PROVE OrderInv'
    BY <2>1, AddRequestOrder
  <2>2. CASE Stop \/ UNCHANGED vars
    BY <2>2, StutterOrder
  <2>3. CASE \/ ThreadEnd \/ PrefillAllDone \/ NothingToPrefill \/ NothingToDecode
             \/ AbortEnd \/ Decode \/ DecodedEnd
             \/ BaselineRaises \/ PrefillOneRaises \/ PrefillBatchRaises \/ DecodeRaises
             \/ StreamRaises
             \/ FirstCommitRaises \/ AbortRaises
             \/ BaselineStart \/ BaselineToken \/ AbortOne
             \/ PrefillOne \/ DecodedOne
    BY <2>3, ShrinkingOrder
  <2>4. CASE BatchedAdmit \/ PagedAdmit
    BY <2>4, BatchedAdmitOrder, PagedAdmitOrder
  <2>5. CASE PrefillBatch \/ PrefilledOne \/ PrefilledEnd
    BY <2>5, PrefillBatchOrder, PrefilledOneOrder, PrefilledEndOrder
  <2>. QED  BY <2>1, <2>2, <2>3, <2>4, <2>5 DEF Next, SchedulerStep
<1>. QED  BY <1>1, <1>2, Invariant, PTL DEF Spec

\* The queue stays in the order of arrival through every admission and retract: what
\* the engine refuses goes back to the front with appendleft, behind nothing that
\* came later, whichever requests of a batch are refused.
THEOREM QueueStaysInOrder == Spec => []QueueInArrivalOrder
<1>1. IInv /\ OrderInv => QueueInArrivalOrder
  <2>. SUFFICES ASSUME IInv, OrderInv PROVE QueueInArrivalOrder
    OBVIOUS
  <2>1. \A i \in 1 .. Len(waiting) : waiting[i] \in Req
    BY ElementOfSeq DEF IInv, TypeOK
  <2>. QED  BY <2>1 DEF OrderInv, InOrder, QueueInArrivalOrder, Position, PositionIn
<1>. QED  BY <1>1, Invariant, OrderInvariant, PTL

-----------------------------------------------------------------------------
(* The stream of a request *)

\* What a queue holds is tokens, n of them, and then finish markers.
Streams(s, n) == n <= Len(s) /\ \A i \in 1 .. Len(s) : s[i] = "token" <=> i <= n

\* The tokens of such a queue are counted right, whatever is put on it next.
LEMMA StreamsFacts ==
    ASSUME NEW s \in Seq({"token", "finished"}), NEW n \in Nat, Streams(s, n)
    PROVE  /\ n \in Nat /\ Len(s) \in Nat
           /\ Cardinality({i \in DOMAIN s : s[i] = "token"}) = n
           /\ "finished" \in ToSet(s) <=> Len(s) > n
           /\ Len(Append(s, "token")) = Len(s) + 1
           /\ Len(s) = n => Streams(Append(s, "token"), n + 1)
           /\ s \o <<"finished">> \in Seq({"token", "finished"})
           /\ Len(s \o <<"finished">>) = Len(s) + 1 /\ Streams(s \o <<"finished">>, n)
<1>1. /\ Len(s) \in Nat /\ DOMAIN s = 1 .. Len(s) /\ n \in Nat /\ n <= Len(s)
      /\ \A i \in 1 .. Len(s) : s[i] \in {"token", "finished"}
  BY LenProperties, ElementOfSeq DEF Streams
<1>2. Cardinality({i \in DOMAIN s : s[i] = "token"}) = n
  <2>1. {i \in DOMAIN s : s[i] = "token"} = 1 .. n
    BY <1>1 DEF Streams
  <2>2. Cardinality(1 .. n) = n
    BY <1>1, FS_Interval
  <2>. QED  BY <2>1, <2>2
<1>3. "finished" \in ToSet(s) <=> Len(s) > n
  <2>1. ASSUME "finished" \in ToSet(s) PROVE Len(s) > n
    BY <1>1, <2>1 DEF ToSet, Streams
  <2>2. ASSUME Len(s) > n PROVE "finished" \in ToSet(s)
    <3>1. Len(s) \in 1 .. Len(s) /\ s[Len(s)] # "token"
      BY <1>1, <2>2 DEF Streams
    <3>. QED  BY <1>1, <3>1 DEF ToSet
  <2>. QED  BY <2>1, <2>2
<1>4. /\ Len(Append(s, "token")) = Len(s) + 1
      /\ \A i \in 1 .. Len(s) : Append(s, "token")[i] = s[i]
      /\ Append(s, "token")[Len(s) + 1] = "token"
  BY AppendProperties
<1>5. ASSUME Len(s) = n PROVE Streams(Append(s, "token"), n + 1)
  BY <1>1, <1>4, <1>5 DEF Streams
<1>. DEFINE f == s \o <<"finished">>
<1>6. /\ f \in Seq({"token", "finished"}) /\ Len(f) = Len(s) + 1
      /\ \A i \in 1 .. Len(s) : f[i] = s[i]
      /\ f[Len(s) + 1] = "finished"
  <2>1. f = Append(s, "finished")
    BY AppendIsConcat
  <2>. QED  BY <2>1, AppendProperties
<1>. HIDE DEF f
<1>7. Streams(f, n)
  BY <1>1, <1>6 DEF Streams
<1>. QED  BY <1>1, <1>2, <1>3, <1>4, <1>5, <1>6, <1>7 DEF f

\* Every answer has room for a token.
LEMMA LongestType == Longest \in [Req -> Nat \ {0}]
BY SchedulerAssumption DEF Longest

\* A request whose commit may have raised, with its pages.
Keeps(r) == CommitMayRaise(r) /\ kv[r]

\* The requests a step may still take a token for: in the abort nobody in flight.
Served == ToSet(waiting)
            \cup (IF pc \in {"abort", "died"} THEN {} ELSE InFlight \cup ToSet(todo))

\* With the lists, what the streams need: a request that may get a token has room for
\* one, and the loop is in the abort only after a failure.
StreamInv ==
    /\ \A r \in Req : \E n \in 0 .. Len(sent[r]) :
          /\ Streams(sent[r], n)
          /\ Len(sent[r]) > n => status[r] = "finished"
          /\ status[r] = "finished" => Len(sent[r]) > n \/ Keeps(r)
          /\ status[r] = "new" => made[r] = 0
          /\ n <= made[r] /\ made[r] <= Longest[r]
          /\ failures = 0 => made[r] = n /\ Len(sent[r]) <= n + 1
    /\ \A r \in Served : made[r] < Longest[r]
    /\ pc = "abort" => failures # 0

\* What a step may do to the streams, to the counts and to the status.
Same(S) == \A r \in S : /\ status'[r] = "finished" <=> status[r] = "finished"
                        /\ status'[r] = "new" <=> status[r] = "new"
Quiet == /\ UNCHANGED <<sent, made>> /\ Same(Req)
         /\ failures' = failures \/ failures' # 0
         /\ Served' \subseteq Served
Added(r) == /\ status[r] = "new" /\ status' = [status EXCEPT ![r] = "waiting"]
            /\ UNCHANGED <<sent, made, failures>>
            /\ Served' \subseteq Served \cup {r}
TookLast(r) == /\ r \in Served /\ status[r] \notin {"new", "finished"}
               /\ status' = [status EXCEPT ![r] = "finished"]
               /\ made' = [made EXCEPT ![r] = @ + 1]
               /\ sent' = [sent EXCEPT ![r] = Append(@, "token") \o <<"finished">>]
               /\ failures' = failures /\ Served' \subseteq Served \ {r}
TookMore(r) == /\ r \in Served /\ status[r] \notin {"new", "finished"}
               /\ Same(Req)
               /\ made' = [made EXCEPT ![r] = @ + 1] /\ made[r] + 1 < Longest[r]
               /\ sent' = [sent EXCEPT ![r] = Append(@, "token")]
               /\ failures' = failures /\ Served' \subseteq Served
Aborted(r) == /\ status[r] # "new" /\ status' = [status EXCEPT ![r] = "finished"]
              /\ sent' = [sent EXCEPT ![r] = @ \o <<"finished">>]
              /\ pc = "abort" /\ UNCHANGED <<made, failures>>
              /\ Served' \subseteq Served
Raised(r) == /\ r \in Served /\ status[r] \notin {"new", "finished"}
             /\ status' = [status EXCEPT ![r] = "finished"]
             /\ made' = [made EXCEPT ![r] = @ + 1]
             /\ sent' = [sent EXCEPT ![r] = Append(@, "token")]
             /\ Keeps(r)' /\ failures' # 0
             /\ Served' \subseteq Served \ {r}
Forgotten(r) == /\ status[r] # "new" /\ status' = [status EXCEPT ![r] = "finished"]
                /\ Keeps(r)' /\ UNCHANGED <<sent, made, failures>>
                /\ Served' \subseteq Served
Dropped(r) == /\ r \in Served /\ status[r] \notin {"new", "finished"}
              /\ Same(Req)
              /\ made' = [made EXCEPT ![r] = @ + 1]
              /\ UNCHANGED sent /\ failures' # 0
              /\ Served' \subseteq Served \ {r}
OneStream ==
    \/ Quiet
    \/ \E r \in Req : \/ Added(r) \/ TookLast(r) \/ TookMore(r) \/ Aborted(r) \/ Dropped(r)
                     \/ Raised(r) \/ Forgotten(r)

\* Pages that a raising commit left behind stay until an abort finishes the request.
KeepsStay ==
    \A r \in Req : status[r] = "finished" /\ Keeps(r) =>
                      Keeps(r)' \/ sent'[r] = sent[r] \o <<"finished">>

\* A step of one of these kinds keeps every queue in order: what it puts on a queue is
\* counted, and nobody it finished or dropped can be served again.
LEMMA StreamKept ==
    ASSUME IInv, StreamInv, OneStream, KeepsStay,
           pc' = "abort" => pc = "abort" \/ failures' # 0
    PROVE  StreamInv'
<1>1. /\ status \in [Req -> {"new", "waiting", "running", "finished"}]
      /\ made \in [Req -> Nat] /\ sent \in [Req -> Seq({"token", "finished"})]
      /\ Served \subseteq Req /\ Longest \in [Req -> Nat \ {0}] /\ failures \in Nat
  <2>1. failures \in Nat
    BY SchedulerAssumption DEF IInv, TypeOK
  <2>2. Served \subseteq Req
    BY ListsOfRequests DEF IInv, Served, InFlight
  <2>. QED  BY <2>1, <2>2, LongestType DEF IInv, TypeOK
<1>. DEFINE Good(r, n) == /\ Streams(sent[r], n)
                          /\ Len(sent[r]) > n => status[r] = "finished"
                          /\ status[r] = "finished" => Len(sent[r]) > n \/ Keeps(r)
                          /\ status[r] = "new" => made[r] = 0
                          /\ n <= made[r] /\ made[r] <= Longest[r]
                          /\ failures = 0 => made[r] = n /\ Len(sent[r]) <= n + 1
<1>2. /\ \A r \in Req : \E n \in 0 .. Len(sent[r]) : Good(r, n)
      /\ \A r \in Served : made[r] < Longest[r]
      /\ pc = "abort" => failures # 0
  BY DEF StreamInv
<1>3. failures' = 0 => failures = 0
  BY DEF OneStream, Quiet, Added, TookLast, TookMore, Aborted, Dropped, Raised, Forgotten
<1>4. (pc = "abort" => failures # 0)'
  BY <1>2, <1>3
<1>5. ASSUME NEW x \in Req,
             sent'[x] = sent[x], made'[x] = made[x],
             /\ status'[x] = "finished" <=> status[x] = "finished"
             /\ status'[x] = "new" => status[x] = "new"
      PROVE  \E n \in 0 .. Len(sent'[x]) : Good(x, n)'
  <2>1. PICK n \in 0 .. Len(sent[x]) : Good(x, n)
    BY <1>2
  <2>2. status[x] = "finished" /\ Keeps(x) => Keeps(x)'
    <3>1. Len(sent[x] \o <<"finished">>) = Len(sent[x]) + 1 /\ Len(sent[x]) \in Nat
      BY <1>1, <2>1, StreamsFacts
    <3>2. sent'[x] # sent[x] \o <<"finished">>
      BY <1>5, <3>1
    <3>. QED  BY <3>2 DEF KeepsStay
  <2>3. Good(x, n)'
    BY <1>3, <1>5, <2>1, <2>2
  <2>. QED  BY <1>5, <2>1, <2>3
<1>6. ASSUME Quiet
      PROVE  /\ \A x \in Req : \E n \in 0 .. Len(sent'[x]) : Good(x, n)'
             /\ \A x \in Served' : made'[x] < Longest[x]
  BY <1>1, <1>2, <1>5, <1>6 DEF Quiet, Same
<1>7. ASSUME NEW r \in Req, Added(r)
      PROVE  /\ \A x \in Req : \E n \in 0 .. Len(sent'[x]) : Good(x, n)'
             /\ \A x \in Served' : made'[x] < Longest[x]
  <2>1. \A x \in Req : /\ sent'[x] = sent[x] /\ made'[x] = made[x]
                       /\ status'[x] = "finished" <=> status[x] = "finished"
                       /\ status'[x] = "new" => status[x] = "new"
    BY <1>1, <1>7 DEF Added
  <2>2. made[r] < Longest[r]
    BY <1>1, <1>2, <1>7 DEF Added
  <2>. QED  BY <1>1, <1>2, <1>5, <1>7, <2>1, <2>2 DEF Added
<1>8. ASSUME NEW r \in Req, TookLast(r) \/ TookMore(r) \/ Dropped(r) \/ Raised(r)
      PROVE  /\ \A x \in Req : \E n \in 0 .. Len(sent'[x]) : Good(x, n)'
             /\ \A x \in Served' : made'[x] < Longest[x]
  <2>1. \A x \in Req \ {r} : /\ sent'[x] = sent[x] /\ made'[x] = made[x]
                             /\ status'[x] = "finished" <=> status[x] = "finished"
                             /\ status'[x] = "new" => status[x] = "new"
    BY <1>1, <1>8 DEF TookLast, TookMore, Dropped, Raised, Same
  <2>2. PICK n \in 0 .. Len(sent[r]) : Good(r, n)
    BY <1>2
  <2>3. /\ made[r] + 1 <= Longest[r] /\ made'[r] = made[r] + 1 /\ n = Len(sent[r]) /\ n \in Nat
        /\ status[r] \notin {"new", "finished"} /\ made[r] \in Nat /\ Longest[r] \in Nat
        /\ sent[r] \in Seq({"token", "finished"})
    BY <1>1, <1>2, <1>8, <2>2, LenProperties DEF TookLast, TookMore, Dropped, Raised
  <2>. DEFINE s == sent[r]
              a == Append(s, "token")
  <2>4. /\ a \in Seq({"token", "finished"}) /\ Len(a) = n + 1 /\ Streams(a, n + 1)
        /\ Len(a \o <<"finished">>) = n + 2 /\ Streams(a \o <<"finished">>, n + 1)
    <3>1. /\ s \in Seq({"token", "finished"}) /\ n \in Nat /\ Streams(s, n) /\ Len(s) = n
      BY <2>2, <2>3
    <3>. HIDE DEF s
    <3>2. Streams(a, n + 1) /\ Len(a) = n + 1 /\ a \in Seq({"token", "finished"})
      <4>1. a \in Seq({"token", "finished"})
        BY <3>1, AppendProperties
      <4>. QED  BY <3>1, <4>1, StreamsFacts
    <3>3. n + 1 \in Nat
      BY <3>1
    <3>. HIDE DEF a
    <3>4. Len(a \o <<"finished">>) = Len(a) + 1 /\ Streams(a \o <<"finished">>, n + 1)
      BY <3>2, <3>3, StreamsFacts
    <3>. QED  BY <3>1, <3>2, <3>4
  <2>. HIDE DEF a, s
  <2>5. CASE TookLast(r)
    <3>1. /\ sent'[r] = a \o <<"finished">> /\ status'[r] = "finished" /\ failures' = failures
          /\ Served' \subseteq Served \ {r}
      BY <1>1, <2>5 DEF TookLast, a, s
    <3>2. Good(r, n + 1)'
      BY <2>2, <2>3, <2>4, <3>1
    <3>3. n + 1 \in 0 .. Len(sent'[r])
      BY <2>3, <2>4, <3>1
    <3>4. \A x \in Served' : made'[x] < Longest[x]
      BY <1>1, <1>2, <2>1, <3>1
    <3>. QED  BY <1>5, <2>1, <3>2, <3>3, <3>4
  <2>6. CASE TookMore(r)
    <3>1. /\ sent'[r] = a /\ failures' = failures /\ made[r] + 1 < Longest[r]
          /\ status'[r] \notin {"new", "finished"} /\ Served' \subseteq Served
      BY <1>1, <2>6 DEF TookMore, Same, a, s
    <3>2. Good(r, n + 1)'
      BY <2>2, <2>3, <2>4, <3>1
    <3>3. n + 1 \in 0 .. Len(sent'[r])
      BY <2>3, <2>4, <3>1
    <3>4. \A x \in Served' : made'[x] < Longest[x]
      BY <1>1, <1>2, <2>1, <2>3, <3>1
    <3>. QED  BY <1>5, <2>1, <3>2, <3>3, <3>4
  <2>7. CASE Dropped(r)
    <3>1. /\ sent'[r] = sent[r] /\ failures' # 0
          /\ status'[r] \notin {"new", "finished"} /\ Served' \subseteq Served \ {r}
      BY <1>1, <2>7 DEF Dropped, Same
    <3>2. Good(r, n)'
      BY <2>2, <2>3, <3>1
    <3>3. \A x \in Served' : made'[x] < Longest[x]
      BY <1>1, <1>2, <2>1, <3>1
    <3>. QED  BY <1>5, <2>1, <2>2, <3>1, <3>2, <3>3
  <2>8. CASE Raised(r)
    <3>1. /\ sent'[r] = a /\ failures' # 0 /\ Keeps(r)'
          /\ status'[r] = "finished" /\ Served' \subseteq Served \ {r}
      BY <1>1, <2>8 DEF Raised, a, s
    <3>2. Good(r, n + 1)'
      BY <2>2, <2>3, <2>4, <3>1
    <3>3. n + 1 \in 0 .. Len(sent'[r])
      BY <2>3, <2>4, <3>1
    <3>4. \A x \in Served' : made'[x] < Longest[x]
      BY <1>1, <1>2, <2>1, <3>1
    <3>. QED  BY <1>5, <2>1, <3>2, <3>3, <3>4
  <2>. QED  BY <1>8, <2>5, <2>6, <2>7, <2>8
<1>9. ASSUME NEW r \in Req, Aborted(r)
      PROVE  /\ \A x \in Req : \E n \in 0 .. Len(sent'[x]) : Good(x, n)'
             /\ \A x \in Served' : made'[x] < Longest[x]
  <2>1. \A x \in Req \ {r} : /\ sent'[x] = sent[x] /\ made'[x] = made[x]
                             /\ status'[x] = "finished" <=> status[x] = "finished"
                             /\ status'[x] = "new" => status[x] = "new"
    BY <1>1, <1>9 DEF Aborted
  <2>2. PICK n \in 0 .. Len(sent[r]) : Good(r, n)
    BY <1>2
  <2>3. /\ made'[r] = made[r] /\ n \in Nat /\ Len(sent[r]) \in Nat
        /\ failures' # 0 /\ status'[r] = "finished"
    BY <1>1, <1>2, <1>9, <2>2, LenProperties DEF Aborted
  <2>. DEFINE f == sent[r] \o <<"finished">>
  <2>4. sent'[r] = f /\ Len(f) = Len(sent[r]) + 1 /\ Streams(f, n)
    <3>1. sent[r] \in Seq({"token", "finished"}) /\ Streams(sent[r], n) /\ sent'[r] = f
      BY <1>1, <1>9, <2>2 DEF Aborted
    <3>. QED  BY <2>3, <3>1, StreamsFacts
  <2>. HIDE DEF f
  <2>5. Good(r, n)' /\ n \in 0 .. Len(sent'[r])
    BY <2>2, <2>3, <2>4
  <2>6. \A x \in Served' : made'[x] < Longest[x]
    BY <1>1, <1>2, <1>9 DEF Aborted
  <2>. QED  BY <1>5, <2>1, <2>5, <2>6
<1>10. ASSUME NEW r \in Req, Forgotten(r)
       PROVE  /\ \A x \in Req : \E n \in 0 .. Len(sent'[x]) : Good(x, n)'
              /\ \A x \in Served' : made'[x] < Longest[x]
  <2>1. /\ sent' = sent /\ made' = made /\ failures' = failures
        /\ status'[r] = "finished" /\ Keeps(r)' /\ Served' \subseteq Served
        /\ \A x \in Req \ {r} : status'[x] = status[x]
    BY <1>1, <1>10 DEF Forgotten
  <2>2. PICK n \in 0 .. Len(sent[r]) : Good(r, n)
    BY <1>2
  <2>3. Good(r, n)'
    BY <2>1, <2>2
  <2>4. n \in 0 .. Len(sent'[r])
    BY <2>1
  <2>5. \A x \in Req \ {r} : \E m \in 0 .. Len(sent'[x]) : Good(x, m)'
    BY <1>5, <2>1
  <2>6. \A x \in Served' : made'[x] < Longest[x]
    BY <1>2, <2>1
  <2>. QED  BY <2>3, <2>4, <2>5, <2>6
<1>11. /\ \A r \in Req : \E n \in 0 .. Len(sent'[r]) : Good(r, n)'
       /\ \A r \in Served' : made'[r] < Longest[r]
  BY <1>6, <1>7, <1>8, <1>9, <1>10 DEF OneStream
<1>. QED  BY <1>4, <1>11 DEF StreamInv

\* What a list gives up or passes on stays among the requests that may be served.
LEMMA ServedLists ==
    ASSUME pc \notin {"abort", "died"}, pc' # "abort",
           ToSet(waiting') \cup ToSet(prefilling') \cup ToSet(running') \cup ToSet(todo')
             \subseteq ToSet(waiting) \cup ToSet(prefilling) \cup ToSet(running) \cup ToSet(todo)
    PROVE  Served' \subseteq Served
BY DEF Served, InFlight

\* The steps that hand requests from list to list take and drop nobody.
LEMMA ListStepsQuiet ==
    ASSUME IInv,
           \/ BaselineStart \/ BatchedAdmit \/ PagedAdmit \/ PrefillBatch \/ PrefilledEnd
           \/ Decode \/ DecodedEnd \/ AbortEnd
           \/ PrefillAllDone \/ NothingToPrefill \/ NothingToDecode \/ ThreadEnd
           \/ Stop \/ UNCHANGED vars
    PROVE  Quiet /\ (pc' = "abort" => pc = "abort")
<1>. USE DEF outside, outer, lists, local
<1>1. /\ status \in [Req -> {"new", "waiting", "running", "finished"}]
      /\ waiting \in Seq(Req) /\ prefilling \in Seq(Req) /\ retracted \in Seq(Req)
      /\ ToSet(waiting) \subseteq Req
      /\ \A r \in ToSet(waiting) : status[r] = "waiting"
      /\ ToSet(<< >>) = {}
  BY ListsOfRequests, ShortLists DEF IInv, TypeOK, StatusInv
<1>2. CASE BaselineStart
  <2>1. /\ waiting # << >> /\ waiting' = Tail(waiting) /\ todo' = <<Head(waiting)>>
        /\ pc = "loop" /\ pc' = "baseline"
        /\ status' = [status EXCEPT ![Head(waiting)] = "running"]
        /\ UNCHANGED <<sent, made, failures, prefilling, running>>
    BY <1>2 DEF BaselineStart, AtLoop
  <2>2. /\ ToSet(waiting) = {Head(waiting)} \cup ToSet(waiting') /\ Head(waiting) \in Req
        /\ ToSet(todo') = {Head(waiting)}
    BY <1>1, <2>1, HeadAndTail, ShortLists
  <2>3. Served' \subseteq Served
    BY <2>1, <2>2, ServedLists
  <2>4. Same(Req)
    BY <1>1, <2>1, <2>2 DEF Same
  <2>. QED  BY <2>1, <2>3, <2>4 DEF Quiet
<1>3. CASE BatchedAdmit
  <2>. DEFINE room == IF MaxRunning > Len(running) THEN MaxRunning - Len(running) ELSE 0
              k == Min({Len(waiting), room})
  <2>1. Len(waiting) \in Nat /\ room \in Nat
    <3>1. Len(waiting) \in Nat /\ Len(running) \in Nat /\ MaxRunning \in Nat
      BY LenProperties, SchedulerAssumption DEF IInv, TypeOK
    <3>. QED  BY <3>1
  <2>2. /\ todo' = SubSeq(waiting, 1, k) /\ waiting' = SubSeq(waiting, k + 1, Len(waiting))
        /\ pc = "loop" /\ pc' = "prefill one"
        /\ UNCHANGED <<sent, made, failures, prefilling, running, status>>
    BY <1>3 DEF BatchedAdmit, AtLoop
  <2>. HIDE DEF room
  <2>3. k \in 0 .. Len(waiting)
    BY <2>1 DEF Min
  <2>. HIDE DEF k
  <2>4. ToSet(waiting) = ToSet(todo') \cup ToSet(waiting')
    BY <1>1, <2>2, <2>3, Divided
  <2>5. Served' \subseteq Served
    BY <2>2, <2>4, ServedLists
  <2>. QED  BY <2>2, <2>5 DEF Quiet, Same
<1>4. CASE PagedAdmit
  <2>1. PICK k \in 0 .. Len(waiting) :
           /\ prefilling' = prefilling \o SubSeq(waiting, 1, k)
           /\ waiting' = SubSeq(waiting, k + 1, Len(waiting))
           /\ status' = [r \in Req |-> IF r \in ToSet(SubSeq(waiting, 1, k)) THEN "running"
                                                                            ELSE status[r]]
    BY <1>4 DEF PagedAdmit
  <2>. DEFINE a == SubSeq(waiting, 1, k)
  <2>2. ToSet(waiting) = ToSet(a) \cup ToSet(waiting') /\ a \in Seq(Req)
    BY <1>1, <2>1, Divided
  <2>3. /\ prefilling' = prefilling \o a
        /\ status' = [r \in Req |-> IF r \in ToSet(a) THEN "running" ELSE status[r]]
    BY <2>1
  <2>. HIDE DEF a
  <2>4. ToSet(prefilling') = ToSet(prefilling) \cup ToSet(a)
    BY <1>1, <2>2, <2>3, Joined
  <2>5. /\ pc = "loop" /\ pc' = "prefill batch"
        /\ UNCHANGED <<sent, made, failures, running, todo>>
    BY <1>4 DEF PagedAdmit, AtLoop
  <2>6. Served' \subseteq Served
    BY <2>2, <2>4, <2>5, ServedLists
  <2>7. Same(Req)
    BY <1>1, <2>2, <2>3 DEF Same
  <2>. QED  BY <2>5, <2>6, <2>7 DEF Quiet
<1>5. CASE PrefilledEnd
  <2>1. /\ waiting' = retracted \o waiting /\ prefilling' = keep
        /\ pc = "prefilled" /\ pc' = "decode"
        /\ UNCHANGED <<sent, made, failures, running, todo, status>>
    BY <1>5 DEF PrefilledEnd
  <2>2. ToSet(waiting') = ToSet(retracted) \cup ToSet(waiting)
    BY <1>1, <2>1, Joined
  <2>3. ToSet(retracted) \cup ToSet(keep) \subseteq ToSet(prefilling)
    BY <2>1 DEF IInv, PrefilledInv
  <2>4. Served' \subseteq Served
    BY <2>1, <2>2, <2>3, ServedLists
  <2>. QED  BY <2>1, <2>4 DEF Quiet, Same
<1>6. CASE AbortEnd
  <2>1. /\ pc = "abort" /\ pc' = "loop" /\ todo = << >>
        /\ UNCHANGED <<sent, made, failures, waiting, prefilling, running, todo, status>>
    BY <1>6 DEF AbortEnd
  <2>2. Served' \subseteq Served
    BY <1>1, <2>1 DEF Served, InFlight, IInv, LoopsInv
  <2>. QED  BY <2>1, <2>2 DEF Quiet, Same
<1>7. CASE PrefillBatch \/ Decode \/ DecodedEnd
  <2>1. /\ UNCHANGED <<sent, made, failures, waiting, status, prefilling>>
        /\ pc \notin {"abort", "died"} /\ pc' # "abort"
        /\ \/ todo' = prefilling /\ running' = running
           \/ todo' = running /\ running' = running
           \/ todo' = todo /\ running' = keep /\ pc = "decoded"
    BY <1>7 DEF PrefillBatch, Decode, DecodedEnd
  <2>2. pc = "decoded" => ToSet(keep) \subseteq ToSet(running)
    BY DEF IInv, LoopsInv
  <2>3. Served' \subseteq Served
    BY <2>1, <2>2, ServedLists
  <2>. QED  BY <2>1, <2>3 DEF Quiet, Same
<1>8. CASE \/ PrefillAllDone \/ NothingToPrefill \/ NothingToDecode \/ ThreadEnd
           \/ Stop \/ UNCHANGED vars
  <2>1. /\ UNCHANGED <<sent, made, failures, waiting, status, prefilling, running, todo>>
        /\ pc' = pc \/ (pc \notin {"abort", "died"} /\ pc' # "abort")
    BY <1>8 DEF PrefillAllDone, NothingToPrefill, NothingToDecode, ThreadEnd, Stop, vars
  <2>2. Served' \subseteq Served
    BY <2>1 DEF Served, InFlight
  <2>. QED  BY <2>1, <2>2 DEF Quiet, Same
<1>. QED  BY <1>2, <1>3, <1>4, <1>5, <1>6, <1>7, <1>8

\* A failing call leaves the streams alone; if it is the decoding of a token, the token
\* is counted, and the loop turns to the abort.
LEMMA RaisesStream ==
    ASSUME IInv, \/ BaselineRaises \/ PrefillOneRaises \/ PrefillBatchRaises \/ DecodeRaises
                 \/ StreamRaises
    PROVE  OneStream /\ failures' # 0
<1>1. /\ UNCHANGED <<sent, waiting, prefilling, running>> /\ failures' # 0 /\ pc' = "abort"
      /\ pc \notin {"abort", "loop", "ended", "died"}
  <2>1. failures \in Nat
    BY SchedulerAssumption DEF IInv, TypeOK
  <2>2. StepFails /\ pc \notin {"abort", "loop", "ended", "died"}
    BY DEF BaselineRaises, PrefillOneRaises, PrefillBatchRaises, DecodeRaises, StreamRaises,
       EngineRaisesAfterInit
  <2>. QED  BY <2>1, <2>2 DEF StepFails, StepRaised, lists
<1>2. Served' = ToSet(waiting) /\ Served' \subseteq Served
  BY <1>1 DEF Served
<1>3. /\ status \in [Req -> {"new", "waiting", "running", "finished"}]
      /\ todo \in Seq(Req) /\ ToSet(prefilling) \subseteq Req
      /\ \A r \in InFlight : Alive(r)
      /\ \A r \in ToSet(todo) : Alive(r)
      /\ ToSet(todo) \cap ToSet(waiting) = {}
  BY <1>1, ListsOfRequests DEF IInv, TypeOK, StatusInv, NoDuplicates
<1>4. todo # << >> => Head(todo) \in Req /\ Head(todo) \in ToSet(todo)
  BY <1>3, HeadAndTail
<1>5. CASE DecodeRaises
  BY <1>1, <1>2, <1>5 DEF DecodeRaises, OneStream, Quiet, Same
<1>6. CASE BaselineRaises \/ PrefillOneRaises \/ PrefillBatchRaises
  <2>1. PICK S \in SUBSET Req : EngineRaisesAfterInit(S) /\ \A r \in S : Alive(r)
    <3>1. CASE BaselineRaises \/ PrefillOneRaises
      <4>1. /\ todo # << >> /\ EngineRaisesAfterInit({Head(todo)})
        BY <3>1 DEF BaselineRaises, PrefillOneRaises, IInv, LocalsInv
      <4>. QED  BY <1>3, <1>4, <4>1
    <3>2. CASE PrefillBatchRaises
      BY <1>3, <3>2 DEF PrefillBatchRaises, InFlight
    <3>. QED  BY <1>6, <3>1, <3>2
  <2>2. made' = made /\ status' = [r \in Req |-> IF r \in S THEN "running" ELSE status[r]]
    BY <2>1 DEF EngineRaisesAfterInit
  <2>3. Same(Req)
    BY <1>3, <2>1, <2>2 DEF Same, Alive
  <2>. QED  BY <1>1, <1>2, <2>2, <2>3 DEF OneStream, Quiet
<1>7. CASE StreamRaises
  <2>. DEFINE h == Head(todo)
  <2>1. /\ h \in Req /\ h \in ToSet(todo)
        /\ made' = [made EXCEPT ![h] = @ + 1]
        /\ status' = [status EXCEPT ![h] = "running"]
    BY <1>4, <1>7 DEF StreamRaises
  <2>. HIDE DEF h
  <2>2. Same(Req) /\ status[h] \notin {"new", "finished"}
    BY <1>3, <2>1 DEF Same, Alive
  <2>3. h \in Served /\ Served' \subseteq Served \ {h}
    BY <1>1, <1>2, <1>3, <2>1 DEF Served
  <2>4. Dropped(h)
    BY <1>1, <2>1, <2>2, <2>3 DEF Dropped
  <2>. QED  BY <1>1, <2>1, <2>4 DEF OneStream
<1>. QED  BY <1>1, <1>5, <1>6, <1>7

\* What taking a token puts on the queue: the token, and the marker if it was the last.
LEMMA TakeTokenStream ==
    ASSUME IInv, NEW r \in Req, NEW go, TakeToken(r, go)
    PROVE  /\ made' = [made EXCEPT ![r] = @ + 1]
           /\ \/ /\ Finishes(r)
                 /\ sent' = [sent EXCEPT ![r] = Append(@, "token") \o <<"finished">>]
              \/ /\ go /\ prefilling' = prefilling /\ made[r] + 1 < Longest[r]
                 /\ sent' = [sent EXCEPT ![r] = Append(@, "token")]
<1>1. /\ made' = [made EXCEPT ![r] = @ + 1]
      /\ made \in [Req -> Nat] /\ sent \in [Req -> Seq({"token", "finished"})]
      /\ Longest \in [Req -> Nat \ {0}]
  BY LongestType DEF TakeToken, IInv, TypeOK
<1>. DEFINE out == Append(sent[r], "token")
<1>2. PICK stop \in BOOLEAN :
         IF stop \/ made[r] + 1 >= MaxNew[r]
           THEN FinishRequest(r, running, prefilling, out) /\ UNCHANGED keep
           ELSE /\ sent' = [sent EXCEPT ![r] = out]
                /\ go
                /\ UNCHANGED prefilling
  BY DEF TakeToken
<1>3. out \in Seq({"token", "finished"})
  BY <1>1
<1>4. CASE stop \/ made[r] + 1 >= MaxNew[r]
  <2>1. FinishRequest(r, running, prefilling, out) /\ keep' = keep
    BY <1>2, <1>4
  <2>2. sent' = [sent EXCEPT ![r] = out \o <<"finished">>]
    BY <2>1 DEF FinishRequest
  <2>. HIDE DEF out
  <2>3. Finishes(r)
    BY <1>3, <2>1, FinishRequestFacts DEF Finishes
  <2>. QED  BY <1>1, <2>2, <2>3 DEF out
<1>5. CASE ~ (stop \/ made[r] + 1 >= MaxNew[r])
  <2>1. sent' = [sent EXCEPT ![r] = out] /\ go /\ prefilling' = prefilling
    BY <1>2, <1>5
  <2>2. made[r] + 1 < Longest[r]
    <3>1. MaxNew[r] \in Int
      BY SchedulerAssumption
    <3>2. made[r] \in Nat
      BY <1>1
    <3>3. ~ (made[r] + 1 >= MaxNew[r])
      BY <1>5
    <3>4. MaxNew[r] > 0 /\ made[r] + 1 < MaxNew[r]
      BY <3>1, <3>2, <3>3
    <3>. QED  BY <3>4 DEF Longest
  <2>. QED  BY <1>1, <2>1, <2>2
<1>. QED  BY <1>4, <1>5

\* A step that takes the token of the first request of its loop.
LEMMA TokenStep ==
    ASSUME IInv, NEW h \in Req, h \in ToSet(todo), pc \notin {"abort", "died"}, pc' # "abort",
           failures' = failures, waiting' = waiting,
           made' = [made EXCEPT ![h] = @ + 1],
           \/ /\ Finishes(h) /\ ToSet(todo') \subseteq ToSet(todo) \ {h}
              /\ sent' = [sent EXCEPT ![h] = Append(@, "token") \o <<"finished">>]
           \/ /\ Same(Req) /\ made[h] + 1 < Longest[h]
              /\ sent' = [sent EXCEPT ![h] = Append(@, "token")]
              /\ ToSet(prefilling') = ToSet(prefilling) /\ ToSet(todo') \subseteq ToSet(todo)
              /\ ToSet(running') \subseteq ToSet(running) \cup {h}
    PROVE  OneStream
<1>1. /\ Alive(h) /\ h \in Served /\ h \notin ToSet(waiting)
  BY DEF IInv, StatusInv, NoDuplicates, Served
<1>2. status[h] \notin {"new", "finished"}
  BY <1>1 DEF Alive
<1>3. CASE /\ Finishes(h) /\ ToSet(todo') \subseteq ToSet(todo) \ {h}
           /\ sent' = [sent EXCEPT ![h] = Append(@, "token") \o <<"finished">>]
  <2>1. Served' \subseteq Served \ {h}
    BY <1>1, <1>3 DEF Served, InFlight, Finishes
  <2>2. TookLast(h)
    BY <1>1, <1>2, <1>3, <2>1 DEF TookLast, Finishes
  <2>. QED  BY <2>2 DEF OneStream
<1>4. CASE /\ Same(Req) /\ made[h] + 1 < Longest[h]
           /\ sent' = [sent EXCEPT ![h] = Append(@, "token")]
           /\ ToSet(prefilling') = ToSet(prefilling) /\ ToSet(todo') \subseteq ToSet(todo)
           /\ ToSet(running') \subseteq ToSet(running) \cup {h}
  <2>1. Served' \subseteq Served
    BY <1>1, <1>4 DEF Served, InFlight
  <2>2. TookMore(h)
    BY <1>1, <1>2, <1>4, <2>1 DEF TookMore
  <2>. QED  BY <2>2 DEF OneStream
<1>. QED  BY <1>3, <1>4

\* Every step that takes a token is of that kind.
LEMMA TokenStepsStream ==
    ASSUME IInv, BaselineToken \/ PrefillOne \/ DecodedOne
    PROVE  OneStream /\ pc' # "abort"
<1>. USE DEF outside, outer, lists, local
<1>. DEFINE h == Head(todo)
<1>1. /\ todo \in Seq(Req) /\ todo # << >> /\ IsInjective(todo)
      /\ pc \in {"baseline", "prefill one", "decoded"} /\ pc' # "abort"
      /\ failures' = failures /\ waiting' = waiting
      /\ status \in [Req -> {"new", "waiting", "running", "finished"}]
      /\ running \in Seq(Req)
      /\ pc = "baseline" => Tail(todo) = << >>
      /\ ToSet(<< >>) = {}
  BY ShortLists DEF BaselineToken, PrefillOne, DecodedOne, IInv, TypeOK, LocalsInv,
     NoDuplicates
<1>2. /\ h \in Req /\ ToSet(todo) = {h} \cup ToSet(Tail(todo)) /\ h \notin ToSet(Tail(todo))
      /\ Alive(h)
  <2>1. /\ h \in Req /\ ToSet(todo) = {h} \cup ToSet(Tail(todo))
        /\ h \notin ToSet(Tail(todo))
    BY <1>1, HeadAndTail
  <2>. HIDE DEF h
  <2>. QED  BY <1>1, <2>1 DEF IInv, StatusInv
<1>3. CASE BaselineToken
  <2>. DEFINE go == UNCHANGED <<running, status, keep>> /\ kv' = [kv EXCEPT ![h] = TRUE]
  <2>1. /\ TakeToken(h, go) /\ (go => running' = running /\ status' = status)
        /\ IF status'[h] = "finished" THEN todo' = << >> ELSE todo' = todo
    BY <1>3 DEF BaselineToken
  <2>. HIDE DEF go, h
  <2>2. /\ made' = [made EXCEPT ![h] = @ + 1]
        /\ \/ /\ Finishes(h)
              /\ sent' = [sent EXCEPT ![h] = Append(@, "token") \o <<"finished">>]
           \/ /\ go /\ prefilling' = prefilling /\ made[h] + 1 < Longest[h]
              /\ sent' = [sent EXCEPT ![h] = Append(@, "token")]
    BY <1>2, <2>1, TakeTokenStream
  <2>3. Finishes(h) => status'[h] = "finished" /\ ToSet(todo') \subseteq ToSet(todo) \ {h}
    BY <1>1, <1>2, <2>1 DEF Finishes
  <2>4. go => status'[h] # "finished" /\ Same(Req) /\ todo' = todo
    BY <1>2, <2>1 DEF Same, Alive
  <2>5. h \in ToSet(todo) /\ pc \notin {"abort", "died"}
    BY <1>1, <1>2
  <2>. QED  BY <1>1, <1>2, <2>1, <2>2, <2>3, <2>4, <2>5, TokenStep
<1>4. CASE PrefillOne
  <2>. DEFINE go == /\ running' = Append(running, h)
                    /\ status' = [status EXCEPT ![h] = "running"]
                    /\ kv' = [kv EXCEPT ![h] = TRUE]
                    /\ UNCHANGED keep
  <2>1. /\ TakeToken(h, go) /\ todo' = Tail(todo)
        /\ go => running' = Append(running, h) /\ status' = [status EXCEPT ![h] = "running"]
    BY <1>4 DEF PrefillOne
  <2>. HIDE DEF go, h
  <2>2. /\ made' = [made EXCEPT ![h] = @ + 1]
        /\ \/ /\ Finishes(h)
              /\ sent' = [sent EXCEPT ![h] = Append(@, "token") \o <<"finished">>]
           \/ /\ go /\ prefilling' = prefilling /\ made[h] + 1 < Longest[h]
              /\ sent' = [sent EXCEPT ![h] = Append(@, "token")]
    BY <1>2, <2>1, TakeTokenStream
  <2>3. ToSet(todo') = ToSet(todo) \ {h}
    BY <1>2, <2>1
  <2>4. go => Same(Req) /\ ToSet(running') = ToSet(running) \cup {h}
    <3>1. running \in Seq(Req) /\ h \in Req
      BY <1>1, <1>2
    <3>2. ToSet(Append(running, h)) = ToSet(running) \cup {h}
      BY <3>1, Appended
    <3>3. go => Same(Req)
      BY <1>1, <1>2, <2>1 DEF Same, Alive
    <3>. QED  BY <2>1, <3>2, <3>3
  <2>5. h \in ToSet(todo) /\ pc \notin {"abort", "died"}
    BY <1>1, <1>2
  <2>. QED  BY <1>1, <1>2, <2>1, <2>2, <2>3, <2>4, <2>5, TokenStep
<1>5. CASE DecodedOne
  <2>. DEFINE go == keep' = Append(keep, h) /\ UNCHANGED <<running, status, kv>>
  <2>1. /\ TakeToken(h, go) /\ todo' = Tail(todo)
        /\ go => running' = running /\ status' = status
    BY <1>5 DEF DecodedOne
  <2>. HIDE DEF go, h
  <2>2. /\ made' = [made EXCEPT ![h] = @ + 1]
        /\ \/ /\ Finishes(h)
              /\ sent' = [sent EXCEPT ![h] = Append(@, "token") \o <<"finished">>]
           \/ /\ go /\ prefilling' = prefilling /\ made[h] + 1 < Longest[h]
              /\ sent' = [sent EXCEPT ![h] = Append(@, "token")]
    BY <1>2, <2>1, TakeTokenStream
  <2>3. ToSet(todo') = ToSet(todo) \ {h}
    BY <1>2, <2>1
  <2>4. go => Same(Req) /\ running' = running
    BY <2>1 DEF Same
  <2>5. h \in ToSet(todo) /\ pc \notin {"abort", "died"}
    BY <1>1, <1>2
  <2>. QED  BY <1>1, <1>2, <2>1, <2>2, <2>3, <2>4, <2>5, TokenStep
<1>. QED  BY <1>1, <1>3, <1>4, <1>5

\* A turn of the prefill loop refuses a request, leaves it where it is, or takes its
\* first token.
LEMMA PrefilledOneStream ==
    ASSUME IInv, PrefilledOne
    PROVE  OneStream /\ pc' # "abort"
<1>. DEFINE h == Head(todo)
<1>1. /\ todo \in Seq(Req) /\ todo # << >> /\ IsInjective(todo) /\ todo' = Tail(todo)
      /\ pc = "prefilled" /\ pc' = pc /\ failures' = failures /\ waiting' = waiting
      /\ status \in [Req -> {"new", "waiting", "running", "finished"}]
      /\ running \in Seq(Req)
      /\ RetractOne(h) \/ ChunkOne(h) \/ FirstToken(h)
  BY DEF PrefilledOne, outside, outer, IInv, TypeOK, NoDuplicates
<1>2. /\ h \in Req /\ ToSet(todo) = {h} \cup ToSet(todo') /\ h \notin ToSet(todo')
      /\ Alive(h)
  BY <1>1, HeadAndTail DEF IInv, StatusInv
<1>. HIDE DEF h
<1>3. CASE RetractOne(h) \/ ChunkOne(h)
  <2>1. /\ UNCHANGED <<sent, made, running, prefilling>>
        /\ status' = [status EXCEPT ![h] = "waiting"] \/ status' = status
    BY <1>3 DEF RetractOne, ChunkOne
  <2>2. Same(Req)
    BY <1>1, <1>2, <2>1 DEF Same, Alive
  <2>3. Served' \subseteq Served
    BY <1>1, <1>2, <2>1, ServedLists
  <2>. QED  BY <1>1, <2>1, <2>2, <2>3 DEF OneStream, Quiet
<1>4. CASE FirstToken(h)
  <2>. DEFINE go == running' = Append(running, h) /\ UNCHANGED <<status, kv, keep>>
  <2>1. TakeToken(h, go) /\ (go => running' = Append(running, h) /\ status' = status)
    BY <1>4 DEF FirstToken
  <2>. HIDE DEF go
  <2>2. /\ made' = [made EXCEPT ![h] = @ + 1]
        /\ \/ /\ Finishes(h)
              /\ sent' = [sent EXCEPT ![h] = Append(@, "token") \o <<"finished">>]
           \/ /\ go /\ prefilling' = prefilling /\ made[h] + 1 < Longest[h]
              /\ sent' = [sent EXCEPT ![h] = Append(@, "token")]
    BY <1>2, <2>1, TakeTokenStream
  <2>3. go => Same(Req) /\ ToSet(running') = ToSet(running) \cup {h}
    <3>1. running \in Seq(Req) /\ h \in Req
      BY <1>1, <1>2
    <3>2. ToSet(Append(running, h)) = ToSet(running) \cup {h}
      BY <3>1, Appended
    <3>3. go => Same(Req)
      BY <1>1, <1>2, <2>1 DEF Same
    <3>. QED  BY <2>1, <3>2, <3>3
  <2>4. h \in ToSet(todo) /\ pc \notin {"abort", "died"} /\ pc' # "abort"
    BY <1>1, <1>2
  <2>. QED  BY <1>1, <1>2, <2>1, <2>2, <2>3, <2>4, TokenStep
<1>. QED  BY <1>1, <1>3, <1>4

\* A turn of the abort finishes a request, for the second time if it was in two lists.
LEMMA AbortOneStream ==
    ASSUME IInv, AbortOne
    PROVE  OneStream
<1>. DEFINE h == Head(todo)
<1>1. /\ todo \in Seq(Req) /\ todo # << >> /\ pc = "abort"
      /\ UNCHANGED <<waiting, pc, made, failures>>
      /\ FinishRequest(h, running, prefilling, sent[h])
      /\ sent \in [Req -> Seq({"token", "finished"})]
  BY DEF AbortOne, outside, IInv, TypeOK
<1>2. h \in Req /\ status[h] # "new"
  BY <1>1, HeadAndTail DEF IInv, StatusInv
<1>. HIDE DEF h
<1>3. /\ status' = [status EXCEPT ![h] = "finished"]
      /\ sent' = [sent EXCEPT ![h] = @ \o <<"finished">>]
  BY <1>1 DEF FinishRequest
<1>4. Served' \subseteq Served
  BY <1>1 DEF Served
<1>5. Aborted(h)
  BY <1>1, <1>2, <1>3, <1>4 DEF Aborted
<1>. QED  BY <1>2, <1>5 DEF OneStream

\* A commit that raises in the step leaves a token and no marker, in the abort neither;
\* the pages stay with the request.
LEMMA RaisingCommitsStream ==
    ASSUME IInv, OrderInv, FirstCommitRaises \/ AbortRaises
    PROVE  OneStream /\ (pc' = "abort" => failures' # 0)
<1>1. PICK h \in Req : h = Head(todo) /\ h \in ToSet(todo)
  <2>1. todo # << >> /\ todo \in Seq(Req)
    BY DEF FirstCommitRaises, AbortRaises, IInv, TypeOK
  <2>. QED  BY <2>1, HeadAndTail
<1>2. CASE FirstCommitRaises
  <2>1. /\ pc = "prefilled" /\ pc' = "abort" /\ waiting' = waiting /\ failures' = failures + 1
        /\ result[h] = "token" /\ CommitMayRaise(h) /\ mode' = mode /\ kv' = kv
        /\ made' = [made EXCEPT ![h] = @ + 1]
        /\ sent' = [sent EXCEPT ![h] = Append(@, "token")]
        /\ status' = [status EXCEPT ![h] = "finished"]
    BY <1>1, <1>2 DEF FirstCommitRaises, StepRaised
  <2>2. failures' # 0
    BY <2>1, SchedulerAssumption DEF IInv, TypeOK
  <2>3. kv[h]
    BY <1>1, <2>1 DEF OrderInv, Refused
  <2>4. Keeps(h)'
    BY <2>1, <2>3 DEF Keeps, CommitMayRaise
  <2>5. h \in Served /\ Served' \subseteq Served \ {h}
    BY <1>1, <2>1 DEF Served, IInv, NoDuplicates
  <2>6. status[h] \notin {"new", "finished"}
    BY <1>1, <2>1 DEF IInv, StatusInv, Alive
  <2>7. Raised(h)
    BY <2>1, <2>2, <2>4, <2>5, <2>6 DEF Raised
  <2>. QED  BY <1>1, <2>2, <2>7 DEF OneStream
<1>3. CASE AbortRaises
  <2>1. /\ pc = "abort" /\ pc' = "died" /\ waiting' = waiting
        /\ CommitMayRaise(h) /\ mode' = mode /\ kv[h]
        /\ UNCHANGED <<kv, made, sent, failures>>
        /\ status' = [status EXCEPT ![h] = "finished"]
    BY <1>1, <1>3 DEF AbortRaises, outside
  <2>2. Keeps(h)'
    BY <2>1 DEF Keeps, CommitMayRaise
  <2>3. Served' \subseteq Served
    BY <2>1 DEF Served
  <2>4. status[h] # "new"
    BY <1>1, <2>1 DEF IInv, StatusInv
  <2>5. Forgotten(h)
    BY <2>1, <2>2, <2>3, <2>4 DEF Forgotten
  <2>. QED  BY <1>1, <2>1, <2>5 DEF OneStream
<1>. QED  BY <1>2, <1>3

\* A finished request gets no kv_cache, and loses one in an abort only.
LEMMA PagesStay ==
    ASSUME IInv, [Next]_vars
    PROVE  KeepsStay
<1>. SUFFICES ASSUME NEW x \in Req, status[x] = "finished", kv[x]
              PROVE  mode' = mode /\ (kv'[x] \/ sent'[x] = sent[x] \o <<"finished">>)
  BY DEF KeepsStay, Keeps, CommitMayRaise
<1>. USE DEF outside, outer, lists, local
<1>1. /\ status \in [Req -> {"new", "waiting", "running", "finished"}]
      /\ kv \in [Req -> BOOLEAN] /\ sent \in [Req -> Seq({"token", "finished"})]
      /\ todo # << >> => Head(todo) \in Req /\ Head(todo) \in ToSet(todo)
  <2>1. todo \in Seq(Req)
    BY DEF IInv, TypeOK
  <2>2. todo # << >> => Head(todo) \in Req /\ Head(todo) \in ToSet(todo)
    BY <2>1, HeadAndTail
  <2>. QED  BY <2>2 DEF IInv, TypeOK
<1>2. CASE \/ (\E r \in Req : AddRequest(r)) \/ Stop \/ ThreadEnd \/ AbortEnd \/ AbortRaises
           \/ BaselineStart \/ BatchedAdmit \/ PrefillAllDone \/ PagedAdmit \/ NothingToPrefill
           \/ FirstCommitRaises \/ PrefilledEnd \/ Decode \/ DecodeRaises \/ NothingToDecode
           \/ DecodedEnd \/ UNCHANGED vars
  <2>1. mode' = mode /\ kv' = kv
    BY <1>2 DEF AddRequest, Stop, ThreadEnd, AbortEnd, AbortRaises, BaselineStart, BatchedAdmit,
       PrefillAllDone, PagedAdmit, NothingToPrefill, FirstCommitRaises, PrefilledEnd, Decode,
       DecodeRaises, StepFails, NothingToDecode, DecodedEnd, vars
  <2>. QED  BY <2>1
<1>3. CASE PrefillBatch
  <2>1. mode' = mode
    BY <1>3 DEF PrefillBatch
  <2>2. PICK failed \in SUBSET {r \in ToSet(prefilling) : ~ kv[r]} :
           kv' = [r \in Req |-> kv[r] \/ r \in ToSet(prefilling) \ failed]
    BY <1>3 DEF PrefillBatch
  <2>. QED  BY <2>1, <2>2
<1>4. CASE BaselineRaises \/ PrefillOneRaises \/ PrefillBatchRaises
  <2>1. \E S : EngineRaisesAfterInit(S)
    BY <1>4 DEF BaselineRaises, PrefillOneRaises, PrefillBatchRaises
  <2>2. PICK T : kv' = [r \in Req |-> kv[r] \/ r \in T] /\ mode' = mode
    BY <2>1 DEF EngineRaisesAfterInit, StepFails
  <2>. QED  BY <2>2
<1>5. CASE StreamRaises
  <2>1. mode' = mode /\ kv' = [kv EXCEPT ![Head(todo)] = TRUE]
    BY <1>5 DEF StreamRaises, StepFails
  <2>. QED  BY <1>1, <2>1
<1>6. CASE AbortOne
  <2>. DEFINE h == Head(todo)
  <2>1. /\ mode' = mode /\ kv' = [kv EXCEPT ![h] = FALSE]
        /\ sent' = [sent EXCEPT ![h] = sent[h] \o <<"finished">>]
    BY <1>6 DEF AbortOne, FinishRequest
  <2>. HIDE DEF h
  <2>2. x # h => kv'[x]
    BY <1>1, <2>1
  <2>3. x = h => sent'[x] = sent[x] \o <<"finished">>
    BY <1>1, <2>1
  <2>. QED  BY <2>1, <2>2, <2>3
<1>7. CASE BaselineToken \/ PrefillOne \/ PrefilledOne \/ DecodedOne
  <2>. DEFINE h == Head(todo)
  <2>1. mode' = mode
    BY <1>7 DEF BaselineToken, PrefillOne, PrefilledOne, DecodedOne
  <2>2. h \in Req /\ x # h
    <3>1. todo # << >> /\ pc # "abort"
      BY <1>7 DEF BaselineToken, PrefillOne, PrefilledOne, DecodedOne, IInv, LocalsInv
    <3>. QED  BY <1>1, <3>1 DEF IInv, StatusInv, Alive
  <2>3. ASSUME NEW go, TakeToken(h, go), go => kv' = kv \/ kv' = [kv EXCEPT ![h] = TRUE]
        PROVE  kv'[x]
    <3>. HIDE DEF h
    <3>1. Finishes(h) \/ go
      BY <2>2, <2>3, TakeTokenFacts
    <3>. QED  BY <1>1, <2>2, <2>3, <3>1 DEF Finishes
  <2>4. CASE BaselineToken
    <3>. DEFINE go == UNCHANGED <<running, status, keep>> /\ kv' = [kv EXCEPT ![h] = TRUE]
    <3>1. TakeToken(h, go) /\ (go => kv' = [kv EXCEPT ![h] = TRUE])
      BY <2>4 DEF BaselineToken
    <3>. HIDE DEF go, h
    <3>. QED  BY <2>1, <2>3, <3>1
  <2>5. CASE PrefillOne
    <3>. DEFINE go == /\ running' = Append(running, h)
                      /\ status' = [status EXCEPT ![h] = "running"]
                      /\ kv' = [kv EXCEPT ![h] = TRUE]
                      /\ UNCHANGED keep
    <3>1. TakeToken(h, go) /\ (go => kv' = [kv EXCEPT ![h] = TRUE])
      BY <2>5 DEF PrefillOne
    <3>. HIDE DEF go, h
    <3>. QED  BY <2>1, <2>3, <3>1
  <2>6. CASE DecodedOne
    <3>. DEFINE go == keep' = Append(keep, h) /\ UNCHANGED <<running, status, kv>>
    <3>1. TakeToken(h, go) /\ (go => kv' = kv)
      BY <2>6 DEF DecodedOne
    <3>. HIDE DEF go, h
    <3>. QED  BY <2>1, <2>3, <3>1
  <2>7. CASE PrefilledOne
    <3>1. CASE FirstToken(h)
      <4>. DEFINE go == running' = Append(running, h) /\ UNCHANGED <<status, kv, keep>>
      <4>1. TakeToken(h, go) /\ (go => kv' = kv)
        BY <3>1 DEF FirstToken
      <4>. HIDE DEF go, h
      <4>. QED  BY <2>1, <2>3, <4>1
    <3>2. CASE RetractOne(h) \/ ChunkOne(h)
      <4>1. kv' = kv
        BY <3>2 DEF RetractOne, ChunkOne
      <4>. QED  BY <2>1, <4>1
    <3>. QED  BY <2>7, <3>1, <3>2 DEF PrefilledOne
  <2>. QED  BY <1>7, <2>4, <2>5, <2>6, <2>7
<1>. QED  BY <1>2, <1>3, <1>4, <1>5, <1>6, <1>7 DEF Next, SchedulerStep

\* Every step touches one stream at most.
LEMMA StepsOneStream ==
    ASSUME IInv, OrderInv, [Next]_vars
    PROVE  OneStream /\ (pc' = "abort" => pc = "abort" \/ failures' # 0)
<1>1. ASSUME NEW r \in Req, AddRequest(r)
      PROVE  OneStream /\ pc' = pc
  <2>1. /\ status[r] = "new" /\ status' = [status EXCEPT ![r] = "waiting"]
        /\ waiting' = Append(waiting, r) /\ waiting \in Seq(Req)
        /\ UNCHANGED <<prefilling, running, todo, sent, made, failures, pc>>
    BY <1>1 DEF AddRequest, local, IInv, TypeOK
  <2>2. Served' \subseteq Served \cup {r}
    BY <2>1, Appended DEF Served, InFlight
  <2>3. Added(r)
    BY <2>1, <2>2 DEF Added
  <2>. QED  BY <2>1, <2>3 DEF OneStream
<1>2. CASE \/ BaselineStart \/ BatchedAdmit \/ PagedAdmit \/ PrefillBatch \/ PrefilledEnd
           \/ Decode \/ DecodedEnd \/ AbortEnd
           \/ PrefillAllDone \/ NothingToPrefill \/ NothingToDecode \/ ThreadEnd
           \/ Stop \/ UNCHANGED vars
  BY <1>2, ListStepsQuiet DEF OneStream
<1>3. CASE \/ BaselineRaises \/ PrefillOneRaises \/ PrefillBatchRaises \/ DecodeRaises
           \/ StreamRaises
  BY <1>3, RaisesStream
<1>4. CASE BaselineToken \/ PrefillOne \/ DecodedOne
  BY <1>4, TokenStepsStream
<1>5. CASE PrefilledOne
  BY <1>5, PrefilledOneStream
<1>6. CASE AbortOne
  <2>1. pc = "abort"
    BY <1>6 DEF AbortOne
  <2>. QED  BY <1>6, <2>1, AbortOneStream
<1>7. CASE FirstCommitRaises \/ AbortRaises
  BY <1>7, RaisingCommitsStream
<1>. QED  BY <1>1, <1>2, <1>3, <1>4, <1>5, <1>6, <1>7 DEF Next, SchedulerStep

\* The invariant of the streams holds in every state.
LEMMA StreamInvariant == Spec => []StreamInv
<1>1. Init => StreamInv
  <2>. SUFFICES ASSUME Init PROVE StreamInv
    OBVIOUS
  <2>1. /\ sent = [r \in Req |-> << >>] /\ made = [r \in Req |-> 0]
        /\ status = [r \in Req |-> "new"] /\ pc = "loop"
        /\ Len(<< >>) = 0 /\ Longest \in [Req -> Nat \ {0}]
    BY LongestType DEF Init
  <2>2. \A r \in Req : 0 \in 0 .. Len(sent[r]) /\ Streams(sent[r], 0)
    BY <2>1 DEF Streams
  <2>3. Served = {}
    BY ShortLists DEF Init, Served, InFlight
  <2>. QED  BY <2>1, <2>2, <2>3 DEF StreamInv
<1>2. IInv /\ OrderInv /\ StreamInv /\ [Next]_vars => StreamInv'
  BY StepsOneStream, PagesStay, StreamKept
<1>. QED  BY <1>1, <1>2, Invariant, OrderInvariant, PTL DEF Spec

\* What the invariant says of a request's queue.
LEMMA StreamOf ==
    ASSUME IInv, StreamInv, NEW r \in Req
    PROVE  /\ Tokens(r) \in 0 .. Len(sent[r]) /\ Len(sent[r]) \in Nat
           /\ Streams(sent[r], Tokens(r))
           /\ Len(sent[r]) > Tokens(r) => status[r] = "finished"
           /\ status[r] = "finished" => Len(sent[r]) > Tokens(r) \/ Keeps(r)
           /\ status[r] = "new" => made[r] = 0
           /\ Tokens(r) <= made[r] /\ made[r] <= Longest[r]
           /\ failures = 0 => made[r] = Tokens(r) /\ Len(sent[r]) <= Tokens(r) + 1
           /\ Closed(r) <=> Len(sent[r]) > Tokens(r)
<1>1. PICK n \in 0 .. Len(sent[r]) :
         /\ Streams(sent[r], n)
         /\ Len(sent[r]) > n => status[r] = "finished"
         /\ status[r] = "finished" => Len(sent[r]) > n \/ Keeps(r)
         /\ status[r] = "new" => made[r] = 0
         /\ n <= made[r] /\ made[r] <= Longest[r]
         /\ failures = 0 => made[r] = n /\ Len(sent[r]) <= n + 1
  BY DEF StreamInv
<1>2. sent[r] \in Seq({"token", "finished"}) /\ n \in Nat
  BY LenProperties DEF IInv, TypeOK
<1>3. /\ Cardinality({i \in DOMAIN sent[r] : sent[r][i] = "token"}) = n
      /\ "finished" \in ToSet(sent[r]) <=> Len(sent[r]) > n
      /\ Len(sent[r]) \in Nat
  <2>. DEFINE s == sent[r]
  <2>1. s \in Seq({"token", "finished"}) /\ Streams(s, n) /\ n \in Nat
    BY <1>1, <1>2
  <2>. HIDE DEF s
  <2>2. /\ Cardinality({i \in DOMAIN s : s[i] = "token"}) = n
        /\ "finished" \in ToSet(s) <=> Len(s) > n
        /\ Len(s) \in Nat
    BY <2>1, StreamsFacts
  <2>. QED  BY <2>2 DEF s
<1>4. Tokens(r) = n /\ (Closed(r) <=> Len(sent[r]) > n)
  BY <1>3 DEF Tokens, Closed
<1>. QED  BY <1>1, <1>3, <1>4

\* The tokens of a request are on its queue once each and before any finish marker, and
\* the marker is there exactly when the request is finished, but for a request whose
\* commit raised.
THEOREM StreamsInOrder == Spec => []StreamOrder
<1>1. IInv /\ StreamInv => StreamOrder
  <2>. SUFFICES ASSUME IInv, StreamInv, NEW r \in Req
                PROVE  LET n == Len(sent[r])
                       IN  /\ \A i \in 1 .. n : sent[r][i] = "token" <=> i <= Tokens(r)
                           /\ n > Tokens(r) => status[r] = "finished"
                           /\ status[r] = "finished" =>
                                 n > Tokens(r) \/ (CommitMayRaise(r) /\ kv[r])
                           /\ Tokens(r) <= made[r] /\ made[r] <= Longest[r]
                           /\ failures = 0 => made[r] = Tokens(r) /\ n <= made[r] + 1
    BY DEF StreamOrder
  <2>. QED  BY StreamOf DEF Streams, Keeps
<1>. QED  BY <1>1, Invariant, StreamInvariant, PTL

\* The initial states are initial states of the contract.
LEMMA StreamInitRefined == Init => Stream!StreamInit
<1>. SUFFICES ASSUME Init PROVE Stream!StreamInit
  OBVIOUS
<1>1. /\ sent = [r \in Req |-> << >>] /\ status = [r \in Req |-> "new"]
      /\ DOMAIN << >> = {} /\ ToSet(<< >>) = {}
  <2>1. ToSet(<< >>) = {}
    BY ShortLists
  <2>. QED  BY <2>1 DEF Init
<1>2. ASSUME NEW r \in Req PROVE Tokens(r) = 0 /\ ~ Closed(r) /\ ~ (status[r] # "new")
  <2>1. {i \in DOMAIN sent[r] : sent[r][i] = "token"} = {}
    BY <1>1
  <2>2. Tokens(r) = 0
    BY <2>1, FS_EmptySet DEF Tokens
  <2>. QED  BY <1>1, <2>2 DEF Closed
<1>3. /\ [r \in Req |-> status[r] # "new"] = [r \in Req |-> FALSE]
      /\ [r \in Req |-> Tokens(r)] = [r \in Req |-> 0]
      /\ [r \in Req |-> Closed(r)] = [r \in Req |-> FALSE]
  <2>1. \A r \in Req : Closed(r) = FALSE /\ (status[r] # "new") = FALSE
    BY <1>2 DEF Closed
  <2>. QED  BY <1>2, <2>1, Zenon
<1>. QED  BY <1>3 DEF Stream!StreamInit

\* A step is a step of the contract, or leaves it alone.
LEMMA StreamStepRefined ==
    ASSUME IInv, StreamInv, OneStream
    PROVE  [Stream!StreamNext]_(Stream!stream)
<1>. DEFINE asked == [r \in Req |-> status[r] # "new"]
            produced == [r \in Req |-> Tokens(r)]
            closed == [r \in Req |-> Closed(r)]
<1>1. /\ status \in [Req -> {"new", "waiting", "running", "finished"}]
      /\ made \in [Req -> Nat] /\ sent \in [Req -> Seq({"token", "finished"})]
      /\ Served \subseteq Req /\ Longest \in [Req -> Nat \ {0}]
  BY LongestType, ListsOfRequests DEF IInv, TypeOK, Served, InFlight
<1>2. \A r \in Req : /\ Tokens(r) \in Nat
                     /\ Tokens(r) <= made[r]
                     /\ Closed(r) => status[r] = "finished"
                     /\ Closed(r) <=> Len(sent[r]) > Tokens(r)
  BY StreamOf
<1>4. ASSUME NEW r \in Req, sent'[r] = sent[r]
      PROVE  Tokens(r)' = Tokens(r) /\ Closed(r)' = Closed(r)
  BY <1>4 DEF Tokens, Closed
<1>5. CASE Quiet \/ \E r \in Req : Dropped(r) \/ Forgotten(r)
  <2>1. UNCHANGED sent /\ \A x \in Req : status'[x] = "new" <=> status[x] = "new"
    BY <1>1, <1>5 DEF Quiet, Dropped, Forgotten, Same
  <2>2. asked' = asked /\ produced' = produced /\ closed' = closed
    BY <1>4, <2>1
  <2>. QED  BY <2>2 DEF Stream!stream
<1>6. ASSUME NEW r \in Req, Added(r) PROVE Stream!Ask(r)
  <2>1. /\ status[r] = "new" /\ status' = [status EXCEPT ![r] = "waiting"] /\ sent' = sent
    BY <1>6 DEF Added
  <2>2. ~ asked[r] /\ asked' = [asked EXCEPT ![r] = TRUE]
    BY <1>1, <2>1
  <2>3. produced' = produced /\ closed' = closed
    BY <1>4, <2>1
  <2>. QED  BY <2>2, <2>3 DEF Stream!Ask
<1>7. ASSUME NEW r \in Req, TookLast(r) \/ TookMore(r) \/ Raised(r)
      PROVE  \E last \in BOOLEAN : Stream!Produce(r, last)
  <2>1. /\ r \in Served /\ status[r] \notin {"new", "finished"} /\ made[r] < Longest[r]
        /\ \A x \in Req \ {r} : sent'[x] = sent[x]
        /\ \A x \in Req : status'[x] = "new" <=> status[x] = "new"
    BY <1>1, <1>7 DEF TookLast, TookMore, Raised, Same, StreamInv
  <2>2. Tokens(r)' = Tokens(r) + 1
    <3>. DEFINE s == sent[r]
                n == Tokens(r)
                a == Append(s, "token")
                f == a \o <<"finished">>
    <3>1. sent'[r] = a \/ sent'[r] = f
      BY <1>1, <1>7 DEF TookLast, TookMore, Raised
    <3>2. /\ s \in Seq({"token", "finished"}) /\ Streams(s, n) /\ n \in Nat
          /\ Len(s) = n
      <4>1. Len(s) \in Nat /\ n \in 0 .. Len(s) /\ Streams(s, n)
        BY StreamOf
      <4>. QED  BY <1>1, <1>2, <2>1, <4>1
    <3>. HIDE DEF s, n
    <3>3. Streams(a, n + 1) /\ a \in Seq({"token", "finished"})
      <4>1. a \in Seq({"token", "finished"})
        BY <3>2, AppendProperties
      <4>. QED  BY <3>2, <4>1, StreamsFacts
    <3>4. n + 1 \in Nat
      BY <3>2
    <3>. HIDE DEF a
    <3>5. Streams(f, n + 1) /\ f \in Seq({"token", "finished"})
      BY <3>3, <3>4, StreamsFacts
    <3>. HIDE DEF f
    <3>. DEFINE t == sent'[r]
    <3>6. t \in Seq({"token", "finished"}) /\ Streams(t, n + 1)
      BY <3>1, <3>3, <3>5
    <3>. HIDE DEF t
    <3>7. Cardinality({i \in DOMAIN t : t[i] = "token"}) = n + 1
      BY <3>4, <3>6, StreamsFacts
    <3>. QED  BY <3>7 DEF Tokens, n, t
  <2>. DEFINE last == Closed(r)'
  <2>3. last \in BOOLEAN
    BY DEF Closed
  <2>4. asked' = asked
    BY <2>1
  <2>5. produced' = [produced EXCEPT ![r] = @ + 1]
    BY <1>4, <2>1, <2>2
  <2>6. closed' = [closed EXCEPT ![r] = last]
    BY <1>4, <2>1
  <2>7. asked[r] /\ ~ closed[r] /\ produced[r] < Longest[r]
    <3>1. Tokens(r) < Longest[r]
      BY <1>1, <1>2, <2>1
    <3>. QED  BY <1>2, <2>1, <3>1
  <2>. QED  BY <2>3, <2>4, <2>5, <2>6, <2>7 DEF Stream!Produce
<1>8. ASSUME NEW r \in Req, Aborted(r)
      PROVE  Stream!Close(r) \/ UNCHANGED Stream!stream
  <2>1. /\ status[r] # "new" /\ status' = [status EXCEPT ![r] = "finished"]
        /\ sent' = [sent EXCEPT ![r] = @ \o <<"finished">>]
    BY <1>8 DEF Aborted
  <2>2. Tokens(r)' = Tokens(r) /\ Closed(r)'
    <3>. DEFINE s == sent[r]
                n == Tokens(r)
                f == s \o <<"finished">>
    <3>1. /\ s \in Seq({"token", "finished"}) /\ Streams(s, n) /\ n \in Nat /\ sent'[r] = f
      BY <1>1, <1>2, <2>1, StreamOf
    <3>. HIDE DEF s, n
    <3>2. /\ Streams(f, n) /\ f \in Seq({"token", "finished"})
          /\ Len(f) = Len(s) + 1 /\ Len(s) \in Nat
      BY <3>1, StreamsFacts
    <3>3. Len(f) > n
      BY <3>1, <3>2 DEF Streams
    <3>. HIDE DEF f
    <3>4. /\ Cardinality({i \in DOMAIN f : f[i] = "token"}) = n
          /\ "finished" \in ToSet(f)
      BY <3>1, <3>2, <3>3, StreamsFacts
    <3>. QED  BY <3>1, <3>4 DEF Tokens, Closed, n
  <2>4. asked' = asked /\ produced' = produced /\ closed' = [closed EXCEPT ![r] = TRUE]
    <3>1. \A x \in Req \ {r} : sent'[x] = sent[x]
      BY <1>1, <2>1
    <3>2. \A x \in Req : status'[x] = "new" <=> status[x] = "new"
      BY <1>1, <2>1
    <3>3. closed' = [closed EXCEPT ![r] = TRUE]
      BY <1>4, <2>2, <3>1
    <3>. QED  BY <1>4, <2>2, <3>1, <3>2, <3>3
  <2>5. CASE Closed(r)
    <3>1. closed' = closed
      BY <2>4, <2>5
    <3>. QED  BY <2>4, <3>1 DEF Stream!stream
  <2>6. CASE ~ Closed(r)
    <3>1. asked[r] /\ ~ closed[r]
      BY <2>1, <2>6
    <3>. QED  BY <2>4, <3>1 DEF Stream!Close
  <2>. QED  BY <2>5, <2>6
<1>. QED  BY <1>5, <1>6, <1>7, <1>8 DEF OneStream, Stream!StreamNext

\* The scheduler keeps the contract the server is built on: at most max_new_tokens
\* tokens and then the end, once, for every request that was added.
THEOREM KeepsTokenStream == Spec => TokenStreamSpec
<1>1. Init => Stream!StreamInit
  BY StreamInitRefined
<1>2. IInv /\ OrderInv /\ StreamInv /\ [Next]_vars => [Stream!StreamNext]_(Stream!stream)
  BY StepsOneStream, StreamStepRefined
<1>. QED  BY <1>1, <1>2, Invariant, OrderInvariant, StreamInvariant, PTL
          DEF Spec, TokenStreamSpec, Stream!StreamSpec

-----------------------------------------------------------------------------
(* What is in flight *)

\* The set of a list is finite, and not larger than the list.
LEMMA SetOfList ==
    ASSUME NEW s \in Seq(Req)
    PROVE  /\ IsFiniteSet(ToSet(s)) /\ Cardinality(ToSet(s)) \in Nat
           /\ Cardinality(ToSet(s)) <= Len(s) /\ Len(s) \in Nat
<1>1. Len(s) \in Nat /\ DOMAIN s = 1 .. Len(s)
  BY LenProperties
<1>2. IsFiniteSet(1 .. Len(s)) /\ Cardinality(1 .. Len(s)) = Len(s)
  <2>1. ASSUME NEW n \in Nat
        PROVE  IsFiniteSet(1 .. n) /\ Cardinality(1 .. n) = n
    <3>1. IsFiniteSet(1 .. n) /\ Cardinality(1 .. n) = IF 1 > n THEN 0 ELSE n - 1 + 1
      BY FS_Interval
    <3>. QED  BY <3>1
  <2>. QED  BY <1>1, <2>1
<1>. DEFINE f == [i \in 1 .. Len(s) |-> s[i]]
<1>3. f \in Surjection(1 .. Len(s), ToSet(s))
  BY <1>1 DEF Surjection, ToSet, Range
<1>. HIDE DEF f
<1>4. IsFiniteSet(ToSet(s)) /\ Cardinality(ToSet(s)) <= Cardinality(1 .. Len(s))
  BY <1>2, <1>3, FS_Surjection
<1>. QED  BY <1>1, <1>2, <1>4, FS_CardinalityType

\* Admission adds up the peaks of those in flight: that says something as long as no
\* request with a negative max_tokens takes from the sum.
PeaksAddUp == \A r \in Req : peak[r] >= 0

\* Such peaks are numbers of pages.
LEMMA PeaksInPages ==
    ASSUME TypeOK, PeaksAddUp
    PROVE  peak \in [Req -> Nat]
<1>1. peak \in [Req -> Int] /\ \A r \in Req : peak[r] >= 0
  BY SchedulerAssumption DEF TypeOK, PeaksAddUp
<1>2. \A r \in Req : peak[r] \in Nat
  BY <1>1
<1>. QED  BY <1>1, <1>2

\* The pages of a list without repetitions are those of its requests.
LEMMA LoadIsSum ==
    ASSUME TypeOK, PeaksAddUp, NEW s \in Seq(Req), IsInjective(s)
    PROVE  Load(s) = SumOf(peak, ToSet(s))
<1>. DEFINE D == DOMAIN s
            k == [i \in D |-> peak[s[i]]]
            IsLoad(H) == H = [T \in SUBSET D |->
                                IF T = {} THEN 0 ELSE peak[s[Chosen(T)]] + H[T \ {Chosen(T)}]]
            L == CHOOSE H : IsLoad(H)
<1>1. D = 1 .. Len(s) /\ Len(s) \in Nat /\ IsFiniteSet(D) /\ \A i \in D : s[i] \in Req
  BY LenProperties, ElementOfSeq, FS_Interval
<1>2. peak \in [Req -> Nat]
  BY PeaksInPages
<1>3. Load(s) = L[D]
  BY DEF Load, FoldSeq, FoldFunction, FoldFunctionOnSet, MapThenFoldSet, Chosen
<1>4. \A i \in D : k[i] = peak[s[i]] /\ peak[s[i]] \in Nat /\ s[i] \in Req
  BY <1>1, <1>2
<1>5. NatOn(k, D)
  BY <1>4 DEF NatOn
<1>. HIDE DEF k
<1>6. ASSUME NEW H PROVE IsFold(H, k, D) <=> IsLoad(H)
  <2>1. ASSUME NEW T \in SUBSET D
        PROVE  Turn(k, H, T) = IF T = {} THEN 0 ELSE peak[s[Chosen(T)]] + H[T \ {Chosen(T)}]
    <3>1. T # {} => Chosen(T) \in D
      BY DEF Chosen
    <3>. HIDE DEF D
    <3>. QED  BY <1>4, <3>1 DEF Turn
  <2>2. [T \in SUBSET D |-> Turn(k, H, T)]
           = [T \in SUBSET D |-> IF T = {} THEN 0 ELSE peak[s[Chosen(T)]] + H[T \ {Chosen(T)}]]
    BY <2>1
  <2>. QED  BY <2>2 DEF IsFold
<1>. HIDE DEF D, IsLoad
<1>7. IsFold(L, k, D)
  <2>1. \E H : IsFold(H, k, D)
    BY <1>1, <1>5, FoldExists
  <2>2. \E H : IsLoad(H)
    BY <1>6, <2>1
  <2>3. IsLoad(L)
    BY <2>2
  <2>. QED  BY <1>6, <2>3
<1>8. L[D] = SumOf(k, D)
  <2>. HIDE DEF L
  <2>. QED  BY <1>1, <1>5, <1>7, FoldGivesSum
<1>9. SumOf(k, D) = SumOf(peak, ToSet(s))
  <2>1. \A i \in D : \A j \in D : s[i] = s[j] => i = j
    BY DEF IsInjective, D
  <2>2. ToSet(s) = {s[i] : i \in D}
    BY DEF ToSet, D
  <2>3. Reindexes(s, D, ToSet(s), k, peak)
    BY <1>4, <2>1, <2>2 DEF Reindexes
  <2>. QED  BY <1>1, <2>3, SumReindexed
<1>. QED  BY <1>3, <1>8, <1>9

\* The requests a step has taken on: those in flight, and what is left of a batch.
Taken == InFlight \cup (IF pc = "prefill one" THEN ToSet(todo) ELSE {})

\* The bounds hold of these, and only the paged mode prefills in parts.
BoundInv ==
    /\ Cardinality(Taken) <= MaxRunning
    /\ mode = "paged" /\ PeaksAddUp => SumOf(peak, InFlight) <= NumPages
    /\ mode # "paged" => /\ ToSet(prefilling) = {}
                         /\ pc \notin {"prefill batch", "prefilled"}

\* A part of what was taken on is within the bounds.
LEMMA PartBounded ==
    ASSUME IInv, BoundInv, Taken' \subseteq Taken, InFlight' \subseteq InFlight \/ mode # "paged",
           ToSet(prefilling') \subseteq ToSet(prefilling),
           mode' = mode, peak' = peak,
           mode # "paged" => pc' \notin {"prefill batch", "prefilled"}
    PROVE  BoundInv'
<1>1. /\ IsFiniteSet(InFlight) /\ IsFiniteSet(Taken) /\ InFlight \subseteq Req
      /\ PeaksAddUp => peak \in [Req -> Nat]
  <2>1. /\ IsFiniteSet(ToSet(prefilling)) /\ IsFiniteSet(ToSet(running))
        /\ IsFiniteSet(ToSet(todo)) /\ IsFiniteSet({})
    BY SetOfList, FS_EmptySet DEF IInv, TypeOK
  <2>2. IsFiniteSet(InFlight)
    BY <2>1, FS_Union DEF InFlight
  <2>3. IsFiniteSet(Taken)
    BY <2>1, <2>2, FS_Union DEF Taken
  <2>. QED  BY <2>2, <2>3, ListsOfRequests, PeaksInPages DEF IInv, InFlight
<1>2. Cardinality(Taken') <= MaxRunning
  <2>1. /\ Cardinality(Taken') <= Cardinality(Taken)
        /\ Cardinality(Taken) \in Nat /\ Cardinality(Taken') \in Nat
    BY <1>1, FS_Subset, FS_CardinalityType
  <2>2. Cardinality(Taken) <= MaxRunning
    BY DEF BoundInv
  <2>3. MaxRunning \in Nat
    BY SchedulerAssumption
  <2>. QED  BY <2>1, <2>2, <2>3, AtMost
<1>3. mode = "paged" /\ PeaksAddUp => SumOf(peak, InFlight') <= NumPages
  <2>. SUFFICES ASSUME mode = "paged", PeaksAddUp PROVE SumOf(peak, InFlight') <= NumPages
    OBVIOUS
  <2>1. SumRules(peak, InFlight)
    BY <1>1, SumFacts DEF NatOn
  <2>2. /\ SumOf(peak, InFlight') <= SumOf(peak, InFlight)
        /\ SumOf(peak, InFlight') \in Nat /\ SumOf(peak, InFlight) \in Nat
    BY <2>1 DEF SumRules
  <2>3. SumOf(peak, InFlight) <= NumPages /\ NumPages \in Nat
    BY SchedulerAssumption DEF BoundInv
  <2>. QED  BY <2>2, <2>3
<1>. QED  BY <1>2, <1>3 DEF BoundInv, PeaksAddUp

\* What a step leaves of it when it takes nothing on.
TakesNoneOn ==
    /\ Taken' \subseteq Taken /\ (InFlight' \subseteq InFlight \/ mode # "paged")
    /\ ToSet(prefilling') \subseteq ToSet(prefilling)
    /\ mode' = mode /\ peak' = peak
    /\ mode # "paged" => pc' \notin {"prefill batch", "prefilled"}

\* Taking a token takes nothing on: the request it is for was taken on before.
LEMMA TokenTakesNoneOn ==
    ASSUME IInv, BoundInv, BaselineToken \/ PrefillOne \/ PrefilledOne \/ DecodedOne
    PROVE  TakesNoneOn
<1>. USE DEF outside, outer, lists, local
<1>. DEFINE h == Head(todo)
<1>1. /\ h \in Req /\ ToSet(todo) = {h} \cup ToSet(Tail(todo))
      /\ prefilling \in Seq(Req) /\ running \in Seq(Req)
  <2>1. todo # << >> /\ todo \in Seq(Req)
    BY DEF BaselineToken, PrefillOne, PrefilledOne, DecodedOne, IInv, LocalsInv, TypeOK
  <2>. QED  BY <2>1, HeadAndTail DEF IInv, TypeOK
<1>2. /\ pc \in {"baseline", "prefill one", "prefilled", "decoded"}
      /\ mode' = mode /\ peak' = peak
      /\ pc = "prefill one" => todo' = Tail(todo)
      /\ pc' = pc \/ pc' = "loop"
      /\ mode # "paged" => pc # "prefilled"
  BY DEF BaselineToken, PrefillOne, PrefilledOne, DecodedOne, BoundInv
<1>3. /\ ToSet(prefilling') \subseteq ToSet(prefilling)
      /\ \/ ToSet(running') \subseteq ToSet(running)
         \/ ToSet(running') = ToSet(running) \cup {h} /\ pc \in {"prefill one", "prefilled"}
  <2>1. ASSUME NEW go, TakeToken(h, go),
               go => \/ running' = running
                     \/ running' = Append(running, h) /\ pc \in {"prefill one", "prefilled"}
        PROVE  <1>3!1 /\ <1>3!2
    <3>. HIDE DEF h
    <3>1. Finishes(h) \/ (go /\ prefilling' = prefilling)
      BY <1>1, <2>1, TakeTokenFacts
    <3>2. ToSet(Append(running, h)) = ToSet(running) \cup {h}
      BY <1>1, Appended
    <3>. QED  BY <2>1, <3>1, <3>2 DEF Finishes
  <2>2. CASE BaselineToken
    <3>. DEFINE go == UNCHANGED <<running, status, keep>> /\ kv' = [kv EXCEPT ![h] = TRUE]
    <3>1. TakeToken(h, go) /\ (go => running' = running)
      BY <2>2 DEF BaselineToken
    <3>. HIDE DEF go, h
    <3>. QED  BY <2>1, <3>1
  <2>3. CASE PrefillOne
    <3>. DEFINE go == /\ running' = Append(running, h)
                      /\ status' = [status EXCEPT ![h] = "running"]
                      /\ kv' = [kv EXCEPT ![h] = TRUE]
                      /\ UNCHANGED keep
    <3>1. TakeToken(h, go) /\ (go => running' = Append(running, h)) /\ pc = "prefill one"
      BY <2>3 DEF PrefillOne
    <3>. HIDE DEF go, h
    <3>. QED  BY <2>1, <3>1
  <2>4. CASE DecodedOne
    <3>. DEFINE go == keep' = Append(keep, h) /\ UNCHANGED <<running, status, kv>>
    <3>1. TakeToken(h, go) /\ (go => running' = running)
      BY <2>4 DEF DecodedOne
    <3>. HIDE DEF go, h
    <3>. QED  BY <2>1, <3>1
  <2>5. CASE PrefilledOne
    <3>1. CASE FirstToken(h)
      <4>. DEFINE go == running' = Append(running, h) /\ UNCHANGED <<status, kv, keep>>
      <4>1. TakeToken(h, go) /\ (go => running' = Append(running, h)) /\ pc = "prefilled"
        BY <2>5, <3>1 DEF PrefilledOne, FirstToken
      <4>. HIDE DEF go, h
      <4>. QED  BY <2>1, <4>1
    <3>2. CASE RetractOne(h) \/ ChunkOne(h)
      BY <3>2 DEF RetractOne, ChunkOne
    <3>. QED  BY <2>5, <3>1, <3>2 DEF PrefilledOne
  <2>. QED  BY <2>2, <2>3, <2>4, <2>5
<1>4. pc = "prefilled" => h \in ToSet(prefilling)
  BY <1>1 DEF IInv, PrefilledInv
<1>5. pc = "prefill one" => mode # "paged"
  BY DEF IInv, LocalsInv
<1>. HIDE DEF h
<1>6. InFlight' \subseteq InFlight \/ (pc = "prefill one" /\ InFlight' \subseteq InFlight \cup {h})
  BY <1>3, <1>4 DEF InFlight
<1>7. Taken' \subseteq Taken
  BY <1>1, <1>2, <1>6 DEF Taken
<1>. QED  BY <1>2, <1>3, <1>5, <1>6, <1>7 DEF TakesNoneOn

\* Nor does any other step but the two admissions.
LEMMA OthersTakeNoneOn ==
    ASSUME IInv, BoundInv,
           \/ BaselineStart \/ PrefillBatch \/ PrefilledEnd
           \/ Decode \/ DecodedEnd \/ AbortOne \/ AbortEnd
           \/ PrefillAllDone \/ NothingToPrefill \/ NothingToDecode \/ ThreadEnd
           \/ BaselineRaises \/ PrefillOneRaises \/ PrefillBatchRaises \/ DecodeRaises
           \/ StreamRaises \/ FirstCommitRaises \/ AbortRaises
           \/ Stop \/ (\E r \in Req : AddRequest(r)) \/ UNCHANGED vars
    PROVE  TakesNoneOn
<1>. USE DEF outside, outer, lists, local
<1>1. CASE \/ BaselineStart \/ PrefillBatch \/ Decode \/ AbortEnd
           \/ PrefillAllDone \/ NothingToPrefill \/ NothingToDecode \/ ThreadEnd
           \/ BaselineRaises \/ PrefillOneRaises \/ PrefillBatchRaises \/ DecodeRaises
           \/ StreamRaises
  <2>1. /\ UNCHANGED <<prefilling, running, mode, peak>> /\ pc' # "prefill one"
        /\ pc' = "prefilled" => pc = "prefill batch"
        /\ pc' # "prefill batch"
    BY <1>1 DEF BaselineStart, PrefillBatch, Decode, AbortEnd, PrefillAllDone,
       NothingToPrefill, NothingToDecode, ThreadEnd, BaselineRaises, PrefillOneRaises,
       PrefillBatchRaises, DecodeRaises, StreamRaises, EngineRaisesAfterInit, StepFails,
       StepRaised
  <2>. QED  BY <2>1 DEF TakesNoneOn, Taken, InFlight, BoundInv
<1>2. CASE Stop \/ (\E r \in Req : AddRequest(r)) \/ UNCHANGED vars
  <2>1. UNCHANGED <<prefilling, running, mode, peak, pc, todo>>
    BY <1>2 DEF Stop, AddRequest, vars
  <2>. QED  BY <2>1 DEF TakesNoneOn, Taken, InFlight, BoundInv
<1>3. CASE PrefilledEnd \/ DecodedEnd
  <2>1. /\ UNCHANGED <<mode, peak>> /\ pc' \in {"decode", "loop"}
        /\ \/ prefilling' = keep /\ running' = running /\ pc = "prefilled"
           \/ prefilling' = prefilling /\ running' = keep /\ pc = "decoded"
    BY <1>3 DEF PrefilledEnd, DecodedEnd
  <2>2. /\ pc = "prefilled" => ToSet(keep) \subseteq ToSet(prefilling)
        /\ pc = "decoded" => ToSet(keep) \subseteq ToSet(running)
    BY DEF IInv, PrefilledInv, LoopsInv
  <2>. QED  BY <2>1, <2>2 DEF TakesNoneOn, Taken, InFlight
<1>4. CASE AbortOne
  <2>. DEFINE h == Head(todo)
              out == sent[h]
  <2>1. h \in Req
    BY <1>4, HeadAndTail DEF AbortOne, IInv, TypeOK
  <2>2. /\ FinishRequest(h, running, prefilling, out) /\ out \in Seq({"token", "finished"})
        /\ UNCHANGED <<mode, peak, pc>> /\ pc = "abort"
    BY <1>4, <2>1 DEF AbortOne, IInv, TypeOK
  <2>. HIDE DEF h, out
  <2>3. /\ ToSet(running') = ToSet(running) \ {h}
        /\ ToSet(prefilling') = ToSet(prefilling) \ {h}
    BY <2>1, <2>2, FinishRequestFacts
  <2>. QED  BY <2>2, <2>3 DEF TakesNoneOn, Taken, InFlight
<1>5. CASE FirstCommitRaises \/ AbortRaises
  <2>. DEFINE h == Head(todo)
  <2>1. h \in Req
    BY <1>5, HeadAndTail DEF FirstCommitRaises, AbortRaises, IInv, TypeOK
  <2>2. /\ running' = RemoveFirst(running, h) /\ prefilling' = RemoveFirst(prefilling, h)
        /\ UNCHANGED <<mode, peak>> /\ pc' \in {"abort", "died"}
    BY <1>5 DEF FirstCommitRaises, AbortRaises, StepRaised
  <2>. HIDE DEF h
  <2>3. /\ ToSet(running') = ToSet(running) \ {h}
        /\ ToSet(prefilling') = ToSet(prefilling) \ {h}
    BY <2>1, <2>2, LeavesLists
  <2>. QED  BY <2>2, <2>3 DEF TakesNoneOn, Taken, InFlight
<1>. QED  BY <1>1, <1>2, <1>3, <1>4, <1>5

\* Phase 1 of the batched step takes on no more than what is running leaves room for.
LEMMA BatchedAdmitBound ==
    ASSUME IInv, BoundInv, BatchedAdmit
    PROVE  BoundInv'
<1>. DEFINE room == IF MaxRunning > Len(running) THEN MaxRunning - Len(running) ELSE 0
            k == Min({Len(waiting), room})
            a == SubSeq(waiting, 1, k)
<1>1. /\ Len(waiting) \in Nat /\ Len(running) \in Nat /\ MaxRunning \in Nat
      /\ running \in Seq(Req) /\ waiting \in Seq(Req)
  BY LenProperties, SchedulerAssumption DEF IInv, TypeOK
<1>2. room \in Nat /\ (room = 0 \/ Len(running) + room <= MaxRunning)
  BY <1>1
<1>3. /\ todo' = a /\ pc' = "prefill one" /\ pc = "loop" /\ mode = "batched"
      /\ UNCHANGED <<prefilling, running, mode, peak>>
  BY DEF BatchedAdmit, AtLoop, outside
<1>. HIDE DEF room
<1>4. k \in 0 .. Len(waiting) /\ k <= room
  BY <1>1, <1>2 DEF Min
<1>. HIDE DEF k
<1>5. a \in Seq(Req) /\ Len(a) = k
  BY <1>1, <1>4, SubSeqProperties
<1>. HIDE DEF a
<1>6. ToSet(prefilling) = {}
  BY <1>3 DEF BoundInv
<1>7. Taken' = ToSet(running) \cup ToSet(a) /\ Taken = ToSet(running)
  BY <1>3, <1>6 DEF Taken, InFlight
<1>8. Cardinality(Taken') <= MaxRunning
  <2>1. /\ IsFiniteSet(ToSet(a)) /\ Cardinality(ToSet(a)) <= k /\ Cardinality(ToSet(a)) \in Nat
        /\ IsFiniteSet(ToSet(running)) /\ Cardinality(ToSet(running)) <= Len(running)
        /\ Cardinality(ToSet(running)) \in Nat
    BY <1>1, <1>5, SetOfList
  <2>2. CASE room = 0
    <3>1. k = 0 /\ a = << >>
      BY <1>1, <1>4, <1>5, <2>2, EmptySeq
    <3>2. Taken' = Taken
      BY <1>7, <3>1, ShortLists
    <3>. QED  BY <3>2 DEF BoundInv
  <2>3. CASE Len(running) + room <= MaxRunning
    <3>. DEFINE both == ToSet(running) \cap ToSet(a)
    <3>1. both \subseteq ToSet(a)
      OBVIOUS
    <3>2. Cardinality(both) \in Nat
      <4>. HIDE DEF both
      <4>. QED  BY <2>1, <3>1, FS_Subset, FS_CardinalityType
    <3>3. Cardinality(Taken')
            = Cardinality(ToSet(running)) + Cardinality(ToSet(a)) - Cardinality(both)
      BY <1>7, <2>1, FS_Union
    <3>. HIDE DEF both
    <3>. QED  BY <1>1, <1>2, <1>4, <2>1, <2>3, <3>2, <3>3
  <2>. QED  BY <1>2, <2>2, <2>3
<1>. QED  BY <1>3, <1>6, <1>8 DEF BoundInv

\* The admission of the paged step tests both bounds, on the lists it will have.
LEMMA PagedAdmitBound ==
    ASSUME IInv, BoundInv, PagedAdmit
    PROVE  BoundInv'
<1>1. PICK k \in 0 .. Len(waiting) :
         /\ \A j \in 1 .. k : Admissible(j)
         /\ prefilling' = prefilling \o SubSeq(waiting, 1, k)
  BY DEF PagedAdmit
<1>2. /\ mode = "paged" /\ pc' = "prefill batch" /\ pc = "loop"
      /\ UNCHANGED <<running, mode, peak>>
      /\ Len(waiting) \in Nat /\ Len(running) \in Nat /\ Len(prefilling) \in Nat
      /\ waiting \in Seq(Req) /\ running \in Seq(Req) /\ prefilling \in Seq(Req)
      /\ ToSet(waiting) \cap InFlight = {} /\ ToSet(prefilling) \cap ToSet(running) = {}
      /\ IsInjective(waiting) /\ IsInjective(running) /\ IsInjective(prefilling)
      /\ MaxRunning \in Nat
  BY LenProperties, SchedulerAssumption
     DEF PagedAdmit, AtLoop, local, outside, IInv, TypeOK, NoDuplicates
<1>0. k \in 0 .. Len(waiting) /\ k \in Nat /\ k <= Len(waiting)
  <2>1. k \in 0 .. Len(waiting)
    OBVIOUS
  <2>2. Len(waiting) \in Nat
    BY <1>2
  <2>. QED  BY <2>1, <2>2
<1>. DEFINE a == SubSeq(waiting, 1, k)
<1>3. /\ a \in Seq(Req) /\ IsInjective(a) /\ ToSet(a) \subseteq ToSet(waiting)
      /\ Len(a) = k
  <2>1. waiting \in Seq(Req) /\ Len(waiting) \in Nat /\ IsInjective(waiting)
    BY <1>2
  <2>2. Len(a) = k
    BY <1>0, <2>1, SubSeqProperties
  <2>3. a \in Seq(Req) /\ IsInjective(a) /\ ToSet(a) \subseteq ToSet(waiting)
    BY <1>0, <2>1, Divided
  <2>. QED  BY <2>2, <2>3
<1>4. prefilling' = prefilling \o a
  BY <1>1
<1>5. k > 0 => /\ Len(running) + Len(prefilling) + k <= MaxRunning
               /\ Load(running \o prefilling \o a) <= NumPages
  <2>1. k > 0 => k \in 1 .. k
    BY <1>0
  <2>. QED  BY <1>1, <2>1 DEF Admissible
<1>. HIDE DEF a
<1>6. ToSet(prefilling') = ToSet(prefilling) \cup ToSet(a)
  <2>1. ToSet(prefilling \o a) = ToSet(prefilling) \cup ToSet(a)
    <3>1. prefilling \in Seq(Req) /\ a \in Seq(Req)
      BY <1>2, <1>3
    <3>2. /\ prefilling \o a \in Seq(Req)
          /\ ToSet(prefilling \o a) = ToSet(prefilling) \cup ToSet(a)
      BY <3>1, Joined
    <3>. QED  BY <3>2
  <2>. QED  BY <1>4, <2>1
<1>7. Taken' = InFlight' /\ Taken = InFlight /\ InFlight' = InFlight \cup ToSet(a)
  BY <1>2, <1>6 DEF Taken, InFlight
<1>8. CASE k = 0
  <2>1. ToSet(a) = {}
    BY <1>3, <1>8, EmptySeq, ShortLists
  <2>. QED  BY <1>2, <1>7, <2>1 DEF BoundInv, PeaksAddUp
<1>9. CASE k > 0
  <2>. DEFINE all == running \o prefilling \o a
  <2>1. /\ all \in Seq(Req) /\ IsInjective(all) /\ ToSet(all) = InFlight'
        /\ Len(all) = Len(running) + Len(prefilling) + k
    <3>. DEFINE rp == running \o prefilling
    <3>1. rp \in Seq(Req) /\ IsInjective(rp) /\ ToSet(rp) = ToSet(running) \cup ToSet(prefilling)
          /\ Len(rp) = Len(running) + Len(prefilling)
      <4>1. /\ running \in Seq(Req) /\ IsInjective(running)
            /\ prefilling \in Seq(Req) /\ IsInjective(prefilling)
            /\ ToSet(running) \cap ToSet(prefilling) = {}
        BY <1>2
      <4>2. rp \in Seq(Req) /\ IsInjective(rp) /\ ToSet(rp) = ToSet(running) \cup ToSet(prefilling)
        BY <4>1, Joined
      <4>. QED  BY <4>1, <4>2, ConcatProperties
    <3>2. ToSet(rp) \cap ToSet(a) = {}
      BY <1>2, <1>3, <3>1 DEF InFlight
    <3>3. all = rp \o a
      OBVIOUS
    <3>. HIDE DEF rp, all
    <3>4. /\ rp \o a \in Seq(Req) /\ IsInjective(rp \o a)
          /\ ToSet(rp \o a) = ToSet(rp) \cup ToSet(a)
      BY <1>3, <3>1, <3>2, Joined
    <3>5. Len(rp \o a) = Len(rp) + Len(a)
      BY <1>3, <3>1, ConcatProperties
    <3>. QED  BY <1>2, <1>3, <1>7, <3>1, <3>3, <3>4, <3>5 DEF InFlight
  <2>2. Load(all) <= NumPages
    BY <1>5, <1>9
  <2>. HIDE DEF all
  <2>3. Cardinality(InFlight') <= MaxRunning
    <3>1. Cardinality(ToSet(all)) <= Len(all) /\ Cardinality(ToSet(all)) \in Nat
      BY <2>1, SetOfList
    <3>2. Len(all) <= MaxRunning /\ Len(all) \in Nat
      <4>1. /\ Len(all) = Len(running) + Len(prefilling) + k
            /\ Len(running) \in Nat /\ Len(prefilling) \in Nat
        BY <1>2, <2>1
      <4>2. Len(running) + Len(prefilling) + k <= MaxRunning
        BY <1>5, <1>9
      <4>. QED  BY <1>0, <4>1, <4>2
    <3>. QED  BY <1>2, <2>1, <3>1, <3>2, AtMost
  <2>4. PeaksAddUp => SumOf(peak, InFlight') <= NumPages
    <3>1. TypeOK
      BY DEF IInv
    <3>2. PeaksAddUp => Load(all) = SumOf(peak, ToSet(all))
      BY <2>1, <3>1, LoadIsSum
    <3>. QED  BY <2>1, <2>2, <3>2
  <2>. QED  BY <1>2, <1>7, <2>3, <2>4 DEF BoundInv, PeaksAddUp
<1>. QED  BY <1>0, <1>8, <1>9

\* The bounds are inductive.
LEMMA BoundInvariant == Spec => []BoundInv
<1>1. Init => BoundInv
  <2>. SUFFICES ASSUME Init PROVE BoundInv
    OBVIOUS
  <2>1. /\ prefilling = << >> /\ running = << >> /\ pc = "loop" /\ peak \in Peaks
    BY DEF Init
  <2>2. ToSet(prefilling) = {} /\ InFlight = {} /\ Taken = {}
    BY <2>1, ShortLists DEF InFlight, Taken
  <2>3. Cardinality({}) = 0 /\ IsFiniteSet({}) /\ MaxRunning \in Nat /\ NumPages \in Nat
    BY FS_EmptySet, SchedulerAssumption
  <2>4. SumOf(peak, {}) = 0
    <3>1. SumRules(peak, {})
      BY <2>3, SumFacts DEF NatOn
    <3>. QED  BY <3>1 DEF SumRules
  <2>. QED  BY <2>1, <2>2, <2>3, <2>4 DEF BoundInv
<1>2. IInv /\ BoundInv /\ [Next]_vars => BoundInv'
  <2>. SUFFICES ASSUME IInv, BoundInv, [Next]_vars PROVE BoundInv'
    OBVIOUS
  <2>1. CASE BatchedAdmit \/ PagedAdmit
    BY <2>1, BatchedAdmitBound, PagedAdmitBound
  <2>2. CASE TakesNoneOn
    BY <2>2, PartBounded DEF TakesNoneOn
  <2>. QED  BY <2>1, <2>2, TokenTakesNoneOn, OthersTakeNoneOn DEF Next, SchedulerStep
<1>. QED  BY <1>1, <1>2, Invariant, PTL DEF Spec

\* max_running bounds what runs and prefills, and in paged mode, as long as no peak is
\* negative, the worst case of all of it fits the pool, whatever is retracted, aborted
\* or answered in between.
THEOREM InFlightStaysBounded == Spec => []InFlightBounded
<1>1. IInv /\ BoundInv => InFlightBounded
  <2>. SUFFICES ASSUME IInv, BoundInv PROVE InFlightBounded
    OBVIOUS
  <2>1. ToSet(prefilling \o running) = InFlight
    BY Joined DEF IInv, TypeOK, InFlight
  <2>2. /\ IsFiniteSet(Taken) /\ InFlight \subseteq Taken
    <3>1. /\ IsFiniteSet(ToSet(prefilling)) /\ IsFiniteSet(ToSet(running))
          /\ IsFiniteSet(ToSet(todo)) /\ IsFiniteSet({})
      BY SetOfList, FS_EmptySet DEF IInv, TypeOK
    <3>. QED  BY <3>1, FS_Union DEF Taken, InFlight
  <2>3. Cardinality(InFlight) <= MaxRunning
    <3>1. /\ Cardinality(InFlight) <= Cardinality(Taken)
          /\ Cardinality(Taken) \in Nat /\ Cardinality(InFlight) \in Nat
      BY <2>2, FS_Subset, FS_CardinalityType
    <3>. QED  BY <3>1, AtMost, SchedulerAssumption DEF BoundInv
  <2>4. mode = "paged" /\ PeaksAddUp => MapThenSumSet(LAMBDA r : peak[r], InFlight) <= NumPages
    BY DEF BoundInv, SumOf
  <2>. QED  BY <2>1, <2>3, <2>4 DEF InFlightBounded, PeaksAddUp
<1>. QED  BY <1>1, Invariant, BoundInvariant, PTL
=============================================================================
