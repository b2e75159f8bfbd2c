---------------------------- MODULE ServerProofs ----------------------------
(***************************************************************************)
(* What holds of the server's coroutines, calls and threads for any        *)
(* requests, stream lengths, number of threads and sets of stuck requests. *)
(***************************************************************************)
EXTENDS Server, TLAPS

\* Does the get of r wait for a thread?
Called(r) == \E i \in 1 .. Len(calls) : calls[i] = r

Typed ==
    /\ asked \in [Req -> BOOLEAN] /\ produced \in [Req -> Nat] /\ closed \in [Req -> BOOLEAN]
    /\ stuck \in StuckSets
    /\ up \in {"serving", "draining", "closing", "stopped"}
    /\ co \in [Req -> {"none", "ready", "waiting", "done", "gone"}]
    /\ calls \in Seq(Req) /\ threads \subseteq Req
    /\ taken \in [Req -> Nat] /\ got \in [Req -> Nat]
    /\ item \in [Req -> {"none", "token", "end"}]

CalledOnce == \A i, j \in 1 .. Len(calls) : calls[i] = calls[j] => i = j

\* How far the stream of r, its get and its coroutine can be apart.
InStep(r) ==
    /\ asked[r] <=> co[r] # "none"
    /\ produced[r] <= MaxNew[r] /\ got[r] <= produced[r] /\ taken[r] <= produced[r] + 1
    /\ taken[r] = produced[r] + 1 => closed[r]
    /\ Called(r) => co[r] = "waiting" /\ item[r] = "none" /\ r \notin threads
    /\ r \in threads => /\ co[r] \in {"waiting", "gone"} /\ item[r] = "none"
                        /\ taken[r] <= produced[r]
    /\ co[r] = "none" => item[r] = "none" /\ taken[r] = 0 /\ got[r] = 0
    /\ co[r] = "ready" => item[r] = "none" /\ taken[r] = got[r]
    /\ co[r] = "waiting" => CASE item[r] = "none" -> taken[r] = got[r]
                              [] item[r] = "token" -> /\ taken[r] = got[r] + 1
                                                      /\ taken[r] <= produced[r]
                              [] OTHER -> taken[r] = produced[r] + 1 /\ got[r] = produced[r]
    /\ co[r] = "done" => item[r] = "none" /\ closed[r] /\ got[r] = produced[r]
    /\ co[r] = "gone" => item[r] = "none"

IInv == Typed /\ CalledOnce /\ \A r \in Req : InStep(r)

-----------------------------------------------------------------------------
(* The queue of calls *)

\* run_in_executor puts one more call at the end of the executor's queue.
LEMMA CallAppended ==
    ASSUME Typed, CalledOnce, NEW r \in Req, ~ Called(r), calls' = Append(calls, r)
    PROVE  calls' \in Seq(Req) /\ CalledOnce' /\ \A x \in Req : Called(x)' <=> Called(x) \/ x = r
<1>1. /\ Len(calls') = Len(calls) + 1 /\ calls' \in Seq(Req) /\ Len(calls) \in Nat
      /\ \A i \in 1 .. Len(calls) : calls'[i] = calls[i] /\ calls'[Len(calls) + 1] = r
  BY DEF Typed
<1>2. CalledOnce'
  <2>1. \A i \in 1 .. Len(calls) + 1 : i \in 1 .. Len(calls) \/ i = Len(calls) + 1
    BY <1>1
  <2> QED BY <1>1, <2>1 DEF CalledOnce, Called
<1>3. \A x \in Req : Called(x)' <=> Called(x) \/ x = r
  BY <1>1 DEF Called
<1> QED BY <1>1, <1>2, <1>3

\* A thread takes the first call off it.
LEMMA CallPickedUp ==
    ASSUME Typed, CalledOnce, calls # << >>, calls' = Tail(calls), NEW r, r = Head(calls)
    PROVE  /\ calls' \in Seq(Req) /\ CalledOnce'
           /\ r \in Req /\ Called(r) /\ ~ Called(r)'
           /\ \A x \in Req : x # r => (Called(x)' <=> Called(x))
<1>1. /\ Len(calls) \in Nat \ {0} /\ Len(calls') = Len(calls) - 1 /\ calls' \in Seq(Req)
      /\ r = calls[1] /\ r \in Req
      /\ \A i \in 1 .. Len(calls) - 1 : calls'[i] = calls[i + 1]
  BY DEF Typed
<1>2. CalledOnce'
  <2> SUFFICES ASSUME NEW i \in 1 .. Len(calls) - 1, NEW j \in 1 .. Len(calls) - 1,
                      calls[i + 1] = calls[j + 1]
               PROVE  i = j
    BY <1>1 DEF CalledOnce
  <2>1. i + 1 = j + 1
    BY <1>1 DEF CalledOnce
  <2> QED BY <1>1, <2>1
<1>3. Called(r)
  BY <1>1 DEF Called
<1>4. ~ Called(r)'
  <2> SUFFICES ASSUME NEW i \in 1 .. Len(calls) - 1, calls[i + 1] = calls[1] PROVE FALSE
    BY <1>1 DEF Called
  <2>1. i + 1 = 1
    BY <1>1 DEF CalledOnce
  <2> QED BY <1>1, <2>1
<1>5. ASSUME NEW x \in Req, x # r PROVE Called(x)' <=> Called(x)
  <2>1. ASSUME Called(x) PROVE Called(x)'
    <3>1. PICK i \in 1 .. Len(calls) : calls[i] = x
      BY <2>1 DEF Called
    <3>2. i - 1 \in 1 .. Len(calls) - 1 /\ calls'[i - 1] = x
      BY <1>1, <1>5, <3>1
    <3> QED BY <1>1, <3>2 DEF Called
  <2>2. ASSUME Called(x)' PROVE Called(x)
    <3>1. PICK i \in 1 .. Len(calls) - 1 : calls[i + 1] = x
      BY <1>1, <2>2 DEF Called
    <3>2. i + 1 \in 1 .. Len(calls)
      BY <1>1
    <3> QED BY <3>1, <3>2 DEF Called
  <2> QED BY <2>1, <2>2
<1> QED BY <1>1, <1>2, <1>3, <1>4, <1>5

\* A cancelled coroutine takes its own call out of it.
LEMMA CallDropped ==
    ASSUME Typed, CalledOnce, NEW k \in 1 .. Len(calls), NEW r, calls[k] = r, calls' = DropCall(k)
    PROVE  /\ calls' \in Seq(Req) /\ CalledOnce' /\ ~ Called(r)'
           /\ \A x \in Req : Called(x)' => Called(x)
<1>1. /\ Len(calls) \in Nat \ {0} /\ \A i \in 1 .. Len(calls) : calls[i] \in Req
  BY DEF Typed
<1> DEFINE old(i) == IF i < k THEN i ELSE i + 1
<1>2. \A i \in 1 .. Len(calls) - 1 : old(i) \in 1 .. Len(calls) /\ calls'[i] = calls[old(i)]
  BY <1>1 DEF DropCall
<1>3. calls' \in [1 .. Len(calls) - 1 -> Req]
  BY <1>1, <1>2 DEF DropCall
<1>4. calls' \in Seq(Req) /\ Len(calls') = Len(calls) - 1
  BY <1>1, <1>3
<1>5. CalledOnce'
  <2> SUFFICES ASSUME NEW i \in 1 .. Len(calls) - 1, NEW j \in 1 .. Len(calls) - 1,
                      calls[old(i)] = calls[old(j)]
               PROVE  i = j
    BY <1>2, <1>4 DEF CalledOnce
  <2>1. old(i) = old(j)
    BY <1>2 DEF CalledOnce
  <2> QED BY <1>1, <2>1
<1>6. ~ Called(r)'
  <2> SUFFICES ASSUME NEW i \in 1 .. Len(calls) - 1, calls[old(i)] = calls[k] PROVE FALSE
    BY <1>2, <1>4 DEF Called
  <2>1. old(i) = k
    BY <1>2 DEF CalledOnce
  <2> QED BY <1>1, <2>1
<1>7. \A x \in Req : Called(x)' => Called(x)
  BY <1>2, <1>4 DEF Called
<1> QED BY <1>4, <1>5, <1>6, <1>7

-----------------------------------------------------------------------------
(* The invariant *)

LEMMA InitEstablishesIInv == Init => IInv
<1> SUFFICES ASSUME Init PROVE IInv
  OBVIOUS
<1> USE ServerAssumption DEF Init, StreamInit
<1>1. Typed
  BY DEF Typed
<1>2. CalledOnce
  BY DEF CalledOnce
<1>3. ASSUME NEW r \in Req PROVE InStep(r)
  <2>1. ~ Called(r)
    BY DEF Called
  <2> QED BY <2>1 DEF InStep
<1> QED BY <1>1, <1>2, <1>3 DEF IInv

\* Actions that leave the queue of calls alone.
LEMMA CallsUnchanged ==
    ASSUME CalledOnce, UNCHANGED calls
    PROVE  CalledOnce' /\ \A x \in Req : Called(x)' <=> Called(x)
BY DEF CalledOnce, Called

LEMMA ChatCompletionKeepsIInv ==
    ASSUME IInv, NEW r \in Req, ChatCompletion(r) PROVE IInv'
<1> USE DEF IInv
<1>1. Typed' BY DEF Typed, ChatCompletion, Ask
<1>2. CalledOnce' /\ \A x \in Req : Called(x)' <=> Called(x)
  BY CallsUnchanged DEF ChatCompletion
<1>3. ASSUME NEW x \in Req PROVE InStep(x)'
  BY <1>2 DEF Typed, InStep, ChatCompletion, Ask
<1> QED BY <1>1, <1>2, <1>3

LEMMA CallGetKeepsIInv ==
    ASSUME IInv, NEW r \in Req, CallGet(r) PROVE IInv'
<1> USE DEF IInv
<1>1. ~ Called(r) BY DEF InStep, CallGet
<1>2. calls' \in Seq(Req) /\ CalledOnce' /\ \A x \in Req : Called(x)' <=> Called(x) \/ x = r
  BY <1>1, CallAppended DEF CallGet
<1>3. Typed' BY <1>2 DEF Typed, CallGet, stream
<1>4. ASSUME NEW x \in Req PROVE InStep(x)'
  BY <1>2 DEF Typed, InStep, CallGet, stream
<1> QED BY <1>2, <1>3, <1>4

LEMMA ResumeKeepsIInv ==
    ASSUME IInv, NEW r \in Req, Resume(r) PROVE IInv'
<1> USE DEF IInv
<1>1. Typed' BY DEF Typed, Resume, stream
<1>2. CalledOnce' /\ \A x \in Req : Called(x)' <=> Called(x)
  BY CallsUnchanged DEF Resume
<1>3. ASSUME NEW x \in Req PROVE InStep(x)'
  BY <1>2 DEF Typed, InStep, Resume, stream
<1> QED BY <1>1, <1>2, <1>3

LEMMA PickUpKeepsIInv ==
    ASSUME IInv, PickUp PROVE IInv'
<1> USE DEF IInv
<1>1. PICK r : r = Head(calls) OBVIOUS
<1>2. /\ calls' \in Seq(Req) /\ CalledOnce' /\ r \in Req /\ Called(r) /\ ~ Called(r)'
      /\ \A x \in Req : x # r => (Called(x)' <=> Called(x))
  BY <1>1, CallPickedUp DEF PickUp
<1>3. threads' = threads \cup {r} BY <1>1 DEF PickUp
<1>4. Typed' BY <1>2, <1>3 DEF Typed, PickUp, stream
<1>5. ASSUME NEW x \in Req PROVE InStep(x)'
  BY <1>2, <1>3 DEF Typed, InStep, PickUp, stream
<1> QED BY <1>2, <1>4, <1>5

LEMMA GetReturnsKeepsIInv ==
    ASSUME IInv, NEW r \in Req, GetReturns(r) PROVE IInv'
<1> USE DEF IInv
<1>1. Typed' BY DEF Typed, GetReturns, stream
<1>2. CalledOnce' /\ \A x \in Req : Called(x)' <=> Called(x)
  BY CallsUnchanged DEF GetReturns
<1>3. ASSUME NEW x \in Req PROVE InStep(x)'
  BY <1>2 DEF Typed, InStep, GetReturns, stream
<1> QED BY <1>1, <1>2, <1>3

LEMMA DisconnectKeepsIInv ==
    ASSUME IInv, NEW r \in Req, Disconnect(r) PROVE IInv'
<1> USE DEF IInv
<1>1. /\ calls' \in Seq(Req) /\ CalledOnce' /\ ~ Called(r)'
      /\ \A x \in Req : Called(x)' => Called(x)
  <2>1. CASE Called(r)
    <3>1. PICK i \in 1 .. Len(calls) : calls[i] = r /\ calls' = DropCall(i)
      BY <2>1 DEF Called, Disconnect
    <3> QED BY <3>1, CallDropped
  <2>2. CASE ~ Called(r)
    <3>1. UNCHANGED calls BY <2>2 DEF Called, Disconnect
    <3> QED BY <2>2, <3>1, CallsUnchanged DEF Typed
  <2> QED BY <2>1, <2>2
<1>2. Typed' BY <1>1 DEF Typed, Disconnect, stream
<1>3. ASSUME NEW x \in Req PROVE InStep(x)'
  BY <1>1 DEF Typed, InStep, Disconnect, Live, stream
<1> QED BY <1>1, <1>2, <1>3

LEMMA LeaveKeepsIInv ==
    ASSUME IInv, Leave PROVE IInv'
<1> USE DEF IInv
<1>1. Typed' BY DEF Typed, Leave, stream
<1>2. CalledOnce' /\ \A x \in Req : ~ Called(x)'
  BY DEF Leave, CalledOnce, Called
<1>3. ASSUME NEW x \in Req PROVE InStep(x)'
  BY <1>2 DEF Typed, InStep, Leave, Live, stream
<1> QED BY <1>1, <1>2, <1>3

LEMMA AnswerKeepsIInv ==
    ASSUME IInv, NEW r \in Req, Answer(r) PROVE IInv'
<1> USE ServerAssumption DEF IInv, client
<1>1. CASE End(r)
  <2>1. Typed' BY <1>1 DEF Typed, End, Close
  <2>2. CalledOnce' /\ \A x \in Req : Called(x)' <=> Called(x)
    BY <1>1, CallsUnchanged DEF End
  <2>3. ASSUME NEW x \in Req PROVE InStep(x)'
    BY <1>1, <2>2 DEF Typed, InStep, End, Close
  <2> QED BY <2>1, <2>2, <2>3
<1>2. ASSUME NEW last \in BOOLEAN, Token(r, last) PROVE IInv'
  <2>1. Typed' BY <1>2 DEF Typed, Token, Produce
  <2>2. CalledOnce' /\ \A x \in Req : Called(x)' <=> Called(x)
    BY <1>2, CallsUnchanged DEF Token
  <2>3. ASSUME NEW x \in Req PROVE InStep(x)'
    BY <1>2, <2>2 DEF Typed, InStep, Token, Produce
  <2> QED BY <2>1, <2>2, <2>3
<1> QED BY <1>1, <1>2 DEF Answer

\* Interrupt, Stop and stuttering change no more than `up`.
LEMMA OnlyUpKeepsIInv ==
    ASSUME IInv, UNCHANGED <<stream, stuck, client>>,
           up' \in {"serving", "draining", "closing", "stopped"}
    PROVE  IInv'
<1> USE DEF IInv, client, stream
<1>1. Typed' BY DEF Typed
<1>2. CalledOnce' /\ \A x \in Req : Called(x)' <=> Called(x)
  BY CallsUnchanged
<1>3. ASSUME NEW x \in Req PROVE InStep(x)'
  BY <1>2 DEF InStep
<1> QED BY <1>1, <1>2, <1>3

LEMMA StepKeepsIInv == IInv /\ [Next]_vars => IInv'
<1> SUFFICES ASSUME IInv, [Next]_vars PROVE IInv'
  OBVIOUS
<1>1. CASE UNCHANGED vars
  BY <1>1, OnlyUpKeepsIInv DEF vars, stream, IInv, Typed
<1>2. CASE Interrupt \/ Stop
  BY <1>2, OnlyUpKeepsIInv DEF Interrupt, Stop
<1>3. CASE Drained \/ SecondInterrupt
  BY <1>3, LeaveKeepsIInv DEF Drained, SecondInterrupt
<1>4. CASE PickUp
  BY <1>4, PickUpKeepsIInv
<1>5. ASSUME NEW r \in Req, \/ ChatCompletion(r) \/ CallGet(r) \/ Resume(r)
                            \/ GetReturns(r) \/ Disconnect(r) \/ Answer(r)
      PROVE  IInv'
  BY <1>5, ChatCompletionKeepsIInv, CallGetKeepsIInv, ResumeKeepsIInv, GetReturnsKeepsIInv,
     DisconnectKeepsIInv, AnswerKeepsIInv
<1> QED BY <1>1, <1>2, <1>3, <1>4, <1>5 DEF Next

\* The coroutines, calls and threads stay in step with the streams in every reachable
\* state.
THEOREM ServerInvariant == Spec => []IInv
BY InitEstablishesIInv, StepKeepsIInv, PTL DEF Spec

-----------------------------------------------------------------------------
(* The properties *)

\* The state of the server is well typed, and no count passes the length of a stream.
THEOREM ServerTypeCorrect == Spec => []ServerTypeOK
<1>1. IInv => ServerTypeOK
  <2> SUFFICES ASSUME IInv PROVE ServerTypeOK
    OBVIOUS
  <2>1. ASSUME NEW r \in Req
        PROVE  produced[r] <= MaxNew[r] /\ taken[r] <= MaxNew[r] + 1 /\ got[r] <= MaxNew[r]
    BY ServerAssumption DEF IInv, Typed, InStep
  <2> QED BY <2>1 DEF IInv, Typed, ServerTypeOK
<1> QED BY <1>1, ServerInvariant, PTL

\* A response that ended is the whole answer of a request that was ended: no item is
\* lost or overtaken between the token queue, the thread and the coroutine.
THEOREM ResponsesComplete == Spec => []ResponseComplete
<1>1. IInv => ResponseComplete
  BY DEF IInv, InStep, ResponseComplete
<1> QED BY <1>1, ServerInvariant, PTL

\* No get is ever behind the finish marker of its request, so none holds a thread of
\* the executor for a stream that has been read to its end.
THEOREM GetsAlwaysCanReturn == Spec => []GetsCanReturn
<1>1. IInv => GetsCanReturn
  BY DEF IInv, Typed, InStep, Called, GetsCanReturn
<1> QED BY <1>1, ServerInvariant, PTL
=============================================================================
