------------------------- MODULE ValidateStream_proofs -------------------------
(***************************************************************************)
(* What ValidateSources promises its callers, proved for every pool, every *)
(* input and every moment of cancellation.                                 *)
(***************************************************************************)
EXTENDS ValidateStream, ValidateSources_proofs

-----------------------------------------------------------------------------
(* The invariant of the whole system: the engine's, and what its stream     *)
(* carries.                                                                 *)
StreamInv ==
  /\ EngineInv /\ UncutInv
  /\ reading \in BOOLEAN
  /\ ~reading => resultsClosed /\ results = <<>>
  /\ \E d, p : delivered = d /\ Carries(d, p)

LEMMA PushedIs ==
  ASSUME StreamInv
  PROVE  /\ delivered \in Seq(ResultRec) /\ results \in Seq(ResultRec)
         /\ Pushed \in Seq(ResultRec) /\ StreamIs(Pushed)
<1> PICK d, p : delivered = d /\ Carries(d, p)
  BY DEF StreamInv
<1> QED BY StreamType DEF StreamInv, Carries, Pushed

LEMMA StreamInvInit == Init => StreamInv
<1> SUFFICES ASSUME Init PROVE StreamInv
  OBVIOUS
<1>1. EngineInv /\ UncutInv
  BY EngineInvInit, UncutInit DEF Init
<1>2. delivered = <<>> /\ reading = TRUE
  BY DEF Init
<1>3. Carries(<<>>, <<>>)
  BY StreamBegins DEF Init
<1> QED BY <1>1, <1>2, <1>3 DEF StreamInv

LEMMA StreamInvStep == StreamInv /\ [Next]_vars => StreamInv'
<1> SUFFICES ASSUME StreamInv, [Next]_vars
             PROVE  StreamInv'
  OBVIOUS
<1>0. EngineInv /\ UncutInv
  BY DEF StreamInv
<1>1. PICK d, p : delivered = d /\ Carries(d, p)
  BY DEF StreamInv
<1>2. CASE Engine /\ UNCHANGED streamVars
  <2>1. EngineInv' /\ UncutInv'
    BY <1>0, <1>2, EngineInvStep, UncutStep
  <2>2. delivered' = d /\ reading' = reading
    BY <1>1, <1>2 DEF streamVars
  <2>3. PICK q : Carries(d, q)'
    BY <1>0, <1>1, <1>2, StreamEngineStep
  <2>4. ~reading => resultsClosed' /\ results' = <<>>
    BY <1>0, <1>2, ClosedIsEnd DEF StreamInv
  <2> QED BY <2>1, <2>2, <2>3, <2>4 DEF StreamInv
<1>3. CASE Receive
  <2>1. PICK r : Deliver(r) /\ delivered' = Append(delivered, r)
    BY <1>3 DEF Receive
  <2>2. reading /\ reading'
    BY <1>3 DEF Receive
  <2>3. ReaderStep /\ Carries(Append(d, r), p)'
    BY <1>0, <1>1, <2>1, StreamReceiveStep
  <2>4. EngineInv' /\ UncutInv'
    BY <1>0, <2>3, EngineInvStep, UncutStep
  <2>5. delivered' = Append(d, r)
    BY <1>1, <2>1
  <2> QED BY <2>2, <2>3, <2>4, <2>5 DEF StreamInv
<1>4. CASE RangeEnds \/ Cancel \/ Terminated \/ UNCHANGED vars
  <2>1. CancelCtx \/ UNCHANGED engineVars
    BY <1>4 DEF RangeEnds, Cancel, Terminated, vars
  <2>2. EngineInv' /\ UncutInv'
    BY <1>0, <2>1, EngineInvStep, UncutStep DEF ReaderStep
  <2>3. Carries(d, p)'
    BY <1>0, <1>1, <2>1, StreamRestStep
  <2>4. /\ delivered' = d /\ UNCHANGED <<results, resultsClosed>>
        /\ reading' = reading \/ (reading' = FALSE /\ resultsClosed /\ results = <<>>)
    BY <1>1, <1>4 DEF RangeEnds, StreamEnds, Cancel, CancelCtx, Terminated, vars, engineVars,
                      streamVars, chanVars
  <2> QED BY <2>2, <2>3, <2>4 DEF StreamInv
<1> QED BY <1>2, <1>3, <1>4 DEF Next

\* StreamInv is an invariant of the stream.
LEMMA StreamInvariant == Spec => []StreamInv
  BY StreamInvInit, StreamInvStep, PTL DEF Spec

-----------------------------------------------------------------------------
(* The theorems.                                                            *)

\* Type correctness: channels within capacity, no counter below zero.
THEOREM StreamTypeCorrect == Spec => []StreamTypeOK
<1>1. StreamInv => StreamTypeOK
  BY PushedIs DEF StreamInv, EngineInv, StreamTypeOK
<1> QED BY <1>1, StreamInvariant, PTL

\* The WaitGroup of every source counts its documents in flight, on every
\* path: sent, abandoned, run, dropped, drained.
THEOREM WaitGroupsBalance == Spec => []WaitGroupBalance
<1>1. StreamInv => WaitGroupBalance
  BY EngineInvImplies DEF StreamInv
<1> QED BY <1>1, StreamInvariant, PTL

\* No goroutine can reach a send on a closed channel.
THEOREM NeverSendsOnClosed == Spec => []NoSendOnClosed
<1>1. StreamInv => NoSendOnClosed
  BY EngineInvImplies DEF StreamInv
<1> QED BY <1>1, StreamInvariant, PTL

\* A sentinel arrives after every result of its source.
THEOREM SentinelsComeLast == Spec => []SentinelLast
<1>1. StreamInv => SentinelLast
  BY PushedIs DEF StreamIs, SentinelsEnd, SentinelLast
<1> QED BY <1>1, StreamInvariant, PTL

\* As many keys as elements.
LEMMA KeysCount ==
  ASSUME StreamInv
  PROVE  Cardinality({<<r.src, r.doc, r.final>> : r \in {Pushed[k] : k \in DOMAIN Pushed}}) = Len(Pushed)
<1> DEFINE S == 1 .. Len(Pushed)
           Key(k) == <<Pushed[k].src, Pushed[k].doc, Pushed[k].final>>
           T == {<<r.src, r.doc, r.final>> : r \in {Pushed[k] : k \in DOMAIN Pushed}}
           f == [k \in S |-> Key(k)]
<1>1. DOMAIN Pushed = S /\ Len(Pushed) \in Nat
  BY PushedIs, LenProperties
<1>2. IsFiniteSet(S) /\ Cardinality(S) = Len(Pushed)
  <2>1. 1 \in Int /\ Len(Pushed) \in Int /\ (1 > Len(Pushed) <=> Len(Pushed) = 0)
    BY <1>1
  <2>2. IsFiniteSet(S) /\ Cardinality(S) = IF 1 > Len(Pushed) THEN 0 ELSE Len(Pushed) - 1 + 1
    BY <2>1, FS_Interval
  <2> QED BY <1>1, <2>1, <2>2
<1>3. f \in [S -> T] /\ \A t \in T : \E k \in S : f[k] = t
  BY <1>1
<1>4. \A k, m \in S : f[k] = f[m] => k = m
  BY <1>1, PushedIs DEF StreamIs, CarriedOnce, SameKey
<1>5. ExistsBijection(S, T)
  <2>1. f \in Bijection(S, T)
    BY <1>3, <1>4 DEF Bijection, Injection, Surjection, IsInjective
  <2> QED BY <2>1 DEF ExistsBijection
<1> QED BY <1>2, <1>5, FS_Bijection

\* Each result and each sentinel once, whatever the interleaving; a cancelled
\* stream is short, and neither repeats nor invents.
THEOREM DeliversExactlyOnce == Spec => []ExactlyOnce
<1>1. StreamInv => ExactlyOnce
  <2> SUFFICES ASSUME StreamInv PROVE ExactlyOnce
    OBVIOUS
  <2> USE DEF StreamInv
  <2>0. sources \in Seq(SourceRec) /\ EngineInv
    BY InputsAssumption DEF EngineInv, TypeOK
  <2>1. ASSUME NEW k \in DOMAIN Pushed
        PROVE  Pushed[k] \in IF ctxDone THEN Owed \cup Aborted ELSE Owed
    <3>1. CASE Sentinel(Pushed[k])
      BY <3>1 DEF Sentinel, Owed
    <3>2. ASSUME NEW j \in Nat \X Nat, ResultOfJob(Pushed[k], j)
          PROVE  Pushed[k] \in IF ctxDone THEN Owed \cup Aborted ELSE Owed
      <4>1. j \in Jobs
        BY <3>2 DEF ResultOfJob, Walked, Jobs
      <4>2. PICK st \in Verdicts(j) : Pushed[k] = ResultOf(j, st)
        BY <3>2 DEF ResultOfJob
      <4>3. CASE st = ItemOf(j).status
        BY <3>2, <4>1, <4>2, <4>3 DEF Owed, ResultOfJob
      <4>4. CASE ctxDone /\ ItemOf(j).loads /\ st = "invalid"
        BY <4>1, <4>2, <4>4 DEF Aborted
      <4> QED BY <4>2, <4>3, <4>4 DEF Verdicts
    <3>3. Accounted(Pushed[k])
      BY PushedIs DEF StreamIs, CarriedOnce
    <3> QED BY <3>1, <3>2, <3>3 DEF Accounted
  <2>2. ASSUME ~reading, ~ctxDone, NEW r \in Owed
        PROVE  \E k \in DOMAIN Pushed : Pushed[k] = r
    <3>1. /\ Waiting = {} /\ \A s \in DOMAIN sources : waiter[s] = "done"
          /\ \A s \in DOMAIN sources : \A k \in DOMAIN sources[s].items : Walked(<<s, k>>)
      BY <2>0, <2>2, NothingWaits
    <3>2. ASSUME NEW s \in DOMAIN sources, r = FinalOf(s)
          PROVE  \E k \in DOMAIN Pushed : Pushed[k] = r
      BY <2>2, <3>1, <3>2, PushedIs DEF StreamIs, DeliveredAll
    <3>3. ASSUME NEW j \in Jobs, ItemOf(j).status # "none", r = ResultOf(j, ItemOf(j).status)
          PROVE  \E k \in DOMAIN Pushed : Pushed[k] = r
      <4>1. PICK s \in DOMAIN sources : j \in {s} \X DOMAIN sources[s].items
        BY DEF Jobs
      <4>2. sources[s].items \in Seq(Item)
        BY <2>0, ItemsType
      <4>3. PICK m \in DOMAIN sources[s].items : j = <<s, m>>
        BY <4>1
      <4>4. j \in Nat \X Nat /\ Walked(j) /\ j \notin Waiting
        BY <2>0, <3>1, <4>2, <4>3
      <4> QED BY <2>2, <3>3, <4>4, PushedIs DEF StreamIs, DeliveredAll
    <3> QED BY <3>2, <3>3 DEF Owed
  <2>3. ~reading /\ ~ctxDone => {Pushed[k] : k \in DOMAIN Pushed} = Owed
    BY <2>1, <2>2
  <2> QED BY <2>1, <2>3, KeysCount DEF ExactlyOnce
<1> QED BY <1>1, StreamInvariant, PTL
=============================================================================
