--------------------------- MODULE WebTermProofs ---------------------------
(* Proofs about WebTerm for any number of viewers and responders, any owners   *)
(* and any limit: the count of viewers is exact, an open tab is served or its  *)
(* end is on the way, and every step is one that ViewerPool allows.  Then, of  *)
(* the rules in Decisions, for any request, records and output: who sees a     *)
(* terminal, who may type and what is shown; and for any answers and failures  *)
(* of the forges: what is made of them.                                        *)
EXTENDS WebTerm, DecisionsProofs

(* The inductive invariant.  A close waits only for a viewer whose responder   *)
(* listens for it; answers are only for tabs that still ask; a responder has   *)
(* heard of no tab that was never opened; and a tab that was told OK but has   *)
(* not read it yet is already held.                                            *)
ClosesHeard == \A r \in Responder : \A v \in closes[r] : job[r][v] \in {"serving", "torn"}

AnswersAwaited == \A v \in Viewer : answers[v] # {} => tab[v].pc = "asking"

NewUnheard == \A r \in Responder, v \in Viewer : tab[v].pc = "new" => job[r][v] = "none"

Told(v) == (TRUE \in answers[v] \/ tab[v].pc = "open") /\ ~tab[v].done

Backed(v) == v \in ends \/ \E r \in Responder : v \in Holds(r)

ToldIsBacked == \A v \in Viewer : faults = 0 /\ Told(v) => Backed(v)

IInv == TypeOK /\ CountExact /\ ClosesHeard /\ AnswersAwaited /\ NewUnheard /\ ToldIsBacked

LEMMA HoldsFinite == \A r \in Responder : IsFiniteSet(Holds(r)) /\ Cardinality(Holds(r)) \in Nat
<1> TAKE r \in Responder
<1>1. Holds(r) \subseteq Viewer BY DEF Holds
<1> QED BY <1>1, FiniteAssumption, FS_Subset, FS_CardinalityType

(* A step that changes nobody's place keeps the count.                         *)
LEMMA CountKept ==
    ASSUME CountExact, UNCHANGED active, \A r \in Responder : Holds(r)' = Holds(r)
    PROVE  CountExact'
BY DEF CountExact

(* serveViewer's return gives back exactly the place it had.                   *)
LEMMA ReturnCounts ==
    ASSUME IInv, NEW r \in Responder, NEW v \in Viewer, job[r][v] \in Held, Return(r, v)
    PROVE  /\ CountExact' /\ active' \in [Responder -> Nat]
           /\ Holds(r)' = Holds(r) \ {v}
           /\ \A q \in Responder : q # r => Holds(q)' = Holds(q)
<1>1. Holds(r)' = Holds(r) \ {v}
  BY DEF IInv, TypeOK, Holds, Held, Return
<1>2. \A q \in Responder : q # r => Holds(q)' = Holds(q)
  BY DEF IInv, TypeOK, Holds, Return
<1>3. v \in Holds(r) BY DEF Holds
<1>4. Cardinality(Holds(r)') = Cardinality(Holds(r)) - 1
  BY <1>1, <1>3, HoldsFinite, FS_RemoveElement
<1>5. Cardinality(Holds(r)) # 0
  BY <1>3, HoldsFinite, FS_EmptySet
<1>6. active[r] \in Nat /\ active[r] = Cardinality(Holds(r)) /\ active[r] # 0
  BY <1>5 DEF IInv, TypeOK, CountExact
<1> active[r] - 1 \in Nat BY <1>6
<1> active' = [active EXCEPT ![r] = active[r] - 1] BY DEF Return
<1> active \in [Responder -> Nat] BY DEF IInv, TypeOK
<1>7. active' \in [Responder -> Nat] /\ active'[r] = active[r] - 1 OBVIOUS
<1>8. \A q \in Responder : q # r => active'[q] = active[q]
  BY DEF IInv, TypeOK, Return
<1>9. active'[r] = Cardinality(Holds(r)') /\ active'[r] <= MaxViewers
  BY <1>4, <1>6, <1>7, MaxViewersAssumption DEF IInv, CountExact
<1>10. \A q \in Responder : q # r => active'[q] = Cardinality(Holds(q)') /\ active'[q] <= MaxViewers
  BY <1>2, <1>8 DEF IInv, CountExact
<1> QED BY <1>1, <1>2, <1>7, <1>9, <1>10 DEF CountExact

LEMMA InitInv == Init => IInv
<1> SUFFICES ASSUME Init PROVE IInv OBVIOUS
<1>1. TypeOK BY DEF Init, TypeOK, At, Jobs
<1>2. \A r \in Responder : Holds(r) = {} BY DEF Init, Holds, Held
<1>3. CountExact BY <1>2, FS_EmptySet, MaxViewersAssumption DEF CountExact, Init
<1> QED BY <1>1, <1>3 DEF IInv, ClosesHeard, AnswersAwaited, NewUnheard, ToldIsBacked, Told, Init, At

(* A step that tells no tab anything new and takes nobody's backing away.      *)
LEMMA ToldKept ==
    ASSUME IInv, faults' = 0 => faults = 0,
           \A v \in Viewer : Told(v)' => Told(v),
           \A v \in Viewer : Told(v)' /\ Backed(v) => Backed(v)'
    PROVE  ToldIsBacked'
BY DEF IInv, ToldIsBacked


(* Every step keeps the invariant.                                             *)
LEMMA StepInv == IInv /\ [Next]_vars => IInv'
<1> SUFFICES ASSUME IInv, [Next]_vars PROVE IInv' OBVIOUS
<1> USE DEF IInv
<1>Open. ASSUME NEW v \in Viewer, Open(v) PROVE IInv'
  <2>1. TypeOK' BY <1>Open DEF Open, At, TypeOK, Jobs, Held
  <2>2. \A q \in Responder : Holds(q)' = Holds(q)
    BY <1>Open DEF Open, At, TypeOK, Holds, Held, NewUnheard, ClosesHeard
  <2>3. CountExact' BY <1>Open, <2>2, CountKept DEF Open, At
  <2>4. ClosesHeard' BY <1>Open DEF Open, At, TypeOK, ClosesHeard, NewUnheard
  <2>5. AnswersAwaited' BY <1>Open DEF Open, At, TypeOK, AnswersAwaited
  <2>6. NewUnheard' BY <1>Open DEF Open, At, TypeOK, NewUnheard
  <2>7. faults' = 0 => faults = 0 BY <1>Open DEF Open, At, TypeOK
  <2>8. \A w \in Viewer : Told(w)' => Told(w) BY <1>Open DEF Open, At, TypeOK, Told, AnswersAwaited
  <2>9. \A w \in Viewer : Told(w)' /\ Backed(w) => Backed(w)' BY <1>Open, <2>2 DEF Open, At, TypeOK, Told, Backed
  <2> QED BY <2>1, <2>3, <2>4, <2>5, <2>6, <2>7, <2>8, <2>9, ToldKept
<1>TakeAnswer. ASSUME NEW v \in Viewer, TakeAnswer(v) PROVE IInv'
  <2>1. TypeOK' BY <1>TakeAnswer, SMTT(20) DEF TakeAnswer, At, TypeOK, Jobs, Held
  <2>2. \A q \in Responder : Holds(q)' = Holds(q)
    BY <1>TakeAnswer DEF TakeAnswer, At, TypeOK, Holds, Held, NewUnheard, ClosesHeard
  <2>3. CountExact' BY <1>TakeAnswer, <2>2, CountKept DEF TakeAnswer, At
  <2>4. ClosesHeard' BY <1>TakeAnswer DEF TakeAnswer, At, TypeOK, ClosesHeard
  <2>5. AnswersAwaited' BY <1>TakeAnswer DEF TakeAnswer, At, TypeOK, AnswersAwaited
  <2>6. NewUnheard' BY <1>TakeAnswer DEF TakeAnswer, At, TypeOK, NewUnheard
  <2>7. faults' = 0 => faults = 0 BY <1>TakeAnswer DEF TakeAnswer, At, TypeOK
  <2>8. \A w \in Viewer : Told(w)' => Told(w)
    <3> PICK ok \in answers[v] : tab' = [tab EXCEPT ![v] = IF ok THEN [@ EXCEPT !.pc = "open"] ELSE At("left")]
      BY <1>TakeAnswer DEF TakeAnswer
    <3>1. ok \in BOOLEAN BY DEF TypeOK
    <3>2. answers' = [answers EXCEPT ![v] = {}] BY <1>TakeAnswer DEF TakeAnswer
    <3>3. CASE ok
      <4>1. tab' = [tab EXCEPT ![v] = [@ EXCEPT !.pc = "open"]] BY <3>3
      <4>2. TRUE \in answers[v] BY <3>1, <3>3
      <4>3. \A w \in Viewer : tab'[w].done = tab[w].done /\ (w # v => tab'[w] = tab[w])
        BY <4>1 DEF TypeOK
      <4>4. \A w \in Viewer : w # v => answers'[w] = answers[w] BY <3>2 DEF TypeOK
      <4> QED BY <4>2, <4>3, <4>4 DEF Told
    <3>4. CASE ~ok
      <4>1. tab' = [tab EXCEPT ![v] = At("left")] BY <3>4
      <4>2. tab'[v].pc = "left" /\ answers'[v] = {} BY <3>2, <4>1 DEF TypeOK, At
      <4>3. \A w \in Viewer : w # v => answers'[w] = answers[w] /\ tab'[w] = tab[w]
        BY <3>2, <4>1 DEF TypeOK
      <4> QED BY <4>2, <4>3 DEF Told
    <3> QED BY <3>3, <3>4
  <2>9. \A w \in Viewer : Told(w)' /\ Backed(w) => Backed(w)' BY <1>TakeAnswer, <2>2 DEF TakeAnswer, At, TypeOK, Told, Backed
  <2> QED BY <2>1, <2>3, <2>4, <2>5, <2>6, <2>7, <2>8, <2>9, ToldKept
<1>GiveUpAsking. ASSUME NEW v \in Viewer, GiveUpAsking(v) PROVE IInv'
  <2>1. TypeOK' BY <1>GiveUpAsking DEF GiveUpAsking, At, TypeOK, Jobs, Held
  <2>2. \A q \in Responder : Holds(q)' = Holds(q)
    BY <1>GiveUpAsking DEF GiveUpAsking, At, TypeOK, Holds, Held, NewUnheard, ClosesHeard
  <2>3. CountExact' BY <1>GiveUpAsking, <2>2, CountKept DEF GiveUpAsking, At
  <2>4. ClosesHeard' BY <1>GiveUpAsking DEF GiveUpAsking, At, TypeOK, ClosesHeard
  <2>5. AnswersAwaited' BY <1>GiveUpAsking DEF GiveUpAsking, At, TypeOK, AnswersAwaited
  <2>6. NewUnheard' BY <1>GiveUpAsking DEF GiveUpAsking, At, TypeOK, NewUnheard
  <2>7. faults' = 0 => faults = 0 BY <1>GiveUpAsking DEF GiveUpAsking, At, TypeOK
  <2>8. \A w \in Viewer : Told(w)' => Told(w) BY <1>GiveUpAsking DEF GiveUpAsking, At, TypeOK, Told, AnswersAwaited
  <2>9. \A w \in Viewer : Told(w)' /\ Backed(w) => Backed(w)' BY <1>GiveUpAsking, <2>2 DEF GiveUpAsking, At, TypeOK, Told, Backed
  <2> QED BY <2>1, <2>3, <2>4, <2>5, <2>6, <2>7, <2>8, <2>9, ToldKept
<1>Notice. ASSUME NEW v \in Viewer, Notice(v) PROVE IInv'
  <2>1. TypeOK' BY <1>Notice DEF Notice, TypeOK, Jobs, Held
  <2>2. \A q \in Responder : Holds(q)' = Holds(q)
    BY <1>Notice DEF Notice, TypeOK, Holds, Held, NewUnheard, ClosesHeard
  <2>3. CountExact' BY <1>Notice, <2>2, CountKept DEF Notice
  <2>4. ClosesHeard' BY <1>Notice DEF Notice, TypeOK, ClosesHeard
  <2>5. AnswersAwaited' BY <1>Notice DEF Notice, TypeOK, AnswersAwaited
  <2>6. NewUnheard' BY <1>Notice DEF Notice, TypeOK, NewUnheard
  <2>7. faults' = 0 => faults = 0 BY <1>Notice DEF Notice, TypeOK
  <2>8. \A w \in Viewer : Told(w)' => Told(w) BY <1>Notice DEF Notice, TypeOK, Told, AnswersAwaited
  <2>9. \A w \in Viewer : Told(w)' /\ Backed(w) => Backed(w)' BY <1>Notice, <2>2 DEF Notice, TypeOK, Told, Backed
  <2> QED BY <2>1, <2>3, <2>4, <2>5, <2>6, <2>7, <2>8, <2>9, ToldKept
<1>TakeEnd. ASSUME NEW v \in Viewer, TakeEnd(v) PROVE IInv'
  <2>1. TypeOK' BY <1>TakeEnd DEF TakeEnd, Listening, TypeOK, Jobs, Held
  <2>2. \A q \in Responder : Holds(q)' = Holds(q)
    BY <1>TakeEnd DEF TakeEnd, Listening, TypeOK, Holds, Held, NewUnheard, ClosesHeard
  <2>3. CountExact' BY <1>TakeEnd, <2>2, CountKept DEF TakeEnd, Listening
  <2>4. ClosesHeard' BY <1>TakeEnd DEF TakeEnd, Listening, TypeOK, ClosesHeard
  <2>5. AnswersAwaited' BY <1>TakeEnd DEF TakeEnd, Listening, TypeOK, AnswersAwaited
  <2>6. NewUnheard' BY <1>TakeEnd DEF TakeEnd, Listening, TypeOK, NewUnheard
  <2>7. faults' = 0 => faults = 0 BY <1>TakeEnd DEF TakeEnd, Listening, TypeOK
  <2>8. \A w \in Viewer : Told(w)' => Told(w) BY <1>TakeEnd DEF TakeEnd, Listening, TypeOK, Told, AnswersAwaited
  <2>9. \A w \in Viewer : Told(w)' /\ Backed(w) => Backed(w)' BY <1>TakeEnd, <2>2 DEF TakeEnd, Listening, TypeOK, Told, Backed
  <2> QED BY <2>1, <2>3, <2>4, <2>5, <2>6, <2>7, <2>8, <2>9, ToldKept
<1>Close. ASSUME NEW v \in Viewer, Close(v) PROVE IInv'
  <2>1. TypeOK' BY <1>Close DEF Close, At, TypeOK, Jobs, Held
  <2>2. \A q \in Responder : Holds(q)' = Holds(q)
    BY <1>Close DEF Close, At, TypeOK, Holds, Held, NewUnheard, ClosesHeard
  <2>3. CountExact' BY <1>Close, <2>2, CountKept DEF Close, At
  <2>4. ClosesHeard' BY <1>Close DEF Close, At, TypeOK, ClosesHeard
  <2>5. AnswersAwaited' BY <1>Close DEF Close, At, TypeOK, AnswersAwaited
  <2>6. NewUnheard' BY <1>Close DEF Close, At, TypeOK, NewUnheard
  <2>7. faults' = 0 => faults = 0 BY <1>Close DEF Close, At, TypeOK
  <2>8. \A w \in Viewer : Told(w)' => Told(w) BY <1>Close DEF Close, At, TypeOK, Told, AnswersAwaited
  <2>9. \A w \in Viewer : Told(w)' /\ Backed(w) => Backed(w)' BY <1>Close, <2>2 DEF Close, At, TypeOK, Told, Backed
  <2> QED BY <2>1, <2>3, <2>4, <2>5, <2>6, <2>7, <2>8, <2>9, ToldKept
<1>GatewayCrash. ASSUME GatewayCrash PROVE IInv'
  <2>1. TypeOK' BY <1>GatewayCrash DEF GatewayCrash, Fault, Listening, At, TypeOK, Jobs, Held
  <2>2. \A q \in Responder : Holds(q)' = Holds(q)
    BY <1>GatewayCrash DEF GatewayCrash, Fault, Listening, At, TypeOK, Holds, Held, NewUnheard, ClosesHeard
  <2>3. CountExact' BY <1>GatewayCrash, <2>2, CountKept DEF GatewayCrash, Fault, Listening, At
  <2>4. ClosesHeard' BY <1>GatewayCrash DEF GatewayCrash, Fault, Listening, At, TypeOK, ClosesHeard
  <2>5. AnswersAwaited' BY <1>GatewayCrash DEF GatewayCrash, Fault, Listening, At, TypeOK, AnswersAwaited
  <2>6. NewUnheard' BY <1>GatewayCrash DEF GatewayCrash, Fault, Listening, At, TypeOK, NewUnheard
  <2>7. faults' = 0 => faults = 0 BY <1>GatewayCrash DEF GatewayCrash, Fault, Listening, At, TypeOK
  <2>8. \A w \in Viewer : Told(w)' => Told(w) BY <1>GatewayCrash DEF GatewayCrash, Fault, Listening, At, TypeOK, Told, AnswersAwaited
  <2>9. \A w \in Viewer : Told(w)' /\ Backed(w) => Backed(w)' BY <1>GatewayCrash, <2>2 DEF GatewayCrash, Fault, Listening, At, TypeOK, Told, Backed
  <2> QED BY <2>1, <2>3, <2>4, <2>5, <2>6, <2>7, <2>8, <2>9, ToldKept
<1>BrowserLeaves. ASSUME NEW v \in Viewer, BrowserLeaves(v) PROVE IInv'
  <2>1. TypeOK' BY <1>BrowserLeaves DEF BrowserLeaves, Listening, TypeOK, Jobs, Held
  <2>2. \A q \in Responder : Holds(q)' = Holds(q)
    BY <1>BrowserLeaves DEF BrowserLeaves, Listening, TypeOK, Holds, Held, NewUnheard, ClosesHeard
  <2>3. CountExact' BY <1>BrowserLeaves, <2>2, CountKept DEF BrowserLeaves, Listening
  <2>4. ClosesHeard' BY <1>BrowserLeaves DEF BrowserLeaves, Listening, TypeOK, ClosesHeard
  <2>5. AnswersAwaited' BY <1>BrowserLeaves DEF BrowserLeaves, Listening, TypeOK, AnswersAwaited
  <2>6. NewUnheard' BY <1>BrowserLeaves DEF BrowserLeaves, Listening, TypeOK, NewUnheard
  <2>7. faults' = 0 => faults = 0 BY <1>BrowserLeaves DEF BrowserLeaves, Listening, TypeOK
  <2>8. \A w \in Viewer : Told(w)' => Told(w) BY <1>BrowserLeaves DEF BrowserLeaves, Listening, TypeOK, Told, AnswersAwaited
  <2>9. \A w \in Viewer : Told(w)' /\ Backed(w) => Backed(w)' BY <1>BrowserLeaves, <2>2 DEF BrowserLeaves, Listening, TypeOK, Told, Backed
  <2> QED BY <2>1, <2>3, <2>4, <2>5, <2>6, <2>7, <2>8, <2>9, ToldKept
<1>Ignore. ASSUME NEW r \in Responder, NEW v \in Viewer, Ignore(r, v) PROVE IInv'
  <2>1. TypeOK' BY <1>Ignore DEF Ignore, TypeOK, Jobs, Held
  <2>2. \A q \in Responder : Holds(q)' = Holds(q)
    BY <1>Ignore DEF Ignore, TypeOK, Holds, Held, NewUnheard, ClosesHeard
  <2>3. CountExact' BY <1>Ignore, <2>2, CountKept DEF Ignore
  <2>4. ClosesHeard' BY <1>Ignore DEF Ignore, TypeOK, ClosesHeard
  <2>5. AnswersAwaited' BY <1>Ignore DEF Ignore, TypeOK, AnswersAwaited
  <2>6. NewUnheard' BY <1>Ignore DEF Ignore, TypeOK, NewUnheard
  <2>7. faults' = 0 => faults = 0 BY <1>Ignore DEF Ignore, TypeOK
  <2>8. \A w \in Viewer : Told(w)' => Told(w) BY <1>Ignore DEF Ignore, TypeOK, Told, AnswersAwaited
  <2>9. \A w \in Viewer : Told(w)' /\ Backed(w) => Backed(w)' BY <1>Ignore, <2>2 DEF Ignore, TypeOK, Told, Backed
  <2> QED BY <2>1, <2>3, <2>4, <2>5, <2>6, <2>7, <2>8, <2>9, ToldKept
<1>Refuse. ASSUME NEW r \in Responder, NEW v \in Viewer, Refuse(r, v) PROVE IInv'
  <2>1. TypeOK' BY <1>Refuse DEF Refuse, Replied, TypeOK, Jobs, Held
  <2>2. \A q \in Responder : Holds(q)' = Holds(q)
    BY <1>Refuse DEF Refuse, Replied, TypeOK, Holds, Held, NewUnheard, ClosesHeard
  <2>3. CountExact' BY <1>Refuse, <2>2, CountKept DEF Refuse, Replied
  <2>4. ClosesHeard' BY <1>Refuse DEF Refuse, Replied, TypeOK, ClosesHeard
  <2>5. AnswersAwaited' BY <1>Refuse DEF Refuse, Replied, TypeOK, AnswersAwaited
  <2>6. NewUnheard' BY <1>Refuse DEF Refuse, Replied, TypeOK, NewUnheard
  <2>7. faults' = 0 => faults = 0 BY <1>Refuse DEF Refuse, Replied, TypeOK
  <2>8. \A w \in Viewer : Told(w)' => Told(w) BY <1>Refuse DEF Refuse, Replied, TypeOK, Told, AnswersAwaited
  <2>9. \A w \in Viewer : Told(w)' /\ Backed(w) => Backed(w)' BY <1>Refuse, <2>2 DEF Refuse, Replied, TypeOK, Told, Backed
  <2> QED BY <2>1, <2>3, <2>4, <2>5, <2>6, <2>7, <2>8, <2>9, ToldKept
<1>Accept. ASSUME NEW r \in Responder, NEW v \in Viewer, Accept(r, v) PROVE IInv'
  <2>0. /\ job[r][v] = "asked" /\ active[r] < MaxViewers
        /\ job' = [job EXCEPT ![r][v] = "accepted"]
        /\ active' = [active EXCEPT ![r] = @ + 1]
        /\ UNCHANGED <<session, tab, closes, ends, faults>>
    BY <1>Accept DEF Accept
  <2>a. answers' \in [Viewer -> SUBSET BOOLEAN] BY <1>Accept DEF Accept, Replied, TypeOK
  <2>b. active[r] + 1 \in Nat BY DEF TypeOK
  <2>c. active' \in [Responder -> Nat] BY <2>0, <2>b DEF TypeOK
  <2>1. TypeOK' BY <2>0, <2>a, <2>c DEF TypeOK, Jobs, Held
  <2>2. Holds(r)' = Holds(r) \cup {v} BY <2>0 DEF TypeOK, Holds, Held
  <2>3. \A q \in Responder : q # r => Holds(q)' = Holds(q) BY <2>0 DEF TypeOK, Holds
  <2>4. v \notin Holds(r) BY <2>0 DEF Holds, Held
  <2>5. Cardinality(Holds(r)') = Cardinality(Holds(r)) + 1
    BY <2>2, <2>4, HoldsFinite, FS_AddElement
  <2>6. CountExact'
    <3>1. active'[r] = active[r] + 1 /\ active[r] = Cardinality(Holds(r)) /\ active[r] \in Nat
      BY <2>0 DEF TypeOK, CountExact
    <3>2. active'[r] = Cardinality(Holds(r)') /\ active'[r] <= MaxViewers
      BY <2>0, <2>5, <3>1, MaxViewersAssumption
    <3>3. \A q \in Responder : q # r => active'[q] = active[q] BY <2>0 DEF TypeOK
    <3> QED BY <2>3, <3>2, <3>3 DEF CountExact
  <2>7. ClosesHeard' BY <2>0 DEF TypeOK, ClosesHeard
  <2>8. AnswersAwaited' BY <1>Accept DEF Accept, Replied, TypeOK, AnswersAwaited
  <2>9. NewUnheard' BY <2>0 DEF TypeOK, NewUnheard
  <2>10. \A w \in Viewer : Backed(w) => Backed(w)' BY <2>0, <2>2, <2>3 DEF Backed
  <2>11. Backed(v)' BY <2>2 DEF Backed
  <2>12. \A w \in Viewer : w # v => (Told(w)' <=> Told(w))
    <3>1. \A w \in Viewer : w # v => answers'[w] = answers[w]
      BY <1>Accept DEF Accept, Replied, TypeOK
    <3> QED BY <2>0, <3>1 DEF Told
  <2>13. ToldIsBacked' BY <2>0, <2>10, <2>11, <2>12 DEF ToldIsBacked
  <2> QED BY <2>1, <2>6, <2>7, <2>8, <2>9, <2>13
<1>Attach. ASSUME NEW r \in Responder, NEW v \in Viewer, Attach(r, v) PROVE IInv'
  <2>1. TypeOK' BY <1>Attach DEF Attach, TypeOK, Jobs, Held
  <2>2. \A q \in Responder : Holds(q)' = Holds(q)
    BY <1>Attach DEF Attach, TypeOK, Holds, Held, NewUnheard, ClosesHeard
  <2>3. CountExact' BY <1>Attach, <2>2, CountKept DEF Attach
  <2>4. ClosesHeard' BY <1>Attach DEF Attach, TypeOK, ClosesHeard
  <2>5. AnswersAwaited' BY <1>Attach DEF Attach, TypeOK, AnswersAwaited
  <2>6. NewUnheard' BY <1>Attach DEF Attach, TypeOK, NewUnheard
  <2>7. faults' = 0 => faults = 0 BY <1>Attach DEF Attach, TypeOK
  <2>8. \A w \in Viewer : Told(w)' => Told(w) BY <1>Attach DEF Attach, TypeOK, Told, AnswersAwaited
  <2>9. \A w \in Viewer : Told(w)' /\ Backed(w) => Backed(w)' BY <1>Attach, <2>2 DEF Attach, TypeOK, Told, Backed
  <2> QED BY <2>1, <2>3, <2>4, <2>5, <2>6, <2>7, <2>8, <2>9, ToldKept
<1>AttachFails. ASSUME NEW r \in Responder, NEW v \in Viewer, AttachFails(r, v) PROVE IInv'
  <2>0. Return(r, v) /\ job[r][v] \in Held /\ UNCHANGED <<session, tab, answers>>
    BY <1>AttachFails DEF AttachFails, Held
  <2>1. job' = [job EXCEPT ![r][v] = "none"] /\ closes' = [closes EXCEPT ![r] = @ \ {v}]
    BY <2>0 DEF Return
  <2>2. /\ CountExact' /\ active' \in [Responder -> Nat]
        /\ Holds(r)' = Holds(r) \ {v}
        /\ \A q \in Responder : q # r => Holds(q)' = Holds(q)
    BY <2>0, ReturnCounts
  <2>3. ends' \in SUBSET Viewer /\ faults' \in Nat BY <1>AttachFails DEF AttachFails, Ended, TypeOK
  <2>4. TypeOK' BY <2>0, <2>1, <2>2, <2>3 DEF TypeOK, Jobs
  <2>5. ClosesHeard' BY <2>1 DEF TypeOK, ClosesHeard
  <2>6. AnswersAwaited' BY <2>0 DEF AnswersAwaited
  <2>7. NewUnheard' BY <2>0, <2>1 DEF TypeOK, NewUnheard
  <2>8. ends \subseteq ends' /\ faults' = faults /\ (Listening(v) => v \in ends')
    BY <1>AttachFails DEF AttachFails, Ended
  <2>9. Told(v) => Listening(v) BY DEF Told, AnswersAwaited, Listening
  <2>10. \A w \in Viewer : w # v /\ Backed(w) => Backed(w)' BY <2>2, <2>8 DEF Backed
  <2>11. \A w \in Viewer : Told(w)' <=> Told(w) BY <2>0 DEF Told
  <2>12. Told(v) => Backed(v)' BY <2>8, <2>9 DEF Backed
  <2>13. ToldIsBacked' BY <2>8, <2>10, <2>11, <2>12 DEF ToldIsBacked
  <2> QED BY <2>2, <2>4, <2>5, <2>6, <2>7, <2>13
<1>SubscribeCtl. ASSUME NEW r \in Responder, NEW v \in Viewer, SubscribeCtl(r, v) PROVE IInv'
  <2>1. TypeOK' BY <1>SubscribeCtl DEF SubscribeCtl, TypeOK, Jobs, Held
  <2>2. \A q \in Responder : Holds(q)' = Holds(q)
    BY <1>SubscribeCtl DEF SubscribeCtl, TypeOK, Holds, Held, NewUnheard, ClosesHeard
  <2>3. CountExact' BY <1>SubscribeCtl, <2>2, CountKept DEF SubscribeCtl
  <2>4. ClosesHeard' BY <1>SubscribeCtl DEF SubscribeCtl, TypeOK, ClosesHeard
  <2>5. AnswersAwaited' BY <1>SubscribeCtl DEF SubscribeCtl, TypeOK, AnswersAwaited
  <2>6. NewUnheard' BY <1>SubscribeCtl DEF SubscribeCtl, TypeOK, NewUnheard
  <2>7. faults' = 0 => faults = 0 BY <1>SubscribeCtl DEF SubscribeCtl, TypeOK
  <2>8. \A w \in Viewer : Told(w)' => Told(w) BY <1>SubscribeCtl DEF SubscribeCtl, TypeOK, Told, AnswersAwaited
  <2>9. \A w \in Viewer : Told(w)' /\ Backed(w) => Backed(w)' BY <1>SubscribeCtl, <2>2 DEF SubscribeCtl, TypeOK, Told, Backed
  <2> QED BY <2>1, <2>3, <2>4, <2>5, <2>6, <2>7, <2>8, <2>9, ToldKept
<1>SubscribeFails. ASSUME NEW r \in Responder, NEW v \in Viewer, SubscribeFails(r, v) PROVE IInv'
  <2>0. Return(r, v) /\ job[r][v] \in Held /\ UNCHANGED <<session, tab, answers>>
    BY <1>SubscribeFails DEF SubscribeFails, Held
  <2>1. job' = [job EXCEPT ![r][v] = "none"] /\ closes' = [closes EXCEPT ![r] = @ \ {v}]
    BY <2>0 DEF Return
  <2>2. /\ CountExact' /\ active' \in [Responder -> Nat]
        /\ Holds(r)' = Holds(r) \ {v}
        /\ \A q \in Responder : q # r => Holds(q)' = Holds(q)
    BY <2>0, ReturnCounts
  <2>3. ends' \in SUBSET Viewer /\ faults' \in Nat BY <1>SubscribeFails DEF SubscribeFails, Fault, TypeOK
  <2>4. TypeOK' BY <2>0, <2>1, <2>2, <2>3 DEF TypeOK, Jobs
  <2>5. ClosesHeard' BY <2>1 DEF TypeOK, ClosesHeard
  <2>6. AnswersAwaited' BY <2>0 DEF AnswersAwaited
  <2>7. NewUnheard' BY <2>0, <2>1 DEF TypeOK, NewUnheard
  <2>13. ToldIsBacked' BY <1>SubscribeFails DEF SubscribeFails, Fault, TypeOK, ToldIsBacked
  <2> QED BY <2>2, <2>4, <2>5, <2>6, <2>7, <2>13
<1>TakeClose. ASSUME NEW r \in Responder, NEW v \in Viewer, TakeClose(r, v) PROVE IInv'
  <2>1. TypeOK' BY <1>TakeClose DEF TakeClose, TypeOK, Jobs, Held
  <2>2. \A q \in Responder : Holds(q)' = Holds(q)
    BY <1>TakeClose DEF TakeClose, TypeOK, Holds, Held, NewUnheard, ClosesHeard
  <2>3. CountExact' BY <1>TakeClose, <2>2, CountKept DEF TakeClose
  <2>4. ClosesHeard' BY <1>TakeClose DEF TakeClose, TypeOK, ClosesHeard
  <2>5. AnswersAwaited' BY <1>TakeClose DEF TakeClose, TypeOK, AnswersAwaited
  <2>6. NewUnheard' BY <1>TakeClose DEF TakeClose, TypeOK, NewUnheard, ClosesHeard
  <2>7. faults' = 0 => faults = 0 BY <1>TakeClose DEF TakeClose, TypeOK
  <2>8. \A w \in Viewer : Told(w)' => Told(w) BY <1>TakeClose DEF TakeClose, TypeOK, Told, AnswersAwaited
  <2>9. \A w \in Viewer : Told(w)' /\ Backed(w) => Backed(w)' BY <1>TakeClose, <2>2 DEF TakeClose, TypeOK, Told, Backed
  <2> QED BY <2>1, <2>3, <2>4, <2>5, <2>6, <2>7, <2>8, <2>9, ToldKept
<1>Idle. ASSUME NEW r \in Responder, NEW v \in Viewer, Idle(r, v) PROVE IInv'
  <2>1. TypeOK' BY <1>Idle DEF Idle, Fault, Ended, Reap, Beating, Listening, TypeOK, Jobs, Held
  <2>2. \A q \in Responder : Holds(q)' = Holds(q)
    BY <1>Idle DEF Idle, Fault, Ended, Reap, Beating, Listening, TypeOK, Holds, Held, NewUnheard, ClosesHeard
  <2>3. CountExact' BY <1>Idle, <2>2, CountKept DEF Idle, Fault, Ended, Reap, Beating, Listening
  <2>4. ClosesHeard' BY <1>Idle DEF Idle, Fault, Ended, Reap, Beating, Listening, TypeOK, ClosesHeard
  <2>5. AnswersAwaited' BY <1>Idle DEF Idle, Fault, Ended, Reap, Beating, Listening, TypeOK, AnswersAwaited
  <2>6. NewUnheard' BY <1>Idle DEF Idle, Fault, Ended, Reap, Beating, Listening, TypeOK, NewUnheard
  <2>7. faults' = 0 => faults = 0 BY <1>Idle DEF Idle, Fault, Ended, Reap, Beating, Listening, TypeOK
  <2>8. \A w \in Viewer : Told(w)' => Told(w) BY <1>Idle DEF Idle, Fault, Ended, Reap, Beating, Listening, TypeOK, Told, AnswersAwaited
  <2>9. \A w \in Viewer : Told(w)' /\ Backed(w) => Backed(w)' BY <1>Idle, <2>2 DEF Idle, Fault, Ended, Reap, Beating, Listening, TypeOK, Told, Backed
  <2> QED BY <2>1, <2>3, <2>4, <2>5, <2>6, <2>7, <2>8, <2>9, ToldKept
<1>PumpReturns. ASSUME NEW r \in Responder, NEW v \in Viewer, PumpReturns(r, v) PROVE IInv'
  <2>0. Return(r, v) /\ job[r][v] \in Held /\ UNCHANGED <<session, tab, answers>>
    BY <1>PumpReturns DEF PumpReturns, Held
  <2>1. job' = [job EXCEPT ![r][v] = "none"] /\ closes' = [closes EXCEPT ![r] = @ \ {v}]
    BY <2>0 DEF Return
  <2>2. /\ CountExact' /\ active' \in [Responder -> Nat]
        /\ Holds(r)' = Holds(r) \ {v}
        /\ \A q \in Responder : q # r => Holds(q)' = Holds(q)
    BY <2>0, ReturnCounts
  <2>3. ends' \in SUBSET Viewer /\ faults' \in Nat BY <1>PumpReturns DEF PumpReturns, Ended, TypeOK
  <2>4. TypeOK' BY <2>0, <2>1, <2>2, <2>3 DEF TypeOK, Jobs
  <2>5. ClosesHeard' BY <2>1 DEF TypeOK, ClosesHeard
  <2>6. AnswersAwaited' BY <2>0 DEF AnswersAwaited
  <2>7. NewUnheard' BY <2>0, <2>1 DEF TypeOK, NewUnheard
  <2>8. ends \subseteq ends' /\ faults' = faults /\ (Listening(v) => v \in ends')
    BY <1>PumpReturns DEF PumpReturns, Ended
  <2>9. Told(v) => Listening(v) BY DEF Told, AnswersAwaited, Listening
  <2>10. \A w \in Viewer : w # v /\ Backed(w) => Backed(w)' BY <2>2, <2>8 DEF Backed
  <2>11. \A w \in Viewer : Told(w)' <=> Told(w) BY <2>0 DEF Told
  <2>12. Told(v) => Backed(v)' BY <2>8, <2>9 DEF Backed
  <2>13. ToldIsBacked' BY <2>8, <2>10, <2>11, <2>12 DEF ToldIsBacked
  <2> QED BY <2>2, <2>4, <2>5, <2>6, <2>7, <2>13
<1>ResponderCrash. ASSUME NEW r \in Responder, ResponderCrash(r) PROVE IInv'
  <2>1. TypeOK' BY <1>ResponderCrash DEF ResponderCrash, Fault, TypeOK, Jobs, Held
  <2>2. Holds(r)' = {} /\ active'[r] = 0
    BY <1>ResponderCrash DEF ResponderCrash, TypeOK, Holds, Held
  <2>3. \A q \in Responder : q # r => Holds(q)' = Holds(q) /\ active'[q] = active[q]
    BY <1>ResponderCrash DEF ResponderCrash, TypeOK, Holds
  <2>4. CountExact' BY <2>2, <2>3, FS_EmptySet, MaxViewersAssumption DEF CountExact
  <2>5. ClosesHeard' BY <1>ResponderCrash DEF ResponderCrash, TypeOK, ClosesHeard
  <2>6. AnswersAwaited' BY <1>ResponderCrash DEF ResponderCrash, AnswersAwaited
  <2>7. NewUnheard' BY <1>ResponderCrash DEF ResponderCrash, TypeOK, NewUnheard
  <2>8. ToldIsBacked' BY <1>ResponderCrash DEF ResponderCrash, Fault, TypeOK, ToldIsBacked
  <2> QED BY <2>1, <2>4, <2>5, <2>6, <2>7, <2>8
<1>SessionEnds. ASSUME SessionEnds PROVE IInv'
  <2>1. TypeOK' BY <1>SessionEnds DEF SessionEnds, TypeOK, Jobs, Held
  <2>2. \A q \in Responder : Holds(q)' = Holds(q)
    BY <1>SessionEnds DEF SessionEnds, TypeOK, Holds, Held, NewUnheard, ClosesHeard
  <2>3. CountExact' BY <1>SessionEnds, <2>2, CountKept DEF SessionEnds
  <2>4. ClosesHeard' BY <1>SessionEnds DEF SessionEnds, TypeOK, ClosesHeard
  <2>5. AnswersAwaited' BY <1>SessionEnds DEF SessionEnds, TypeOK, AnswersAwaited
  <2>6. NewUnheard' BY <1>SessionEnds DEF SessionEnds, TypeOK, NewUnheard
  <2>7. faults' = 0 => faults = 0 BY <1>SessionEnds DEF SessionEnds, TypeOK
  <2>8. \A w \in Viewer : Told(w)' => Told(w) BY <1>SessionEnds DEF SessionEnds, TypeOK, Told, AnswersAwaited
  <2>9. \A w \in Viewer : Told(w)' /\ Backed(w) => Backed(w)' BY <1>SessionEnds, <2>2 DEF SessionEnds, TypeOK, Told, Backed
  <2> QED BY <2>1, <2>3, <2>4, <2>5, <2>6, <2>7, <2>8, <2>9, ToldKept
<1>Lose. ASSUME Lose PROVE IInv'
  <2>0. UNCHANGED <<session, tab, job, active>> /\ faults' = faults + 1
    BY <1>Lose DEF Lose, Fault
  <2>1. /\ answers' \in [Viewer -> SUBSET BOOLEAN] /\ \A v \in Viewer : answers'[v] \subseteq answers[v]
        /\ closes' \in [Responder -> SUBSET Viewer] /\ \A r \in Responder : closes'[r] \subseteq closes[r]
        /\ ends' \in SUBSET Viewer
    <3>1. CASE (\E v \in ends : ends' = ends \ {v}) /\ UNCHANGED <<answers, closes>>
      BY <3>1 DEF TypeOK
    <3>2. CASE (\E v \in Viewer : \E ok \in answers[v] : answers' = [answers EXCEPT ![v] = @ \ {ok}]) /\ UNCHANGED <<ends, closes>>
      BY <3>2 DEF TypeOK
    <3>3. CASE (\E r \in Responder : \E v \in closes[r] : closes' = [closes EXCEPT ![r] = @ \ {v}]) /\ UNCHANGED <<answers, ends>>
      BY <3>3 DEF TypeOK
    <3> QED BY <1>Lose, <3>1, <3>2, <3>3 DEF Lose
  <2>2. TypeOK' BY <2>0, <2>1 DEF TypeOK
  <2>3. CountExact' BY <2>0 DEF CountExact, Holds
  <2>4. ClosesHeard' BY <2>0, <2>1 DEF ClosesHeard
  <2>5. AnswersAwaited' BY <2>0, <2>1 DEF AnswersAwaited
  <2>6. NewUnheard' BY <2>0 DEF NewUnheard
  <2>7. ToldIsBacked' BY <2>0 DEF TypeOK, ToldIsBacked
  <2> QED BY <2>2, <2>3, <2>4, <2>5, <2>6, <2>7
<1>Stutter. CASE UNCHANGED vars
  <2>1. TypeOK' /\ ClosesHeard' /\ AnswersAwaited' /\ NewUnheard'
    BY <1>Stutter DEF vars, TypeOK, ClosesHeard, AnswersAwaited, NewUnheard
  <2>2. CountExact' BY <1>Stutter DEF vars, CountExact, Holds
  <2>3. ToldIsBacked' BY <1>Stutter DEF vars, ToldIsBacked, Told, Backed, Holds
  <2> QED BY <2>1, <2>2, <2>3
<1> QED BY <1>Open, <1>TakeAnswer, <1>GiveUpAsking, <1>Notice, <1>TakeEnd, <1>Close, <1>GatewayCrash, <1>BrowserLeaves, <1>Ignore, <1>Refuse, <1>Accept, <1>Attach, <1>AttachFails, <1>SubscribeCtl, <1>SubscribeFails, <1>TakeClose, <1>Idle, <1>PumpReturns, <1>ResponderCrash, <1>SessionEnds, <1>Lose, <1>Stutter DEF Next, Gateway, Serve

(* Each responder counts the viewers it serves exactly, and never has more     *)
(* than MaxViewers of them (responder.go's `active`, limitClients).            *)
THEOREM ViewersCounted == Spec => []CountExact
<1>1. IInv /\ [Next]_vars => IInv' BY StepInv
<1>2. IInv => CountExact BY DEF IInv
<1> QED BY <1>1, <1>2, InitInv, PTL DEF Spec

(* A tab that is open is served or its end is on the way, until something      *)
(* crashes or is lost (handleWS and serveViewer together).                     *)
THEOREM OpenTabsServed == Spec => []OpenIsServed
<1>1. IInv /\ [Next]_vars => IInv' BY StepInv
<1>2. IInv => OpenIsServed BY DEF IInv, ToldIsBacked, Told, Backed, OpenIsServed
<1> QED BY <1>1, <1>2, InitInv, PTL DEF Spec

-----------------------------------------------------------------------------
(* The refinement: what a step does to asked, gone and holders.                *)
Asked == {v \in Viewer : tab[v].pc # "new"}

Gone == {v \in Viewer : tab[v].pc = "left"}

Holders == [r \in Responder |-> Holds(r)]

PoolVars == <<Asked, Gone, Holders>>

LEMMA PoolInit == Init => Pool!Init
BY DEF Init, Pool!Init, At, Holds, Held

(* Tabs of V close; everything else the pool sees stays.                       *)
LEMMA Leaving ==
    ASSUME NEW V \in SUBSET Viewer, Asked' = Asked, V \subseteq Asked,
           Gone' = Gone \cup V, Holders' = Holders
    PROVE  Pool!Next
<1>1. Pool!Leave(V) BY DEF Pool!Leave, Asked, Gone, Holders
<1> QED BY <1>1 DEF Pool!Next

(* A responder lets the viewers of V go.                                       *)
LEMMA LettingGo ==
    ASSUME NEW r \in Responder, NEW V \in SUBSET Viewer, V \subseteq Holds(r),
           UNCHANGED tab, Holds(r)' = Holds(r) \ V,
           \A q \in Responder : q # r => Holds(q)' = Holds(q)
    PROVE  Pool!Next
<1>1. Holders' = [Holders EXCEPT ![r] = @ \ V] BY DEF Holders
<1>2. Pool!LetGo(r, V) BY <1>1 DEF Pool!LetGo, Holders
<1> QED BY <1>2 DEF Pool!Next

(* A step that changes no place of a tab and no holder is a stutter.           *)
LEMMA PoolStutter ==
    ASSUME \A v \in Viewer : tab'[v].pc = tab[v].pc \/ {tab[v].pc, tab'[v].pc} \subseteq {"asking", "open"},
           \A r \in Responder : Holds(r)' = Holds(r)
    PROVE  UNCHANGED PoolVars
<1>1. Asked' = Asked /\ Gone' = Gone BY DEF Asked, Gone
<1>2. Holders' = Holders BY DEF Holders
<1> QED BY <1>1, <1>2 DEF PoolVars

LEMMA PoolStep == IInv /\ [Next]_vars => [Pool!Next]_PoolVars
<1> SUFFICES ASSUME IInv, [Next]_vars PROVE [Pool!Next]_PoolVars OBVIOUS
<1> USE DEF IInv
<1>Open. ASSUME NEW v \in Viewer, Open(v) PROVE Pool!Next
  <2>1. tab[v].pc = "new" /\ tab' = [tab EXCEPT ![v] = At("asking")] BY <1>Open DEF Open
  <2>2. \A r \in Responder : Holds(r)' = Holds(r)
    BY <1>Open DEF Open, TypeOK, Holds, Held, NewUnheard
  <2>3. Asked' = Asked \cup {v} /\ v \notin Asked /\ Gone' = Gone
    BY <2>1 DEF TypeOK, At, Asked, Gone
  <2>4. Holders' = Holders BY <2>2 DEF Holders
  <2>5. Pool!Ask(v) BY <2>3, <2>4 DEF Pool!Ask, Asked, Gone, Holders
  <2> QED BY <2>5 DEF Pool!Next
<1>Accept. ASSUME NEW r \in Responder, NEW v \in Viewer, Accept(r, v) PROVE Pool!Next
  <2>1. /\ job[r][v] = "asked" /\ active[r] < MaxViewers /\ UNCHANGED tab
        /\ job' = [job EXCEPT ![r][v] = "accepted"]
    BY <1>Accept DEF Accept
  <2>2. Holds(r)' = Holds(r) \cup {v} /\ v \notin Holds(r)
    BY <2>1 DEF TypeOK, Holds, Held
  <2>3. \A p \in Responder : p # r => Holds(p)' = Holds(p) BY <2>1 DEF TypeOK, Holds
  <2>4. v \in Asked BY <2>1 DEF NewUnheard, Asked
  <2>5. Holders' = [Holders EXCEPT ![r] = @ \cup {v}] BY <2>2, <2>3 DEF Holders
  <2>6. Cardinality(Holders[r]) < MaxViewers BY <2>1 DEF CountExact, Holders
  <2>7. v \in Asked \ Holders[r] BY <2>2, <2>4 DEF Holders
  <2>8. Asked' = Asked /\ Gone' = Gone BY <2>1 DEF Asked, Gone
  <2>9. Pool!Take(r, v)
    <3>1. Cardinality(Holders[r]) < MaxViewers BY <2>6
    <3>2. Holders' = [Holders EXCEPT ![r] = Holders[r] \cup {v}] BY <2>5
    <3> QED BY <2>7, <2>8, <3>1, <3>2 DEF Pool!Take, Pool!Cardinality, Cardinality, Asked, Gone, Holders
  <2> QED BY <2>9 DEF Pool!Next
<1>TakeAnswer. ASSUME NEW v \in Viewer, TakeAnswer(v) PROVE [Pool!Next]_PoolVars
  <2>1. UNCHANGED job /\ tab[v].pc = "asking" BY <1>TakeAnswer DEF TakeAnswer
  <2>2. \A r \in Responder : Holds(r)' = Holds(r) BY <2>1 DEF Holds
  <2> PICK ok \in answers[v] : tab' = [tab EXCEPT ![v] = IF ok THEN [@ EXCEPT !.pc = "open"] ELSE At("left")]
    BY <1>TakeAnswer DEF TakeAnswer
  <2>3. CASE ok
    <3>1. tab' = [tab EXCEPT ![v] = [@ EXCEPT !.pc = "open"]] BY <2>3
    <3>2. tab'[v].pc = "open" /\ \A w \in Viewer : w # v => tab'[w] = tab[w]
      BY <3>1 DEF TypeOK
    <3> QED BY <2>1, <2>2, <3>2, PoolStutter
  <2>4. CASE ~ok
    <3>1. tab' = [tab EXCEPT ![v] = At("left")] BY <2>4
    <3>2. Asked' = Asked /\ {v} \subseteq Asked /\ Gone' = Gone \cup {v}
      BY <2>1, <3>1 DEF TypeOK, At, Asked, Gone
    <3>3. Holders' = Holders BY <2>2 DEF Holders
    <3>4. {v} \in SUBSET Viewer OBVIOUS
    <3>5. Pool!Next BY <3>2, <3>3, <3>4, Leaving
    <3> QED BY <3>5
  <2> QED BY <2>3, <2>4
<1>GiveUpAsking. ASSUME NEW v \in Viewer, GiveUpAsking(v) PROVE Pool!Next
  <2>1. UNCHANGED job /\ tab[v].pc = "asking" /\ tab' = [tab EXCEPT ![v] = At("left")]
    BY <1>GiveUpAsking DEF GiveUpAsking
  <2>2. \A r \in Responder : Holds(r)' = Holds(r) BY <2>1 DEF Holds
  <2>3. Asked' = Asked /\ {v} \subseteq Asked /\ Gone' = Gone \cup {v}
    BY <2>1 DEF TypeOK, At, Asked, Gone
  <2>4. Holders' = Holders BY <2>2 DEF Holders
  <2>5. {v} \in SUBSET Viewer OBVIOUS
  <2> QED BY <2>3, <2>4, <2>5, Leaving
<1>Close. ASSUME NEW v \in Viewer, Close(v) PROVE Pool!Next
  <2>1. UNCHANGED job /\ tab[v].pc = "open" /\ tab' = [tab EXCEPT ![v] = At("left")]
    BY <1>Close DEF Close
  <2>2. \A r \in Responder : Holds(r)' = Holds(r) BY <2>1 DEF Holds
  <2>3. Asked' = Asked /\ {v} \subseteq Asked /\ Gone' = Gone \cup {v}
    BY <2>1 DEF TypeOK, At, Asked, Gone
  <2>4. Holders' = Holders BY <2>2 DEF Holders
  <2>5. {v} \in SUBSET Viewer OBVIOUS
  <2> QED BY <2>3, <2>4, <2>5, Leaving
<1>GatewayCrash. ASSUME GatewayCrash PROVE Pool!Next
  <2> DEFINE V == {v \in Viewer : Listening(v)}
  <2>1. UNCHANGED job /\ tab' = [v \in Viewer |-> IF Listening(v) THEN At("left") ELSE tab[v]]
    BY <1>GatewayCrash DEF GatewayCrash
  <2>2. \A r \in Responder : Holds(r)' = Holds(r) BY <2>1 DEF Holds
  <2>3. Asked' = Asked /\ V \subseteq Asked /\ Gone' = Gone \cup V
    BY <2>1 DEF TypeOK, At, Asked, Gone, Listening
  <2>4. Holders' = Holders BY <2>2 DEF Holders
  <2>5. V \in SUBSET Viewer OBVIOUS
  <2> HIDE DEF V
  <2> QED BY <2>3, <2>4, <2>5, Leaving
<1>AttachFails. ASSUME NEW r \in Responder, NEW v \in Viewer, AttachFails(r, v) PROVE Pool!Next
  <2>1. Return(r, v) /\ job[r][v] \in Held /\ UNCHANGED tab BY <1>AttachFails DEF AttachFails, Held
  <2>2. v \in Holds(r) BY <2>1 DEF Holds
  <2>3. Holds(r)' = Holds(r) \ {v} /\ \A p \in Responder : p # r => Holds(p)' = Holds(p)
    BY <2>1, ReturnCounts
  <2> QED BY <2>1, <2>2, <2>3, LettingGo
<1>SubscribeFails. ASSUME NEW r \in Responder, NEW v \in Viewer, SubscribeFails(r, v) PROVE Pool!Next
  <2>1. Return(r, v) /\ job[r][v] \in Held /\ UNCHANGED tab BY <1>SubscribeFails DEF SubscribeFails, Held
  <2>2. v \in Holds(r) BY <2>1 DEF Holds
  <2>3. Holds(r)' = Holds(r) \ {v} /\ \A p \in Responder : p # r => Holds(p)' = Holds(p)
    BY <2>1, ReturnCounts
  <2> QED BY <2>1, <2>2, <2>3, LettingGo
<1>PumpReturns. ASSUME NEW r \in Responder, NEW v \in Viewer, PumpReturns(r, v) PROVE Pool!Next
  <2>1. Return(r, v) /\ job[r][v] \in Held /\ UNCHANGED tab BY <1>PumpReturns DEF PumpReturns, Held
  <2>2. v \in Holds(r) BY <2>1 DEF Holds
  <2>3. Holds(r)' = Holds(r) \ {v} /\ \A p \in Responder : p # r => Holds(p)' = Holds(p)
    BY <2>1, ReturnCounts
  <2> QED BY <2>1, <2>2, <2>3, LettingGo
<1>ResponderCrash. ASSUME NEW r \in Responder, ResponderCrash(r) PROVE Pool!Next
  <2>1. Holds(r)' = Holds(r) \ Holds(r) /\ Holds(r) \in SUBSET Viewer /\ UNCHANGED tab
    BY <1>ResponderCrash DEF ResponderCrash, TypeOK, Holds, Held
  <2>2. \A p \in Responder : p # r => Holds(p)' = Holds(p)
    BY <1>ResponderCrash DEF ResponderCrash, TypeOK, Holds
  <2> QED BY <2>1, <2>2, LettingGo
<1>Notice. ASSUME NEW v \in Viewer, Notice(v) PROVE UNCHANGED PoolVars
  <2>1. \A w \in Viewer : tab'[w].pc = tab[w].pc BY <1>Notice DEF Notice, TypeOK
  <2>2. \A p \in Responder : Holds(p)' = Holds(p)
    BY <1>Notice DEF Notice, TypeOK, Holds, Held
  <2> QED BY <2>1, <2>2, PoolStutter
<1>TakeEnd. ASSUME NEW v \in Viewer, TakeEnd(v) PROVE UNCHANGED PoolVars
  <2>1. \A w \in Viewer : tab'[w].pc = tab[w].pc BY <1>TakeEnd DEF TakeEnd, Listening, TypeOK
  <2>2. \A p \in Responder : Holds(p)' = Holds(p)
    BY <1>TakeEnd DEF TakeEnd, Listening, TypeOK, Holds, Held
  <2> QED BY <2>1, <2>2, PoolStutter
<1>BrowserLeaves. ASSUME NEW v \in Viewer, BrowserLeaves(v) PROVE UNCHANGED PoolVars
  <2>1. \A w \in Viewer : tab'[w].pc = tab[w].pc BY <1>BrowserLeaves DEF BrowserLeaves, Listening, TypeOK
  <2>2. \A p \in Responder : Holds(p)' = Holds(p)
    BY <1>BrowserLeaves DEF BrowserLeaves, Listening, TypeOK, Holds, Held
  <2> QED BY <2>1, <2>2, PoolStutter
<1>Ignore. ASSUME NEW r \in Responder, NEW v \in Viewer, Ignore(r, v) PROVE UNCHANGED PoolVars
  <2>1. \A w \in Viewer : tab'[w].pc = tab[w].pc BY <1>Ignore DEF Ignore, TypeOK
  <2>2. \A p \in Responder : Holds(p)' = Holds(p)
    BY <1>Ignore DEF Ignore, TypeOK, Holds, Held
  <2> QED BY <2>1, <2>2, PoolStutter
<1>Refuse. ASSUME NEW r \in Responder, NEW v \in Viewer, Refuse(r, v) PROVE UNCHANGED PoolVars
  <2>1. \A w \in Viewer : tab'[w].pc = tab[w].pc BY <1>Refuse DEF Refuse, TypeOK
  <2>2. \A p \in Responder : Holds(p)' = Holds(p)
    BY <1>Refuse DEF Refuse, TypeOK, Holds, Held
  <2> QED BY <2>1, <2>2, PoolStutter
<1>Attach. ASSUME NEW r \in Responder, NEW v \in Viewer, Attach(r, v) PROVE UNCHANGED PoolVars
  <2>1. \A w \in Viewer : tab'[w].pc = tab[w].pc BY <1>Attach DEF Attach, TypeOK
  <2>2. \A p \in Responder : Holds(p)' = Holds(p)
    BY <1>Attach DEF Attach, TypeOK, Holds, Held
  <2> QED BY <2>1, <2>2, PoolStutter
<1>SubscribeCtl. ASSUME NEW r \in Responder, NEW v \in Viewer, SubscribeCtl(r, v) PROVE UNCHANGED PoolVars
  <2>1. \A w \in Viewer : tab'[w].pc = tab[w].pc BY <1>SubscribeCtl DEF SubscribeCtl, TypeOK
  <2>2. \A p \in Responder : Holds(p)' = Holds(p)
    BY <1>SubscribeCtl DEF SubscribeCtl, TypeOK, Holds, Held
  <2> QED BY <2>1, <2>2, PoolStutter
<1>TakeClose. ASSUME NEW r \in Responder, NEW v \in Viewer, TakeClose(r, v) PROVE UNCHANGED PoolVars
  <2>1. \A w \in Viewer : tab'[w].pc = tab[w].pc BY <1>TakeClose DEF TakeClose, ClosesHeard, TypeOK
  <2>2. \A p \in Responder : Holds(p)' = Holds(p)
    BY <1>TakeClose DEF TakeClose, ClosesHeard, TypeOK, Holds, Held
  <2> QED BY <2>1, <2>2, PoolStutter
<1>Idle. ASSUME NEW r \in Responder, NEW v \in Viewer, Idle(r, v) PROVE UNCHANGED PoolVars
  <2>1. \A w \in Viewer : tab'[w].pc = tab[w].pc BY <1>Idle DEF Idle, Reap, TypeOK
  <2>2. \A p \in Responder : Holds(p)' = Holds(p)
    BY <1>Idle DEF Idle, Reap, TypeOK, Holds, Held
  <2> QED BY <2>1, <2>2, PoolStutter
<1>SessionEnds. ASSUME SessionEnds PROVE UNCHANGED PoolVars
  <2>1. \A w \in Viewer : tab'[w].pc = tab[w].pc BY <1>SessionEnds DEF SessionEnds, TypeOK
  <2>2. \A p \in Responder : Holds(p)' = Holds(p)
    BY <1>SessionEnds DEF SessionEnds, TypeOK, Holds, Held
  <2> QED BY <2>1, <2>2, PoolStutter
<1>Lose. ASSUME Lose PROVE UNCHANGED PoolVars
  <2>1. \A w \in Viewer : tab'[w].pc = tab[w].pc BY <1>Lose DEF Lose, TypeOK
  <2>2. \A p \in Responder : Holds(p)' = Holds(p)
    BY <1>Lose DEF Lose, TypeOK, Holds, Held
  <2> QED BY <2>1, <2>2, PoolStutter
<1>Stutter. CASE UNCHANGED vars
  BY <1>Stutter, PoolStutter DEF vars, Holds
<1> QED BY <1>Open, <1>Accept, <1>TakeAnswer, <1>GiveUpAsking, <1>Close, <1>GatewayCrash, <1>AttachFails, <1>SubscribeFails, <1>PumpReturns, <1>ResponderCrash, <1>Notice, <1>TakeEnd, <1>BrowserLeaves, <1>Ignore, <1>Refuse, <1>Attach, <1>SubscribeCtl, <1>TakeClose, <1>Idle, <1>SessionEnds, <1>Lose, <1>Stutter DEF Next, Gateway, Serve

(* Whatever gateway and responders do is something ViewerPool allows: only a   *)
(* viewer that asked is taken, below the limit, and let go from where it was   *)
(* held (the liveness half of ImplementsPool is only model-checked).           *)
THEOREM PoolSafety == Spec => Pool!Init /\ [][Pool!Next]_PoolVars
<1>1. IInv /\ [Next]_vars => IInv' BY StepInv
<1> QED BY <1>1, InitInv, PoolInit, PoolStep, PTL DEF Spec

-----------------------------------------------------------------------------
(* The questions about the web terminal.                                       *)

(* An answer that shows nothing.                                               *)
Blank(r) == r.shows = {} /\ r.mode = ""
Refuses(r) == r.code > 299 /\ Blank(r)

LEMMA StatusBlank == \A n : Blank(Access!Status(n))
BY DEF Blank, Access!Status

LEMMA StatusRefuses == \A n \in {302, 400, 401, 403} : Refuses(Access!Status(n))
<1>1. ASSUME NEW n \in Nat, n > 299 PROVE Refuses(Access!Status(n))
  <2>1. Access!Status(n).code = n
    BY DEF Access!Status
  <2> QED BY <1>1, <2>1, StatusBlank DEF Refuses
<1>2. \A n \in {302, 400, 401, 403} : n \in Nat /\ n > 299
  OBVIOUS
<1> QED BY <1>1, <1>2

(* What each handler answers: a status, or the terminal when all is decided.   *)
LEMMA PageIs ==
    ASSUME NEW q
    PROVE  LET page == Access!HandlePage(q) IN
        \/ Refuses(page)
        \/ Blank(page) /\ q.auth /\ Access!Identify(q).ok
        \/ /\ Access!Identify(q).ok /\ Access!Decide(q).allowed
           /\ page.mode = Access!Decide(q).mode /\ page.shows = {q.v}
<1> DEFINE page == Access!HandlePage(q)
<1>1. CASE ~Access!Identify(q).ok
  <2>1. page = Access!Status(302)
    BY <1>1 DEF Access!HandlePage
  <2> QED BY <2>1, StatusRefuses
<1>2. CASE Access!Identify(q).ok /\ ~q.target
  <2>1. CASE ~q.auth \/ Access!OwnedBy(q) = {}
    <3>1. page = Access!Status(403)
      BY <1>2, <2>1 DEF Access!HandlePage
    <3> QED BY <3>1, StatusRefuses
  <2>2. CASE q.auth /\ Access!OwnedBy(q) # {}
    <3>1. page = Access!Status(200)
      BY <1>2, <2>2 DEF Access!HandlePage
    <3>2. Blank(page)
      BY <3>1, StatusBlank
    <3> QED BY <1>2, <2>2, <3>2
  <2> QED BY <2>1, <2>2
<1>3. CASE Access!Identify(q).ok /\ q.target
  <2>1. CASE ~Access!Serves(q, q.v) \/ ~Access!Decide(q).allowed
    <3>1. page = Access!Status(403)
      BY <1>3, <2>1 DEF Access!HandlePage
    <3> QED BY <3>1, StatusRefuses
  <2>2. CASE Access!Serves(q, q.v) /\ Access!Decide(q).allowed
    <3>1. page = [code |-> 200, mode |-> Access!Decide(q).mode, shows |-> {q.v}]
      BY <1>3, <2>2 DEF Access!HandlePage
    <3> QED BY <1>3, <2>2, <3>1
  <2> QED BY <2>1, <2>2
<1> QED BY <1>1, <1>2, <1>3

LEMMA SocketIs ==
    ASSUME NEW q
    PROVE  LET ws == Access!HandleWS(q) IN
        \/ Refuses(ws)
        \/ /\ Access!Identify(q).ok /\ Access!Decide(q).allowed
           /\ ws.mode = Access!Decide(q).mode /\ ws.shows = {q.v}
<1> DEFINE ws == Access!HandleWS(q)
<1>1. CASE ~Access!Identify(q).ok
  <2>1. ws = Access!Status(401)
    BY <1>1 DEF Access!HandleWS
  <2> QED BY <2>1, StatusRefuses
<1>2. CASE Access!Identify(q).ok /\ (~Access!Serves(q, q.v) \/ ~Access!Decide(q).allowed)
  <2>1. ws = Access!Status(403)
    BY <1>2 DEF Access!HandleWS
  <2> QED BY <2>1, StatusRefuses
<1>3. CASE Access!Identify(q).ok /\ Access!Serves(q, q.v) /\ Access!Decide(q).allowed
  <2>1. CASE ~q.target
    <3>1. ws = Access!Status(400)
      BY <1>3, <2>1 DEF Access!HandleWS
    <3> QED BY <3>1, StatusRefuses
  <2>2. CASE q.target
    <3>1. ws = [code |-> 101, mode |-> Access!Decide(q).mode, shows |-> {q.v}]
      BY <1>3, <2>2 DEF Access!HandleWS
    <3> QED BY <1>3, <3>1
  <2> QED BY <2>1, <2>2
<1> QED BY <1>1, <1>2, <1>3

LEMMA SessionsIs ==
    ASSUME NEW q
    PROVE  LET r == Access!HandleAPISessions(q) IN
        \/ Refuses(r)
        \/ Access!Identify(q).ok /\ Access!IsOperator(q, q.v) /\ r.mode = "list"
<1> DEFINE r == Access!HandleAPISessions(q)
<1>1. CASE ~Access!Identify(q).ok
  <2>1. r = Access!Status(401)
    BY <1>1 DEF Access!HandleAPISessions
  <2> QED BY <2>1, StatusRefuses
<1>2. CASE Access!Identify(q).ok /\ q.v = ""
  <2>1. r = Access!Status(400)
    <3> HIDE DEF Access!Status
    <3> QED BY <1>2 DEF Access!HandleAPISessions
  <2> QED BY <2>1, StatusRefuses
<1>3. CASE Access!Identify(q).ok /\ q.v # "" /\ ~Access!IsOperator(q, q.v)
  <2>1. r = Access!Status(403)
    BY <1>3 DEF Access!HandleAPISessions
  <2> QED BY <2>1, StatusRefuses
<1>4. CASE Access!Identify(q).ok /\ q.v # "" /\ Access!IsOperator(q, q.v)
  <2>1. r = [code |-> 200, mode |-> "list", shows |-> {q.v}]
    BY <1>4 DEF Access!HandleAPISessions
  <2>2. r.mode = "list"
    BY <2>1
  <2>3. Access!Identify(q).ok /\ Access!IsOperator(q, q.v)
    BY <1>4
  <2> QED BY <2>2, <2>3
<1> QED BY <1>1, <1>2, <1>3, <1>4

(* With a target, page and websocket answer the same decision.                 *)
LEMMA PageAndSocket ==
    ASSUME NEW q, q.target
    PROVE  LET page == Access!HandlePage(q)
               ws == Access!HandleWS(q)
           IN  ((page.code = 200) <=> (ws.code = 101)) /\ page.mode = ws.mode
<1>1. \A n : Access!Status(n).code = n /\ Access!Status(n).mode = ""
  BY DEF Access!Status
<1> DEFINE page == Access!HandlePage(q)
           ws == Access!HandleWS(q)
           none == ""
<1>2. \A n : Access!Status(n).code = n /\ Access!Status(n).mode = none
  BY <1>1
<1> HIDE DEF none
<1>3. CASE ~Access!Identify(q).ok
  <2>1. page = Access!Status(302) /\ ws = Access!Status(401)
    BY <1>3 DEF Access!HandlePage, Access!HandleWS
  <2>2. page.code = 302 /\ ws.code = 401 /\ page.mode = none /\ ws.mode = none
    BY <1>2, <2>1
  <2> QED BY <2>2
<1>4. CASE Access!Identify(q).ok /\ ~(Access!Serves(q, q.v) /\ Access!Decide(q).allowed)
  <2>1. page = Access!Status(403) /\ ws = Access!Status(403)
    BY <1>4 DEF Access!HandlePage, Access!HandleWS
  <2>2. page.code = 403 /\ ws.code = 403 /\ page.mode = none /\ ws.mode = none
    BY <1>2, <2>1
  <2> QED BY <2>2
<1>5. CASE Access!Identify(q).ok /\ Access!Serves(q, q.v) /\ Access!Decide(q).allowed
  BY <1>5 DEF Access!HandlePage, Access!HandleWS
<1> QED BY <1>3, <1>4, <1>5

LEMMA RequestDecided ==
    ASSUME NEW q \in Access!Requests
    PROVE  LET a == OnRequest(q) IN
        /\ (\E r \in a.all : r.mode = "rw") => MayType(q)
        /\ (q.auth /\ q.cookie \notin Access!Users) => \A r \in a.all : r.shows = {} /\ r.code > 299
        /\ ~q.auth => \A r \in a.all : r.shows # {} => r.mode = "ro" /\ q.link = "valid"
        /\ q.target => ((a.page.code = 200) <=> (a.ws.code = 101)) /\ a.page.mode = a.ws.mode
        /\ (\E r \in a.all : r.mode = "list") => MayType(q)
<1> DEFINE d == Access!Decide(q)
           stranger == q.auth /\ q.cookie \notin Access!Users
           Fair(r) == /\ r.mode \in {"rw", "list"} => MayType(q)
                      /\ stranger => r.shows = {} /\ r.code > 299
                      /\ ~q.auth => (r.shows # {} => r.mode = "ro" /\ q.link = "valid")
<1>1. /\ q.auth \in BOOLEAN /\ q.cookie \in Access!Cookies /\ q.target \in BOOLEAN
      /\ q.v \in Access!Vignobles \cup {""} /\ q.rw \in BOOLEAN /\ q.discovery \in BOOLEAN
  BY DEF Access!Requests
<1>2. /\ d.mode = "rw" => MayType(q)
      /\ d.mode # "list"
      /\ ~q.auth => (d.allowed => d.mode = "ro" /\ q.link = "valid")
  BY <1>1 DEF Access!Decide, Access!Authorize, Access!Allow, Access!Deny, Access!IsOperator, Access!IsFunder,
              Access!Identify, Access!Owner, Access!Funder, Access!LinkValid, Access!Nobody, Access!Users, MayType
<1>3. stranger => ~Access!Identify(q).ok
  BY DEF Access!Identify
<1>4. \A r : Refuses(r) => Fair(r)
  BY DEF Refuses, Blank
<1>5. ASSUME NEW r, Blank(r), ~stranger PROVE Fair(r)
  BY <1>5 DEF Blank
<1> HIDE DEF stranger
<1>6. Fair(Access!HandlePage(q))
  BY <1>2, <1>3, <1>4, <1>5, PageIs
<1>7. Fair(Access!HandleWS(q))
  BY <1>2, <1>3, <1>4, SocketIs
<1>8. q.auth => Fair(Access!HandleAPISessions(q))
  <2>1. q.auth /\ Access!Identify(q).ok /\ Access!IsOperator(q, q.v) => MayType(q)
    BY <1>1 DEF Access!IsOperator, Access!Identify, Access!Owner, Access!Nobody, Access!Users, MayType
  <2> QED BY <1>3, <1>4, <2>1, SessionsIs
<1>9. q.auth => Fair(Access!HandleAPIVignobles(q))
  <2>1. CASE ~Access!Identify(q).ok
    BY <1>4, <2>1, StatusRefuses DEF Access!HandleAPIVignobles
  <2>2. CASE Access!Identify(q).ok
    <3>1. Access!HandleAPIVignobles(q).mode = ""
      BY <2>2 DEF Access!HandleAPIVignobles
    <3> QED BY <1>3, <2>2, <3>1
  <2> QED BY <2>1, <2>2
<1>10. \A r \in Access!Answers(q) : Fair(r)
  BY <1>6, <1>7, <1>8, <1>9 DEF Access!Answers
<1>11. /\ OnRequest(q).all = Access!Answers(q)
       /\ OnRequest(q).page = Access!HandlePage(q) /\ OnRequest(q).ws = Access!HandleWS(q)
  BY DEF OnRequest
<1> QED BY <1>10, <1>11, PageAndSocket DEF stranger

LEMMA PostedRead ==
    ASSUME NEW q \in [auth : BOOLEAN, enabled : BOOLEAN, auto : BOOLEAN, post : BOOLEAN],
           NEW r \in OnPosted(q)
    PROVE  r.mode # "rw" /\ ((r.code = 200) <=> ~q.auth)
<1> DEFINE link == Access!PrintedLink(q.auth, q.enabled, q.auto, q.post)
           asks(rw) == [auth |-> q.auth, cookie |-> "none", v |-> "ours", target |-> TRUE, rw |-> rw,
                        link |-> link, discovery |-> TRUE, allow |-> {}]
<1>1. PICK rw \in BOOLEAN : r = Access!HandlePage(asks(rw))
  BY DEF OnPosted
<1>2. link # "nothing" /\ (q.auth => link = "none") /\ (~q.auth => link = "valid")
  BY DEF OnPosted, Access!PrintedLink
<1> DEFINE p == asks(rw)
<1>3. p.target /\ p.v = "ours" /\ p.auth = q.auth /\ p.cookie = "none" /\ p.link = link /\ p.discovery /\ p.allow = {}
  OBVIOUS
<1> HIDE DEF p, link
<1>4. CASE q.auth
  <2>1. ~Access!Identify(p).ok
    BY <1>3, <1>4 DEF Access!Identify, Access!Users
  <2>2. r = Access!Status(302)
    BY <1>1, <2>1 DEF Access!HandlePage, p
  <2>3. r.code = 302
    BY <2>2 DEF Access!Status
  <2>4. r.mode # "rw"
    BY <2>2, StatusBlank DEF Blank
  <2> QED BY <1>4, <2>3, <2>4
<1>5. CASE ~q.auth
  <2>1. Access!Identify(p).ok /\ Access!Identify(p).username = Access!Nobody
    BY <1>3, <1>5 DEF Access!Identify
  <2>2. Access!Serves(p, p.v)
    BY <1>3 DEF Access!Serves, Access!Owner, Access!Nobody
  <2>3. Access!Decide(p) = [allowed |-> TRUE, mode |-> "ro", role |-> "viewer"]
    BY <1>2, <1>3, <1>5, <2>1 DEF Access!Decide, Access!Authorize, Access!Allow, Access!Deny, Access!IsOperator,
                            Access!IsFunder, Access!LinkValid
  <2>4. r = [code |-> 200, mode |-> "ro", shows |-> {p.v}]
    BY <1>1, <1>3, <2>1, <2>2, <2>3 DEF Access!HandlePage, p
  <2> QED BY <1>5, <2>4
<1> QED BY <1>4, <1>5

LEMMA LoginEarned ==
    ASSUME NEW q \in Access!Callbacks
    PROVE  LET a == OnLogin(q) IN
        /\ a.goes # "elsewhere"
        /\ a.username # "" => q.flow = "mine" /\ q.exchanged /\ q.token = "valid"
BY DEF OnLogin, Access!Callbacks, Access!HandleCallback, Access!SafeReturnTo, Access!Nobody

LEMMA GrantOurs ==
    ASSUME NEW q, OnGrant(q)
    PROVE  q.signed /\ ~q.expired /\ q.vignoble # "theirs"
BY DEF OnGrant, Access!GrantAccepted

(* The control room's list, against the records and the sessions there are.    *)
LEMMA IndexShows ==
    ASSUME NEW q, \A r \in q.kv : r.key # "tmux"
    PROVE  LET a == OnIndex(q) IN
        /\ \A e \in a.listed : e.from # "tmux" => e.name \notin q.sessions
        /\ {e.from : e \in a.listed} \ {"tmux"} = {s.key : s \in {x \in a.said : x.verdict = "INCLUDE"}}
        /\ \A s \in a.said : s.verdict = "LOCAL" =>
                \E r \in q.kv : r.key = s.key /\ r.name \in q.sessions
        /\ \A u \in (a.issues \cup a.parcelles) \ {""} : \E r \in q.kv : u \in {r.issue, r.parcelle}
<1> DEFINE listed == Index!Vendangeurs("ours", q.sessions, q.kv)
           said == {[key |-> r.key, verdict |-> Index!Verdict("ours", q.sessions, r)] : r \in q.kv}
           issues == Index!IssueURLs(q.kv, "a")
           parcelles == Index!InterruptParcelles(q.kv, "a")
<1>1. ASSUME NEW r PROVE Index!FromKV("ours", q.sessions, r) <=> Index!Verdict("ours", q.sessions, r) = "INCLUDE"
  BY DEF Index!FromKV, Index!Verdict
<1>2. ASSUME NEW r, Index!Verdict("ours", q.sessions, r) = "LOCAL" PROVE r.name \in q.sessions
  BY <1>2 DEF Index!Verdict
<1>3. ASSUME NEW e \in listed
      PROVE  \/ e.from = "tmux"
             \/ \E r \in q.kv : /\ Index!FromKV("ours", q.sessions, r)
                                /\ e.name = r.name /\ e.from = r.key
  BY DEF Index!Vendangeurs
<1>4. \A e \in listed : e.from # "tmux" => e.name \notin q.sessions
  BY <1>3 DEF Index!FromKV
<1>5. ASSUME NEW r \in q.kv, Index!FromKV("ours", q.sessions, r)
      PROVE  \E e \in listed : e.from = r.key
  <2>1. [name |-> r.name, from |-> r.key, remote |-> r.standalone] \in listed
    BY <1>5 DEF Index!Vendangeurs
  <2> QED BY <2>1
<1>6. {e.from : e \in listed} \ {"tmux"} = {s.key : s \in {x \in said : x.verdict = "INCLUDE"}}
  <2>1. ASSUME NEW e \in listed, e.from # "tmux"
        PROVE  e.from \in {s.key : s \in {x \in said : x.verdict = "INCLUDE"}}
    <3>1. PICK r \in q.kv : Index!FromKV("ours", q.sessions, r) /\ e.from = r.key
      BY <1>3, <2>1
    <3>2. [key |-> r.key, verdict |-> "INCLUDE"] \in {x \in said : x.verdict = "INCLUDE"}
      BY <3>1, <1>1
    <3> HIDE DEF said
    <3> QED BY <3>1, <3>2
  <2>2. ASSUME NEW s \in said, s.verdict = "INCLUDE"
        PROVE  s.key \in {e.from : e \in listed} \ {"tmux"}
    <3>1. PICK r \in q.kv : s = [key |-> r.key, verdict |-> Index!Verdict("ours", q.sessions, r)]
      OBVIOUS
    <3>2. \E e \in listed : e.from = r.key
      BY <3>1, <2>2, <1>1, <1>5
    <3> HIDE DEF listed
    <3> QED BY <3>1, <3>2
  <2> HIDE DEF listed, said
  <2> QED BY <2>1, <2>2
<1>7. \A s \in said : s.verdict = "LOCAL" => \E r \in q.kv : r.key = s.key /\ r.name \in q.sessions
  BY <1>2
<1>8. \A u \in (issues \cup parcelles) \ {""} : \E r \in q.kv : u \in {r.issue, r.parcelle}
  BY DEF Index!IssueURLs, Index!InterruptParcelles
<1> HIDE DEF listed, said, issues, parcelles
<1>9. OnIndex(q).listed = listed /\ OnIndex(q).said = said /\ OnIndex(q).issues = issues
      /\ OnIndex(q).parcelles = parcelles
  BY DEF OnIndex, listed, said, issues, parcelles
<1> QED BY <1>4, <1>6, <1>7, <1>8, <1>9

(* Windows of a session have numbers of their own: one of them is the          *)
(* regisseur's, if any is window 0 or is named so.                             *)
LEMMA WindowsTold ==
    ASSUME NEW q, \A w \in q : w.index \in Nat, \A v, w \in q : v.index = w.index => v = w
    PROVE  LET a == OnWindows(q) IN
        /\ Cardinality(a.regisseur) <= 1 /\ a.maitres \cap a.regisseur = {}
        /\ a.regisseur = {} => \A w \in q : w.index # 0
        /\ 1 \in a.after
<1> DEFINE reg == {w \in q : w.index = 0 \/ w.named}
           first == {w \in reg : \A u \in reg : w.index <= u.index}
<1>1. OnWindows(q).regisseur = first /\ OnWindows(q).maitres = q \ first
  BY DEF OnWindows, Index!Regisseur, Index!Maitres
<1>2. Cardinality(first) <= 1
  <2>1. ASSUME NEW v \in first, NEW w \in first PROVE v = w
    <3>1. v.index <= w.index /\ w.index <= v.index /\ v \in q /\ w \in q
      OBVIOUS
    <3> QED BY <3>1
  <2> HIDE DEF first
  <2> QED BY <2>1, OneOrNone
<1>3. ASSUME NEW w \in q, w.index = 0 PROVE w \in first
  <2>1. w \in reg /\ \A u \in reg : u.index \in Nat
    BY <1>3
  <2> QED BY <1>3, <2>1
<1>4. 1 \in OnWindows(q).after
  BY DEF OnWindows, Spawn!EnsureWindow
<1> QED BY <1>1, <1>2, <1>3, <1>4

(* Addition from left to right: Sum of a sequence is the last of its partial   *)
(* sums.                                                                       *)
LEMMA SumSteps ==
    ASSUME NEW s \in Seq(Int)
    PROVE  \E f \in [0..Len(s) -> Int] :
              /\ f[0] = 0 /\ f[Len(s)] = Sum(s)
              /\ \A k \in 1..Len(s) : f[k] = f[k - 1] + s[k]
<1> DEFINE n == Len(s)
           G == [p \in Int \X (1..n) |-> p[1] + s[p[2]]]
           Is(it) == it = [u \in SUBSET (1..n) |->
                        IF u = {} THEN 0 ELSE it[u \ {Max(u)}] + s[Max(u)]]
<1>1. n \in Nat /\ DOMAIN s = 1..n /\ \A i \in 1..n : s[i] \in Int
  BY LenProperties, ElementOfSeq
<1>2. G \in [Int \X (1..n) -> Int]
  BY <1>1
<1>3. PICK it : IsFold(it, Int, n, G, 0)
  <2> DEFINE T == Int
             b == 0
  <2>1. n \in Nat
    BY <1>1
  <2>2. G \in [T \X (1..n) -> T]
    BY <1>2
  <2>3. b \in T
    OBVIOUS
  <2>4. \E it : IsFold(it, T, n, G, b)
    <3> HIDE DEF G, n, T, b
    <3> QED BY <2>1, <2>2, <2>3, FoldExists
  <2> QED BY <2>4
<1>4. Is(it)
  <2>1. ASSUME NEW u \in (SUBSET (1..n)) \ {{}}
        PROVE  it[u] = it[u \ {Max(u)}] + s[Max(u)]
    <3>1. Max(u) \in 1..n
      BY <1>1, GreatestIndex
    <3>2. it[u \ {Max(u)}] \in Int
      BY <1>3 DEF IsFold
    <3>3. it[u] = G[<<it[u \ {Max(u)}], Max(u)>>]
      BY <1>3 DEF IsFold
    <3> QED BY <3>1, <3>2, <3>3
  <2> HIDE DEF G, n
  <2> QED BY <1>3, <2>1 DEF IsFold
<1> DEFINE it2 == CHOOSE h : Is(h)
<1>5. Is(it2)
  <2> HIDE DEF Is
  <2> QED BY <1>4
<1>6. Sum(s) = it2[1..n]
  BY <1>1 DEF Sum, FoldLeft, MapThenFoldSet
<1>7. it2[{}] = 0 /\ \A k \in 1..n : it2[1..k] = it2[1..(k - 1)] + s[k]
  <2>1. {} \in SUBSET (1..n)
    OBVIOUS
  <2>2. \A k \in 1..n : /\ 1..k \in SUBSET (1..n) /\ 1..k # {}
           /\ Max(1..k) = k /\ (1..k) \ {Max(1..k)} = 1..(k - 1)
    BY <1>1, FoldPasses
  <2> HIDE DEF it2
  <2> QED BY <1>5, <2>1, <2>2
<1>8. \A k \in 0..n : it2[1..k] \in Int
  <2> DEFINE P == {k \in 0..n : it2[1..k] \in Int}
  <2>1. 0 \in P
    <3>1. 1..0 = {} /\ 0 \in 0..n
      BY <1>1
    <3> HIDE DEF it2
    <3> QED BY <1>7, <3>1
  <2>2. ASSUME NEW k \in 1..n, k - 1 \in P PROVE k \in P
    <3> HIDE DEF it2
    <3> QED BY <1>1, <1>7, <2>2
  <2>3. \A k \in 0..n : k \in P
    <3>1. n \in Nat
      BY <1>1
    <3> HIDE DEF P, n
    <3> QED BY <3>1, <2>1, <2>2, UpToBound
  <2> HIDE DEF it2, n
  <2> QED BY <2>3
<1> DEFINE f == [k \in 0..n |-> it2[1..k]]
<1>9. f \in [0..n -> Int] /\ f[0] = 0 /\ f[n] = Sum(s) /\ \A k \in 1..n : f[k] = f[k - 1] + s[k]
  <2>1. 1..0 = {} /\ 0 \in 0..n /\ n \in 0..n /\ \A k \in 1..n : k \in 0..n /\ k - 1 \in 0..n
    BY <1>1
  <2> HIDE DEF it2, n
  <2> QED BY <2>1, <1>6, <1>7, <1>8
<1> QED BY <1>9

LEMMA SumIsInt == ASSUME NEW s \in Seq(Int) PROVE Sum(s) \in Int
<1>1. Len(s) \in 0..Len(s)
  BY LenProperties
<1> QED BY <1>1, SumSteps

(* Partial sums are told by their start and their steps.                       *)
LEMMA SumIs ==
    ASSUME NEW s \in Seq(Int), NEW f, NEW c \in Int, f[0] = c, \A k \in 1..Len(s) : f[k] = f[k - 1] + s[k]
    PROVE  f[Len(s)] = c + Sum(s)
<1>1. PICK g \in [0..Len(s) -> Int] : /\ g[0] = 0 /\ g[Len(s)] = Sum(s)
                                      /\ \A k \in 1..Len(s) : g[k] = g[k - 1] + s[k]
  BY SumSteps
<1> DEFINE n == Len(s)
           P == {k \in 0..n : f[k] = c + g[k]}
<1>2. n \in Nat /\ \A i \in 1..n : s[i] \in Int
  BY LenProperties, ElementOfSeq
<1>3. 0 \in P
  BY <1>1, <1>2
<1>4. ASSUME NEW k \in 1..n, k - 1 \in P PROVE k \in P
  <2>1. f[k] = f[k - 1] + s[k] /\ g[k] = g[k - 1] + s[k] /\ s[k] \in Int
    BY <1>1, <1>2
  <2>2. k \in 0..n /\ k - 1 \in 0..n
    BY <1>2
  <2>3. g[k - 1] \in Int /\ g[k] \in Int /\ f[k - 1] = c + g[k - 1]
    BY <1>1, <2>2, <1>4
  <2>4. f[k] = c + g[k]
    BY <2>1, <2>3
  <2> QED BY <2>2, <2>4
<1>5. \A k \in 0..n : k \in P
  <2> HIDE DEF P, n
  <2> QED BY <1>2, <1>3, <1>4, UpToBound
<1>6. n \in P
  <2>1. n \in 0..n
    BY <1>2
  <2> HIDE DEF P, n
  <2> QED BY <1>5, <2>1
<1> QED BY <1>1, <1>6

LEMMA SumConcat ==
    ASSUME NEW s \in Seq(Int), NEW t \in Seq(Int)
    PROVE  Sum(s \o t) = Sum(s) + Sum(t)
<1> DEFINE m == Len(s)
           n == Len(t)
<1>1. /\ m \in Nat /\ n \in Nat /\ s \o t \in Seq(Int) /\ Len(s \o t) = m + n
      /\ \A i \in 1..(m + n) : (s \o t)[i] = IF i <= m THEN s[i] ELSE t[i - m]
  BY LenProperties, ConcatProperties
<1>2. PICK h \in [0..(m + n) -> Int] : /\ h[0] = 0 /\ h[m + n] = Sum(s \o t)
                                       /\ \A k \in 1..(m + n) : h[k] = h[k - 1] + (s \o t)[k]
  BY <1>1, SumSteps
<1>3. h[m] = Sum(s)
  <2>1. \A k \in 1..m : h[k] = h[k - 1] + s[k]
    BY <1>1, <1>2
  <2>2. h[m] = 0 + Sum(s)
    <3> DEFINE z == 0
    <3>1. z \in Int /\ h[0] = z
      BY <1>2
    <3> HIDE DEF z
    <3>2. h[m] = z + Sum(s)
      BY <2>1, <3>1, SumIs
    <3> QED BY <3>2 DEF z
  <2> QED BY <2>2, SumIsInt
<1> DEFINE g == [k \in 0..n |-> h[m + k]]
<1>4. g[n] = Sum(s) + Sum(t)
  <2>1. g[0] = Sum(s) /\ Sum(s) \in Int
    BY <1>1, <1>3, SumIsInt
  <2>2. ASSUME NEW k \in 1..n PROVE g[k] = g[k - 1] + t[k]
    <3>1. /\ k \in 0..n /\ k - 1 \in 0..n /\ m + k \in 1..(m + n) /\ ~(m + k <= m) /\ (m + k) - m = k
          /\ (m + k) - 1 = m + (k - 1)
      BY <1>1
    <3>2. h[m + k] = h[m + (k - 1)] + t[k]
      BY <1>1, <1>2, <3>1
    <3> QED BY <3>1, <3>2
  <2> HIDE DEF g
  <2> QED BY <2>1, <2>2, SumIs
<1> QED BY <1>1, <1>2, <1>4

LEMMA FunctionIsSeq ==
    ASSUME NEW R, NEW K \in Nat, NEW c \in [1..K -> R]
    PROVE  c \in Seq(R) /\ Len(c) = K
<1>1. c \in Seq(R)
  OBVIOUS
<1> QED BY <1>1, LenProperties

(* The messages of one flush are what it takes, and none is over MaxMsg.       *)
LEMMA ChunksSum ==
    ASSUME NEW M \in Nat \ {0}, NEW take \in Nat,
           NEW c, c = [n \in 1..((take + M - 1) \div M) |-> IF n * M <= take THEN M ELSE take - (n - 1) * M]
    PROVE  c \in Seq(0..M) /\ Sum(c) = take
<1> DEFINE K == (take + M - 1) \div M
<1>1. K \in Nat /\ K * M <= take + M - 1 /\ take <= K * M
  <2>1. /\ K \in Int /\ (take + M - 1) % M \in 0..(M - 1)
        /\ take + M - 1 = M * K + ((take + M - 1) % M)
    OBVIOUS
  <2> HIDE DEF K
  <2>2. M * K = K * M
    BY <2>1
  <2>3. K >= 0
    <3> SUFFICES ASSUME K <= -1 PROVE FALSE
      BY <2>1
    <3>1. M * K <= M * (-1)
      BY <2>1
    <3> QED BY <2>1, <3>1
  <2>4. M * K <= take + M - 1 /\ take <= M * K
    <3> DEFINE x == M * K
               r == (take + M - 1) % M
    <3>1. x \in Int /\ r \in Int /\ 0 <= r /\ r <= M - 1 /\ take + M - 1 = x + r
      BY <2>1
    <3> HIDE DEF x, r
    <3>2. x <= take + M - 1 /\ take <= x
      BY <3>1
    <3> QED BY <3>2 DEF x
  <2> QED BY <2>1, <2>2, <2>3, <2>4
<1> HIDE DEF K
<1>2. \A k \in 1..K : /\ (k - 1) * M = k * M - M /\ k * M \in Nat /\ k * M >= M
                      /\ k * M <= K * M /\ (k - 1) * M < take
  <2> SUFFICES ASSUME NEW k \in 1..K
               PROVE  /\ (k - 1) * M = k * M - M /\ k * M \in Nat /\ k * M >= M
                      /\ k * M <= K * M /\ (k - 1) * M < take
    OBVIOUS
  <2>1. k \in Nat /\ k >= 1 /\ k <= K
    BY <1>1
  <2>2. (k - 1) * M = k * M - M
    BY <2>1
  <2>3. k * M \in Nat /\ k * M >= M
    BY <2>1
  <2>4. k * M <= K * M
    BY <1>1, <2>1
  <2> QED BY <1>1, <2>2, <2>3, <2>4
<1>3. ASSUME NEW k \in 1..K PROVE c[k] \in 0..M /\ c[k] = IF k * M <= take THEN M ELSE take - (k * M - M)
  <2>1. c[k] = IF k * M <= take THEN M ELSE take - (k - 1) * M
    BY DEF K
  <2>2. c[k] = IF k * M <= take THEN M ELSE take - (k * M - M)
    BY <2>1, <1>2
  <2>3. /\ k * M \in Nat /\ k * M - M < take
    BY <1>2
  <2> QED BY <2>2, <2>3
<1>4. c \in Seq(0..M) /\ Len(c) = K
  <2>1. c \in [1..K -> 0..M]
    <3> DEFINE e(n) == IF n * M <= take THEN M ELSE take - (n - 1) * M
    <3>1. c = [n \in 1..K |-> e(n)]
      BY DEF K
    <3>2. \A n \in 1..K : c[n] = e(n)
      BY <3>1
    <3> HIDE DEF e
    <3>3. \A n \in 1..K : e(n) \in 0..M
      BY <1>3, <3>2
    <3> QED BY <3>1, <3>3
  <2> DEFINE R == 0..M
  <2>2. K \in Nat /\ c \in [1..K -> R]
    BY <1>1, <2>1
  <2> HIDE DEF R
  <2> QED BY <2>2, FunctionIsSeq DEF R
<1>5. c \in Seq(Int)
  <2>1. 0..M \subseteq Int
    OBVIOUS
  <2> QED BY <1>4, <2>1, SeqMonotonic
<1>6. PICK f \in [0..K -> Int] : f[0] = 0 /\ f[K] = Sum(c) /\ \A k \in 1..K : f[k] = f[k - 1] + c[k]
  BY <1>4, <1>5, SumSteps
<1> DEFINE P == {k \in 0..K : f[k] = IF k * M <= take THEN k * M ELSE take}
<1>7. 0 \in P
  <2>1. 0 * M = 0 /\ 0 \in 0..K
    BY <1>1
  <2> QED BY <2>1, <1>6
<1>8. ASSUME NEW k \in 1..K, k - 1 \in P PROVE k \in P
  <2>1. k \in 0..K /\ f[k] = f[k - 1] + c[k]
    <3>1. k \in 0..K
      BY <1>1
    <3> QED BY <3>1, <1>6
  <2>2. f[k - 1] = (k - 1) * M
    BY <1>2, <1>8
  <2>3. f[k] = (k * M - M) + (IF k * M <= take THEN M ELSE take - (k * M - M))
    BY <1>2, <1>3, <2>1, <2>2
  <2>4. f[k] = IF k * M <= take THEN k * M ELSE take
    BY <2>3, <1>2
  <2> QED BY <2>1, <2>4
<1>9. K \in P
  <2>1. \A k \in 0..K : k \in P
    <3> HIDE DEF P
    <3> QED BY <1>1, <1>7, <1>8, UpToBound
  <2>2. K \in 0..K
    BY <1>1
  <2> HIDE DEF P
  <2> QED BY <2>1, <2>2
<1>10. Sum(c) = take
  <2>1. K * M \in Int
    BY <1>1
  <2> QED BY <1>1, <1>6, <1>9, <2>1
<1> QED BY <1>4, <1>10

(* What the pump has not lost, sent or kept it has said it lost.               *)
PumpKept ==
    {acc \in [buf : [pending : Nat, dropped : BOOLEAN, lost : Nat, marks : Nat], read : Nat, sent : Seq(Nat)] :
        /\ acc.buf.pending <= MaxBuf /\ \A n \in ToSet(acc.sent) : n <= MaxMsg
        /\ acc.read + acc.buf.marks * MarkLen = acc.buf.pending + acc.buf.lost + Sum(acc.sent)
        /\ acc.buf.lost > 0 => acc.buf.dropped \/ acc.buf.marks > 0}

PumpStep(acc, op) ==
    IF op > 0 THEN [acc EXCEPT !.buf = Index!PumpRead(@, op), !.read = @ + op]
    ELSE [acc EXCEPT !.buf = Index!PumpFlush(@), !.sent = @ \o Index!PumpChunks(acc.buf)]

LEMMA PumpSizes ==
    /\ MaxBuf \in Nat \ {0} /\ MaxPerTick \in Nat \ {0} /\ MaxMsg \in Nat \ {0} /\ MarkLen \in Nat \ {0}
    /\ MarkLen <= MaxPerTick
BY PumpAssumption

Pumps == [pending : Nat, dropped : BOOLEAN, lost : Nat, marks : Nat]

LEMMA PumpOf ==
    ASSUME NEW p \in Nat, NEW d \in BOOLEAN, NEW l \in Nat, NEW m \in Nat,
           NEW b, b = [pending |-> p, dropped |-> d, lost |-> l, marks |-> m]
    PROVE  b \in Pumps /\ b.pending = p /\ b.dropped = d /\ b.lost = l /\ b.marks = m
BY DEF Pumps

LEMMA PumpFields ==
    ASSUME NEW b \in Pumps
    PROVE  b.pending \in Nat /\ b.dropped \in BOOLEAN /\ b.lost \in Nat /\ b.marks \in Nat
BY DEF Pumps

LEMMA ReadIs ==
    ASSUME NEW b \in Pumps, NEW op \in Nat, b.pending <= MaxBuf, b.lost > 0 => b.dropped \/ b.marks > 0
    PROVE  LET new == Index!PumpRead(b, op) IN
        /\ new \in Pumps
        /\ new.pending <= MaxBuf /\ new.marks = b.marks
        /\ new.pending + new.lost = b.pending + b.lost + op
        /\ new.lost > 0 => new.dropped \/ new.marks > 0
<1> DEFINE new == Index!PumpRead(b, op)
<1> USE PumpFields
<1>1. CASE b.pending + op <= MaxBuf
  <2>1. new = [pending |-> b.pending + op, dropped |-> b.dropped, lost |-> b.lost, marks |-> b.marks]
    BY <1>1 DEF Index!PumpRead, Pumps
  <2>2. b.pending + op \in Nat
    OBVIOUS
  <2> HIDE DEF new
  <2>3. /\ new \in Pumps /\ new.pending = b.pending + op /\ new.dropped = b.dropped
        /\ new.lost = b.lost /\ new.marks = b.marks
    BY <2>1, <2>2, PumpOf
  <2>4. /\ new.pending <= MaxBuf /\ new.marks = b.marks
        /\ new.pending + new.lost = b.pending + b.lost + op
        /\ new.lost > 0 => new.dropped \/ new.marks > 0
    BY <1>1, <2>3
  <2> QED BY <2>3, <2>4 DEF new
<1>2. CASE ~(b.pending + op <= MaxBuf)
  <2> DEFINE lost == b.lost + b.pending + op - MaxBuf
  <2>1. new = [pending |-> MaxBuf, dropped |-> TRUE, lost |-> lost, marks |-> b.marks]
    BY <1>2 DEF Index!PumpRead, Pumps
  <2>2. lost \in Nat /\ MaxBuf \in Nat
    BY <1>2, PumpSizes
  <2> HIDE DEF new, lost
  <2>3. /\ new \in Pumps /\ new.pending = MaxBuf /\ new.dropped = TRUE
        /\ new.lost = lost /\ new.marks = b.marks
    <3> DEFINE yes == TRUE
    <3>1. yes \in BOOLEAN /\ b.marks \in Nat
      OBVIOUS
    <3>2. new = [pending |-> MaxBuf, dropped |-> yes, lost |-> lost, marks |-> b.marks]
      BY <2>1
    <3> HIDE DEF yes
    <3>3. new \in Pumps /\ new.pending = MaxBuf /\ new.dropped = yes /\ new.lost = lost /\ new.marks = b.marks
      BY <2>2, <3>1, <3>2, PumpOf
    <3> QED BY <3>3 DEF yes
  <2>4. /\ new.pending <= MaxBuf /\ new.marks = b.marks
        /\ new.lost > 0 => new.dropped \/ new.marks > 0
    BY <2>2, <2>3
  <2>5. new.pending + new.lost = b.pending + b.lost + op
    BY <2>2, <2>3 DEF lost
  <2> QED BY <2>3, <2>4, <2>5 DEF new
<1> QED BY <1>1, <1>2

LEMMA ReadKeeps == ASSUME NEW acc \in PumpKept, NEW op \in Nat, op > 0 PROVE PumpStep(acc, op) \in PumpKept
<1> DEFINE b == acc.buf
           new == Index!PumpRead(b, op)
<1>1. /\ b \in Pumps /\ acc.read \in Nat /\ acc.sent \in Seq(Nat)
      /\ b.pending <= MaxBuf /\ \A n \in ToSet(acc.sent) : n <= MaxMsg
      /\ acc.read + b.marks * MarkLen = b.pending + b.lost + Sum(acc.sent)
      /\ b.lost > 0 => b.dropped \/ b.marks > 0
  BY DEF PumpKept, Pumps
<1>2. /\ new \in Pumps
      /\ new.pending <= MaxBuf /\ new.marks = b.marks
      /\ new.pending + new.lost = b.pending + b.lost + op
      /\ new.lost > 0 => new.dropped \/ new.marks > 0
  BY <1>1, ReadIs
<1>3. PumpStep(acc, op) = [buf |-> new, read |-> acc.read + op, sent |-> acc.sent]
  BY <1>1 DEF PumpStep, PumpKept
<1> HIDE DEF b, new
<1> DEFINE sum == Sum(acc.sent)
           said == b.marks * MarkLen
<1>4. sum \in Int /\ said \in Int
  <2>1. acc.sent \in Seq(Int)
    BY <1>1, SeqMonotonic, Nat \subseteq Int
  <2> QED BY <1>1, <2>1, SumIsInt, PumpSizes DEF Pumps
<1>5. (acc.read + op) + new.marks * MarkLen = new.pending + new.lost + Sum(acc.sent)
  <2>1. acc.read + said = b.pending + b.lost + sum
    BY <1>1
  <2>2. new.marks * MarkLen = said
    BY <1>2
  <2> HIDE DEF sum, said
  <2>3. /\ acc.read \in Int /\ b.pending \in Int /\ b.lost \in Int /\ new.pending \in Int /\ new.lost \in Int
        /\ new.pending + new.lost = b.pending + b.lost + op
    BY <1>1, <1>2 DEF Pumps
  <2>4. (acc.read + op) + said = new.pending + new.lost + sum
    BY <1>4, <2>1, <2>3
  <2> QED BY <2>2, <2>4 DEF sum
<1> QED BY <1>1, <1>2, <1>3, <1>5 DEF PumpKept, Pumps

LEMMA FlushKeeps == ASSUME NEW acc \in PumpKept, NEW op \in Nat, ~(op > 0) PROVE PumpStep(acc, op) \in PumpKept
<1> DEFINE b == acc.buf
           new == Index!PumpFlush(b)
           c == Index!PumpChunks(b)
           mark == IF b.dropped THEN MarkLen ELSE 0
           take == IF b.pending + mark > MaxPerTick THEN MaxPerTick ELSE b.pending + mark
<1>1. /\ b \in Pumps /\ acc.read \in Nat /\ acc.sent \in Seq(Nat)
      /\ b.pending <= MaxBuf /\ \A n \in ToSet(acc.sent) : n <= MaxMsg
      /\ acc.read + b.marks * MarkLen = b.pending + b.lost + Sum(acc.sent)
      /\ b.lost > 0 => b.dropped \/ b.marks > 0
  BY DEF PumpKept, Pumps
<1>2. PumpStep(acc, op) = [buf |-> new, read |-> acc.read, sent |-> acc.sent \o c]
  BY <1>1 DEF PumpStep, PumpKept
<1> HIDE DEF b
<1> DEFINE all == b.pending + mark
           kept == IF all > MaxPerTick THEN all - MaxPerTick ELSE 0
           marks == b.marks + IF b.dropped THEN 1 ELSE 0
<1>3. new = [pending |-> kept, dropped |-> FALSE, lost |-> b.lost, marks |-> marks]
  <2>1. new = [b EXCEPT !.pending = kept, !.dropped = FALSE, !.marks = marks]
    BY DEF Index!PumpFlush
  <2> HIDE DEF kept, marks
  <2> HIDE DEF new
  <2> QED BY <1>1, <2>1 DEF Pumps
<1>4. c = [n \in 1..((take + MaxMsg - 1) \div MaxMsg) |->
              IF n * MaxMsg <= take THEN MaxMsg ELSE take - (n - 1) * MaxMsg]
  BY DEF Index!PumpChunks
<1> HIDE DEF new, c, kept, marks
<1>5. mark \in Nat /\ mark <= MaxPerTick /\ b.pending + mark \in Nat
  BY <1>1, PumpSizes DEF Pumps
<1> HIDE DEF mark
<1>6. take \in Nat
  BY <1>5, PumpSizes
<1>7. c \in Seq(0..MaxMsg) /\ Sum(c) = take
  <2> HIDE DEF take
  <2> QED BY <1>4, <1>6, PumpSizes, ChunksSum
<1>8. /\ new \in Pumps /\ new.pending <= MaxBuf /\ new.lost = b.lost /\ new.marks = b.marks + IF b.dropped THEN 1 ELSE 0
      /\ new.pending + take = b.pending + mark
      /\ new.lost > 0 => new.dropped \/ new.marks > 0
  <2>1. /\ b.pending \in Nat /\ b.lost \in Nat /\ b.marks \in Nat /\ b.dropped \in BOOLEAN
    BY <1>1, PumpFields
  <2> USE DEF kept, marks
  <2>2. kept \in Nat /\ kept <= MaxBuf /\ kept + take = b.pending + mark /\ FALSE \in BOOLEAN
    <3>1. CASE b.pending + mark > MaxPerTick
      <4>1. b.pending <= MaxBuf /\ MaxBuf \in Nat /\ MaxPerTick \in Nat
        BY <1>1, PumpSizes
      <4>2. kept = (b.pending + mark) - MaxPerTick /\ take = MaxPerTick
        BY <3>1
      <4> HIDE DEF kept, take
      <4> QED BY <1>5, <2>1, <3>1, <4>1, <4>2
    <3>2. CASE ~(b.pending + mark > MaxPerTick)
      BY <1>1, <1>5, <2>1, <3>2, PumpSizes
    <3> QED BY <3>1, <3>2
  <2>3. marks \in Nat /\ (b.lost > 0 => marks > 0)
    BY <1>1, <2>1
  <2>4. new = [pending |-> kept, dropped |-> FALSE, lost |-> b.lost, marks |-> marks]
    BY <1>3
  <2> DEFINE no == FALSE
  <2> HIDE DEF kept, marks, take
  <2>5. new \in Pumps /\ new.pending = kept /\ new.lost = b.lost /\ new.marks = marks
    <3>1. new = [pending |-> kept, dropped |-> no, lost |-> b.lost, marks |-> marks] /\ no \in BOOLEAN
      BY <2>4
    <3> HIDE DEF no
    <3> QED BY <2>1, <2>2, <2>3, <3>1, PumpOf
  <2> QED BY <2>2, <2>3, <2>5 DEF marks
<1>9. /\ acc.sent \o c \in Seq(Nat) /\ \A n \in ToSet(acc.sent \o c) : n <= MaxMsg
      /\ Sum(acc.sent \o c) = Sum(acc.sent) + take /\ Sum(acc.sent) \in Int
  <2>1. 0..MaxMsg \subseteq Nat /\ 0..MaxMsg \subseteq Int /\ Nat \subseteq Int
    OBVIOUS
  <2>2. c \in Seq(Nat) /\ c \in Seq(Int) /\ acc.sent \in Seq(Int)
    BY <1>1, <1>7, <2>1, SeqMonotonic
  <2>3. acc.sent \o c \in Seq(Nat)
    BY <1>1, <2>2, ConcatProperties
  <2>4. Sum(acc.sent \o c) = Sum(acc.sent) + take /\ Sum(acc.sent) \in Int
    BY <1>7, <2>2, SumConcat, SumIsInt
  <2>5. ASSUME NEW i \in 1..Len(acc.sent \o c) PROVE (acc.sent \o c)[i] <= MaxMsg
    <3>1. /\ Len(acc.sent) \in Nat /\ Len(c) \in Nat /\ Len(acc.sent \o c) = Len(acc.sent) + Len(c)
          /\ (acc.sent \o c)[i] = IF i <= Len(acc.sent) THEN acc.sent[i] ELSE c[i - Len(acc.sent)]
      BY <1>1, <2>2, LenProperties, ConcatProperties
    <3>2. CASE i <= Len(acc.sent)
      <4>1. acc.sent[i] \in ToSet(acc.sent)
        BY <1>1, <3>1, <3>2, LenProperties DEF ToSet
      <4> QED BY <1>1, <3>1, <3>2, <4>1
    <3>3. CASE ~(i <= Len(acc.sent))
      <4>1. c[i - Len(acc.sent)] \in 0..MaxMsg
        <5>1. i - Len(acc.sent) \in 1..Len(c)
          BY <3>1, <3>3
        <5> QED BY <1>7, <5>1, ElementOfSeq
      <4> QED BY <3>1, <3>3, <4>1, PumpSizes
    <3> QED BY <3>2, <3>3
  <2>6. \A n \in ToSet(acc.sent \o c) : n <= MaxMsg
    <3>1. DOMAIN (acc.sent \o c) = 1..Len(acc.sent \o c)
      BY <2>3, LenProperties
    <3> QED BY <2>5, <3>1 DEF ToSet
  <2> QED BY <2>3, <2>4, <2>6
<1> DEFINE sum == Sum(acc.sent)
           said == b.marks * MarkLen
<1>10. acc.read + new.marks * MarkLen = new.pending + new.lost + Sum(acc.sent \o c)
  <2>1. acc.read + said = b.pending + b.lost + sum /\ sum \in Int /\ Sum(acc.sent \o c) = sum + take
    BY <1>1, <1>9
  <2>2. new.marks * MarkLen = said + mark /\ said \in Int
    <3>1. b.marks \in Nat /\ b.dropped \in BOOLEAN
      BY <1>1, PumpFields
    <3>2. (b.marks + 1) * MarkLen = b.marks * MarkLen + MarkLen /\ b.marks * MarkLen \in Int
      BY <3>1, PumpSizes
    <3>3. CASE b.dropped
      BY <1>8, <3>2, <3>3 DEF mark
    <3>4. CASE ~b.dropped
      BY <1>8, <3>1, <3>2, <3>4 DEF mark
    <3> QED BY <3>3, <3>4
  <2>3. /\ acc.read \in Int /\ b.pending \in Int /\ b.lost \in Int /\ new.pending \in Int
        /\ new.lost = b.lost /\ new.pending + take = b.pending + mark
    BY <1>1, <1>8 DEF Pumps
  <2> HIDE DEF sum, said, take
  <2>4. acc.read + (said + mark) = new.pending + new.lost + (sum + take)
    BY <1>5, <1>6, <2>1, <2>2, <2>3
  <2> QED BY <2>1, <2>2, <2>4
<1> DEFINE acc2 == PumpStep(acc, op)
<1>11. /\ acc2 \in [buf : Pumps, read : Nat, sent : Seq(Nat)]
       /\ acc2.buf = new /\ acc2.read = acc.read /\ acc2.sent = acc.sent \o c
  BY <1>1, <1>2, <1>8, <1>9
<1> HIDE DEF acc2
<1>12. acc2 \in PumpKept
  BY <1>8, <1>9, <1>10, <1>11 DEF PumpKept, Pumps
<1> QED BY <1>12 DEF acc2

LEMMA PumpSound ==
    ASSUME NEW q \in Seq(Nat)
    PROVE  OnPump(q) \in PumpKept
<1> DEFINE n == Len(q)
           b == [buf |-> Index!EmptyPump, read |-> 0, sent |-> <<>>]
           G == [p \in PumpKept \X (1..n) |-> PumpStep(p[1], q[p[2]])]
           Is(it) == it = [u \in SUBSET (1..n) |->
                        IF u = {} THEN b ELSE PumpStep(it[u \ {Max(u)}], q[Max(u)])]
<1>1. n \in Nat /\ DOMAIN q = 1..n /\ \A i \in 1..n : q[i] \in Nat
  BY LenProperties, ElementOfSeq
<1>2. b \in PumpKept
  <2>1. <<>> \in Seq(Nat) /\ Len(<<>>) = 0 /\ ToSet(<<>>) = {}
    BY EmptySeq DEF ToSet
  <2>2. Sum(<<>>) = 0
    BY SumSteps, EmptySeq
  <2>3. Index!EmptyPump \in Pumps /\ Index!EmptyPump.pending = 0 /\ Index!EmptyPump.lost = 0 /\ Index!EmptyPump.marks = 0
    BY DEF Index!EmptyPump, Pumps
  <2> QED BY <2>1, <2>2, <2>3, PumpSizes DEF PumpKept, Pumps
<1>3. ASSUME NEW acc \in PumpKept, NEW i \in 1..n PROVE PumpStep(acc, q[i]) \in PumpKept
  BY <1>1, ReadKeeps, FlushKeeps
<1>4. G \in [PumpKept \X (1..n) -> PumpKept]
  BY <1>3
<1>5. PICK it : IsFold(it, PumpKept, n, G, b)
  <2> HIDE DEF G, n, b
  <2> QED BY <1>1, <1>2, <1>4, FoldExists
<1>6. Is(it)
  <2>1. ASSUME NEW u \in (SUBSET (1..n)) \ {{}}
        PROVE  it[u] = PumpStep(it[u \ {Max(u)}], q[Max(u)])
    <3>1. Max(u) \in 1..n
      BY <1>1, GreatestIndex
    <3>2. it[u \ {Max(u)}] \in PumpKept
      BY <1>5 DEF IsFold
    <3>3. it[u] = G[<<it[u \ {Max(u)}], Max(u)>>]
      BY <1>5 DEF IsFold
    <3> QED BY <3>1, <3>2, <3>3
  <2> HIDE DEF G, n, b
  <2> QED BY <1>5, <2>1 DEF IsFold
<1> DEFINE it2 == CHOOSE h : Is(h)
<1>7. Is(it2)
  <2> HIDE DEF Is
  <2> QED BY <1>6
<1>8. OnPump(q) = it2[1..n]
  BY <1>1 DEF OnPump, FoldLeft, MapThenFoldSet, PumpStep
<1>9. it2[{}] = b /\ \A k \in 1..n : it2[1..k] = PumpStep(it2[1..(k - 1)], q[k])
  <2>1. {} \in SUBSET (1..n)
    OBVIOUS
  <2>2. \A k \in 1..n : /\ 1..k \in SUBSET (1..n) /\ 1..k # {}
           /\ Max(1..k) = k /\ (1..k) \ {Max(1..k)} = 1..(k - 1)
    BY <1>1, FoldPasses
  <2> HIDE DEF it2, b
  <2> QED BY <1>7, <2>1, <2>2
<1>10. \A k \in 0..n : it2[1..k] \in PumpKept
  <2> DEFINE P == {k \in 0..n : it2[1..k] \in PumpKept}
  <2>1. 0 \in P
    <3>1. 1..0 = {} /\ 0 \in 0..n
      BY <1>1
    <3> HIDE DEF it2, b
    <3> QED BY <1>2, <1>9, <3>1
  <2>2. ASSUME NEW k \in 1..n, k - 1 \in P PROVE k \in P
    <3> HIDE DEF it2, b
    <3> QED BY <1>1, <1>3, <1>9, <2>2
  <2>3. \A k \in 0..n : k \in P
    <3>1. n \in Nat
      BY <1>1
    <3> HIDE DEF P, n
    <3> QED BY <3>1, <2>1, <2>2, UpToBound
  <2> HIDE DEF it2, n
  <2> QED BY <2>3
<1>11. n \in 0..n
  BY <1>1
<1> HIDE DEF it2, n
<1> QED BY <1>8, <1>10, <1>11

(* For any request, posted link, login, grant, index and windows, and any run  *)
(* of the pump with buffers of any size (authz.go, operator.go, gateway.go,    *)
(* responder.go): only the owner's session types, page and websocket decide    *)
(* alike, the index lists what the doctor says it does, one window is the      *)
(* regisseur's, and output is shown, kept or counted as lost behind a mark.    *)
THEOREM TerminalIsSound == DecisionSpec => []TerminalSound
<1>1. Answer => TerminalSound
  <2> SUFFICES ASSUME Answer PROVE AccessSound /\ ScreenSound
    BY DEF TerminalSound
  <2> DEFINE q == decision.in
             a == decision.out
  <2>1. CASE decision.rule = "request"
    <3>1. q \in Access!Requests /\ a = OnRequest(q)
      BY <2>1, CasesAssumption DEF Answer, TerminalAnswers, Gave, CasesTypes, TerminalCases
    <3> HIDE DEF q, a
    <3> QED BY <2>1, <3>1, RequestDecided DEF AccessSound, ScreenSound, Of, q, a
  <2>2. CASE decision.rule = "posted"
    <3>1. q \in [auth : BOOLEAN, enabled : BOOLEAN, auto : BOOLEAN, post : BOOLEAN] /\ a = OnPosted(q)
      BY <2>2, CasesAssumption DEF Answer, TerminalAnswers, Gave, CasesTypes, TerminalCases
    <3> QED BY <2>2, <3>1, PostedRead DEF AccessSound, ScreenSound, Of
  <2>3. CASE decision.rule = "login"
    <3>1. q \in Access!Callbacks /\ a = OnLogin(q)
      BY <2>3, CasesAssumption DEF Answer, TerminalAnswers, Gave, CasesTypes, TerminalCases
    <3> QED BY <2>3, <3>1, LoginEarned DEF AccessSound, ScreenSound, Of
  <2>4. CASE decision.rule = "grant"
    <3>1. a = OnGrant(q)
      BY <2>4 DEF Answer, TerminalAnswers, Gave
    <3> QED BY <2>4, <3>1, GrantOurs DEF AccessSound, ScreenSound, Of
  <2>5. CASE decision.rule = "index"
    <3>1. (\A r \in q.kv : r.key # "tmux") /\ a = OnIndex(q)
      BY <2>5, CasesAssumption DEF Answer, TerminalAnswers, Gave, CasesTypes, TerminalCases
    <3> QED BY <2>5, <3>1, IndexShows DEF AccessSound, ScreenSound, Of
  <2>6. CASE decision.rule = "windows"
    <3>1. /\ \A w \in q : w.index \in Nat
          /\ \A v, w \in q : v.index = w.index => v = w
          /\ a = OnWindows(q)
      BY <2>6, CasesAssumption DEF Answer, TerminalAnswers, Gave, CasesTypes, TerminalCases
    <3> QED BY <2>6, <3>1, WindowsTold DEF AccessSound, ScreenSound, Of
  <2>7. CASE decision.rule = "pump"
    <3>1. q \in Seq(Nat) /\ a = OnPump(q)
      BY <2>7, CasesAssumption DEF Answer, TerminalAnswers, Gave, CasesTypes, TerminalCases
    <3>2. a \in PumpKept
      BY <3>1, PumpSound
    <3> HIDE DEF a
    <3> QED BY <2>7, <3>2 DEF AccessSound, ScreenSound, Of, PumpKept, a
  <2>8. CASE decision.rule \notin {"request", "posted", "login", "grant", "index", "windows", "pump"}
    BY <2>8 DEF AccessSound, ScreenSound, Of
  <2> QED BY <2>1, <2>2, <2>3, <2>4, <2>5, <2>6, <2>7, <2>8
<1> QED BY <1>1, AnswerInv, PTL

-----------------------------------------------------------------------------
(* The questions about what the forges say.                                    *)

(* The first page holds the first entries of a list.                           *)
LEMMA FirstPageIs ==
    ASSUME NEW V, NEW s \in Seq(V)
    PROVE  /\ Host!FirstPage(s) = SubSeq(s, 1, IF Len(s) < PageSize THEN Len(s) ELSE PageSize)
           /\ Host!FirstPage(s) \in Seq(V)
           /\ ToSet(Host!FirstPage(s)) \subseteq ToSet(s)
           /\ Len(s) <= PageSize => Host!FirstPage(s) = s
<1> DEFINE l == Len(s)
<1>0. DOMAIN s = 1..l /\ \A i \in 1..l : s[i] \in V
  BY LenProperties, ElementOfSeq
<1>1. l \in Nat /\ PageSize \in Nat
  BY PageAssumption, LenProperties
<1> HIDE DEF l
<1> DEFINE n == IF l < PageSize THEN l ELSE PageSize
           p == SubSeq(s, 1, n)
<1>2. n \in Nat /\ n <= l /\ (l <= PageSize => n = l)
  <2>1. CASE l < PageSize
    BY <1>1, <2>1
  <2>2. CASE ~(l < PageSize)
    <3>1. n = PageSize
      BY <2>2
    <3> HIDE DEF n
    <3> QED BY <1>1, <2>2, <3>1
  <2> QED BY <2>1, <2>2
<1> HIDE DEF n
<1>3. /\ p \in Seq(V) /\ Len(p) = IF 1 <= n THEN n - 1 + 1 ELSE 0
      /\ \A i \in 1..(n - 1 + 1) : p[i] = s[1 + i - 1]
  <2>1. 1 \in Int /\ n \in Int /\ \A i \in 1..n : s[i] \in V
    BY <1>0, <1>1, <1>2
  <2> QED BY <2>1, SubSeqProperties
<1>4. /\ Len(p) = n /\ \A i \in 1..n : p[i] = s[i] /\ i \in 1..l
  BY <1>1, <1>2, <1>3
<1> HIDE DEF p
<1>5. ToSet(p) \subseteq ToSet(s)
  <2>1. DOMAIN p = 1..n
    BY <1>3, <1>4, LenProperties
  <2> QED BY <1>0, <1>4, <2>1 DEF ToSet
<1>6. n = l => p = s
  BY <1>1, <1>3, <1>4, SeqEqual DEF l
<1> QED BY <1>2, <1>3, <1>5, <1>6 DEF p, n, l, Host!FirstPage

(* The checks of a merge request.                                              *)
CIAnswer(q, a) ==
    LET told == ToSet(SubSeq(q.checks, 1, IF Len(q.checks) < PageSize THEN Len(q.checks) ELSE PageSize))
        allTold == /\ q.fates = [f \in DOMAIN q.fates |-> "ok"]
                   /\ Len(q.checks) \in 1..PageSize /\ q.flows = <<>>
    IN  /\ a.rest = "success" => \A r \in told : r.status = "completed" /\ ~Bad(r)
        /\ a.batched = "success" => \A r \in told : r.status = "completed" /\ ~Bad(r)
        /\ (\E r \in told : Bad(r)) => {a.rest, a.batched} \subseteq {"failed", "none"}
        /\ allTold /\ (\A r \in told : r.conclusion # "odd") => a.rest = a.batched
        /\ allTold => (a.rest = "failed" <=> "failed" \in ToSet(a.list))
        /\ a.gitlab = "success" => q.pipelines # <<>> /\ Last(q.pipelines) = "success"

LEMMA AggregateIs ==
    ASSUME NEW states
    PROVE  /\ "failed" \in states => Host!Aggregate(states) = "failed"
           /\ Host!Aggregate(states) = "failed" => "failed" \in states
           /\ Host!Aggregate(states) = "success" => states \cap {"failed", "running", "pending"} = {}
BY DEF Host!Aggregate

LEMMA ChecksMapped ==
    ASSUME NEW r \in Host!CheckRun
    PROVE  /\ Host!MapCheckConclusion(r) \in {"running", "pending", "success", "failed", "none"}
           /\ Host!MapGQLConclusion(r) \in {"running", "pending", "success", "failed"}
           /\ Bad(r) <=> Host!MapCheckConclusion(r) = "failed"
           /\ Bad(r) <=> Host!MapGQLConclusion(r) = "failed"
           /\ Host!MapCheckConclusion(r) \notin {"failed", "running", "pending"} => r.status = "completed"
           /\ Host!MapGQLConclusion(r) \notin {"failed", "running", "pending"} => r.status = "completed"
           /\ r.conclusion # "odd" => Host!MapCheckConclusion(r) = Host!MapGQLConclusion(r)
BY DEF Host!CheckRun, Host!Status, Host!Conclusion, Host!MapCheckConclusion, Host!MapGQLConclusion, Bad

LEMMA ChecksTold ==
    ASSUME NEW q, {q.checks, q.flows} \subseteq Seq(Host!CheckRun),
           q.fates \in [graphql : Host!Fate, checks : Host!Fate, flows : Host!Fate, pr : Host!Fate]
    PROVE  CIAnswer(q, OnCI(q))
<1> DEFINE checks == q.checks
           page == Host!FirstPage(checks)
           told == ToSet(page)
           all == ToSet(checks)
           fates == q.fates
           rest == Host!RestCIStatus(checks, q.flows, fates)
           batched == Host!BatchedCIStatus(checks, q.flows, fates)
           C(r) == Host!MapCheckConclusion(r)
           D(r) == Host!MapGQLConclusion(r)
           allTold == fates = [f \in DOMAIN fates |-> "ok"] /\ Len(checks) \in 1..PageSize /\ q.flows = <<>>
           extra == IF fates.flows = "ok" THEN ToSet(q.flows) ELSE {}
           seen == told \cup extra
<1>1. /\ page \in Seq(Host!CheckRun) /\ told \subseteq all
      /\ page = SubSeq(checks, 1, IF Len(checks) < PageSize THEN Len(checks) ELSE PageSize)
      /\ Len(checks) <= PageSize => page = checks
  BY FirstPageIs
<1>2. all \subseteq Host!CheckRun
  <2>1. \A i \in 1..Len(checks) : checks[i] \in Host!CheckRun
    BY ElementOfSeq
  <2> QED BY <2>1, LenProperties DEF ToSet
<1>3. ToSet(q.flows) \subseteq Host!CheckRun
  <2>1. \A i \in 1..Len(q.flows) : q.flows[i] \in Host!CheckRun
    BY ElementOfSeq
  <2> QED BY <2>1, LenProperties DEF ToSet
<1>4. seen \subseteq Host!CheckRun /\ told \subseteq seen
  BY <1>1, <1>2, <1>3
<1>5. rest = IF fates.pr # "ok" \/ fates.checks # "ok" \/ seen = {} THEN "none"
             ELSE Host!Aggregate({C(r) : r \in seen})
  BY SameToSetHost DEF Host!RestCIStatus, Host!CheckRunsStatus
<1>6. batched = IF fates.graphql = "ok" /\ checks # <<>> THEN Host!Aggregate({D(r) : r \in all}) ELSE rest
  BY SameToSetHost DEF Host!BatchedCIStatus
<1> HIDE DEF rest, batched, seen
<1>7. rest = "success" => \A r \in told : r.status = "completed" /\ ~Bad(r)
  <2> SUFFICES ASSUME rest = "success", NEW r \in told PROVE r.status = "completed" /\ ~Bad(r)
    OBVIOUS
  <2> DEFINE states == {C(x) : x \in seen}
  <2>1. r \in seen /\ r \in Host!CheckRun /\ C(r) \in states
    BY <1>4
  <2>2. Host!Aggregate(states) = "success"
    BY <1>5
  <2> HIDE DEF states
  <2>3. C(r) \notin {"failed", "running", "pending"}
    BY <2>1, <2>2, AggregateIs
  <2> QED BY <2>1, <2>3, ChecksMapped
<1>8. batched = "success" => \A r \in told : r.status = "completed" /\ ~Bad(r)
  <2> SUFFICES ASSUME batched = "success", NEW r \in told, batched # rest PROVE r.status = "completed" /\ ~Bad(r)
    BY <1>7
  <2> DEFINE states == {D(x) : x \in all}
  <2>1. r \in all /\ r \in Host!CheckRun /\ D(r) \in states
    BY <1>1, <1>2
  <2>2. Host!Aggregate(states) = "success"
    BY <1>6
  <2> HIDE DEF states
  <2>3. D(r) \notin {"failed", "running", "pending"}
    BY <2>1, <2>2, AggregateIs
  <2> QED BY <2>1, <2>3, ChecksMapped
<1>9. ASSUME NEW r \in told, Bad(r) PROVE rest \in {"failed", "none"} /\ batched \in {"failed", "none"}
  <2>1. r \in seen /\ r \in all /\ r \in Host!CheckRun /\ C(r) = "failed" /\ D(r) = "failed"
    BY <1>1, <1>4, <1>9, ChecksMapped
  <2>2. "failed" \in {C(x) : x \in seen} /\ "failed" \in {D(x) : x \in all}
    BY <2>1
  <2> QED BY <1>5, <1>6, <2>2, AggregateIs
<1>10. ASSUME allTold
       PROVE  /\ seen = all /\ told = all /\ all # {} /\ checks # <<>> /\ page = checks
              /\ rest = Host!Aggregate({C(r) : r \in all})
              /\ batched = Host!Aggregate({D(r) : r \in all})
  <2>1. Len(checks) \in Nat /\ Len(checks) <= PageSize /\ 1 \in 1..Len(checks)
    BY <1>10, PageAssumption, LenProperties
  <2>2. page = checks /\ told = all
    BY <1>1, <2>1
  <2>3. checks[1] \in all /\ checks # <<>>
    BY <2>1, LenProperties, EmptySeq DEF ToSet
  <2>4. fates.pr = "ok" /\ fates.checks = "ok" /\ fates.graphql = "ok"
    <3>1. {"pr", "checks", "graphql"} \subseteq DOMAIN fates
      OBVIOUS
    <3>2. \A f \in DOMAIN fates : fates[f] = "ok"
      BY <1>10
    <3> QED BY <3>1, <3>2
  <2>5. ToSet(q.flows) = {}
    BY <1>10, NothingIn
  <2>6. seen = all
    BY <2>2, <2>5 DEF seen
  <2> QED BY <1>5, <1>6, <2>2, <2>3, <2>4, <2>6
<1>11. ASSUME allTold, \A r \in told : r.conclusion # "odd" PROVE rest = batched
  <2>1. \A r \in all : C(r) = D(r)
    BY <1>2, <1>10, <1>11, ChecksMapped
  <2>2. {C(r) : r \in all} = {D(r) : r \in all}
    BY <2>1
  <2> QED BY <1>10, <1>11, <2>2
<1>12. ASSUME allTold PROVE rest = "failed" <=> "failed" \in ToSet(Host!GhListPipelinesByCommit(checks))
  <2> DEFINE list == Host!GhListPipelinesByCommit(checks)
  <2>1. list = [i \in DOMAIN checks |-> C(checks[i])]
    BY <1>10, <1>12 DEF Host!GhListPipelinesByCommit
  <2>2. ToSet(list) = {C(r) : r \in all}
    BY <2>1 DEF ToSet
  <2> QED BY <1>10, <1>12, <2>2, AggregateIs
<1>13. Host!GlCIStatusFor(q.pipelines, fates.pr) = "success" => q.pipelines # <<>> /\ Last(q.pipelines) = "success"
  BY DEF Host!GlCIStatusFor, Host!MapPipelineState, Host!Last, Last
<1>14. /\ OnCI(q).rest = rest /\ OnCI(q).batched = batched
       /\ OnCI(q).list = Host!GhListPipelinesByCommit(checks)
       /\ OnCI(q).gitlab = Host!GlCIStatusFor(q.pipelines, fates.pr)
  BY DEF OnCI, rest, batched
<1> DEFINE a == OnCI(q)
<1> HIDE DEF rest, batched, a
<1> QED BY <1>1, <1>7, <1>8, <1>9, <1>11, <1>12, <1>13, <1>14 DEF CIAnswer, a

(* Whose reviews decide.                                                       *)
Deciding(r, u) == r.user = u /\ Host!Decides(r)

LEMMA LatestIs ==
    ASSUME NEW R, NEW reviews \in Seq(R), NEW u
    PROVE  \/ /\ Host!Latest(reviews, u) = "none"
              /\ \A i \in 1..Len(reviews) : ~Deciding(reviews[i], u)
           \/ \E m \in 1..Len(reviews) :
                /\ Deciding(reviews[m], u) /\ Host!Latest(reviews, u) = reviews[m].state
                /\ \A i \in 1..Len(reviews) : i > m => ~Deciding(reviews[i], u)
<1> DEFINE n == Len(reviews)
           keep == {r \in ToSet(reviews) : r.user = u /\ Host!Decides(r)}
           own == Among(reviews, keep)
           P == {i \in 1..n : Deciding(reviews[i], u)}
<1>1. n \in Nat /\ DOMAIN reviews = 1..n
  BY LenProperties
<1>2. Host!Latest(reviews, u) = IF own = <<>> THEN "none" ELSE own[Len(own)].state
  <2>1. Host!Among(reviews, keep) = own
    <3> HIDE DEF keep
    <3> QED BY AmongPicks
  <2> QED BY <2>1, SameToSetHost DEF Host!Latest, Host!Last
<1>3. \A i \in 1..n : reviews[i] \in keep <=> Deciding(reviews[i], u)
  BY <1>1 DEF Deciding, ToSet
<1> HIDE DEF keep
<1>4. CASE P = {}
  <2>1. ToSet(reviews) \cap keep = {}
    BY <1>1, <1>3, <1>4 DEF ToSet
  <2>2. own = <<>>
    BY <2>1, AmongSet
  <2> QED BY <1>2, <1>4, <2>2
<1>5. CASE P # {}
  <2>1. Max(P) \in P /\ \A i \in P : i <= Max(P)
    <3>1. P \in SUBSET (1..n)
      OBVIOUS
    <3> HIDE DEF P, n
    <3> QED BY <1>1, <1>5, <3>1, GreatestIndex
  <2> DEFINE m == Max(P)
  <2> HIDE DEF m
  <2>2. m \in 1..n /\ Deciding(reviews[m], u)
    BY <2>1 DEF m
  <2>3. ASSUME NEW i \in 1..n, i > m PROVE ~Deciding(reviews[i], u)
    <3>1. i \in P => i <= m
      BY <2>1 DEF m
    <3>2. i \in Int /\ m \in Int
      BY <2>2
    <3> QED BY <2>3, <3>1, <3>2
  <2>4. own # <<>> /\ own[Len(own)] = reviews[m]
    <3>1. reviews[m] \in keep /\ \A i \in 1..n : i > m => reviews[i] \notin keep
      BY <1>3, <2>2, <2>3
    <3> QED BY <2>2, <3>1, AmongLast
  <2> QED BY <1>2, <2>2, <2>3, <2>4
<1> QED BY <1>4, <1>5

LEMMA QuietLatest ==
    ASSUME NEW reviews \in Seq([user : User, state : Host!ReviewState]), NEW u
    PROVE  LET spoken == Among(reviews, {r \in ToSet(reviews) : r.state # "COMMENTED"})
           IN  Host!Latest(spoken, u) = Host!Latest(reviews, u)
<1> DEFINE R == [user : User, state : Host!ReviewState]
           keep == {r \in ToSet(reviews) : r.state # "COMMENTED"}
           spoken == Among(reviews, keep)
           n == Len(reviews)
           o == Len(spoken)
<1>1. PICK f : spoken \in Seq(R) /\ Picks(reviews, n, keep, spoken, f)
  <2> HIDE DEF keep
  <2> QED BY AmongPicks
<1>2. n \in Nat /\ o \in Nat /\ DOMAIN reviews = 1..n
  BY <1>1, LenProperties
<1>3. \A i \in 1..n : reviews[i] \in keep <=> reviews[i].state # "COMMENTED"
  BY <1>2 DEF ToSet
<1> HIDE DEF keep, spoken
<1>4. /\ f \in [1..o -> 1..n]
      /\ \A i, j \in 1..o : i < j => f[i] < f[j]
      /\ \A j \in 1..o : spoken[j] = reviews[f[j]]
      /\ \A i \in 1..n : reviews[i] \in keep => \E j \in 1..o : f[j] = i
  BY <1>1 DEF Picks
<1> HIDE DEF o, n
<1>5. CASE Host!Latest(reviews, u) = "none" /\ \A i \in 1..n : ~Deciding(reviews[i], u)
  <2>1. \A j \in 1..o : ~Deciding(spoken[j], u)
    BY <1>4, <1>5
  <2>2. Host!Latest(spoken, u) = "none"
    BY <1>1, <2>1, LatestIs DEF o
  <2> QED BY <1>5, <2>2 DEF spoken, keep
<1>6. ASSUME NEW m \in 1..n,
             Deciding(reviews[m], u), Host!Latest(reviews, u) = reviews[m].state,
             \A i \in 1..n : i > m => ~Deciding(reviews[i], u)
      PROVE  Host!Latest(spoken, u) = Host!Latest(reviews, u)
  <2>1. reviews[m] \in keep
    BY <1>3, <1>6 DEF Deciding, Host!Decides
  <2>2. PICK j \in 1..o : f[j] = m
    BY <1>4, <2>1
  <2>3. Deciding(spoken[j], u) /\ spoken[j] = reviews[m]
    BY <1>4, <1>6, <2>2
  <2>4. ASSUME NEW i \in 1..o, i > j PROVE ~Deciding(spoken[i], u)
    <3>1. f[i] > m /\ f[i] \in 1..n
      BY <1>2, <1>4, <2>2, <2>4
    <3> QED BY <1>4, <1>6, <3>1
  <2>5. PICK k \in 1..o : /\ Deciding(spoken[k], u) /\ Host!Latest(spoken, u) = spoken[k].state
                          /\ \A i \in 1..o : i > k => ~Deciding(spoken[i], u)
    BY <1>1, <2>3, LatestIs DEF o
  <2>6. k = j
    <3>1. k \in Int /\ j \in Int
      BY <1>2
    <3> QED BY <2>3, <2>4, <2>5, <3>1
  <2> QED BY <1>6, <2>3, <2>5, <2>6
<1>7. Host!Latest(spoken, u) = Host!Latest(reviews, u)
  BY <1>5, <1>6, LatestIs DEF n, spoken, keep
<1> QED BY <1>7 DEF spoken, keep

ApprovalAnswer(q, a) ==
    /\ a.all = a.quiet
    /\ a.all.approved => \A i \in DOMAIN q.reviews : q.reviews[i].state = "CHANGES_REQUESTED" =>
            \E j \in DOMAIN q.reviews : j > i /\ q.reviews[j].user = q.reviews[i].user
                                        /\ q.reviews[j].state \in {"APPROVED", "DISMISSED"}
    /\ a.all.approved /\ q.fates.protection = "ok" =>
            q.required <= Cardinality({r.user : r \in ToSet(q.reviews)})

LEMMA Approved ==
    ASSUME NEW q, q.reviews \in Seq([user : User, state : Host!ReviewState]), q.required \in Nat
    PROVE  ApprovalAnswer(q, OnApproval(q))
<1> DEFINE R == [user : User, state : Host!ReviewState]
           reviews == q.reviews
           spoken == Among(reviews, {r \in ToSet(reviews) : r.state # "COMMENTED"})
           all == Host!GhApprovalStatus(reviews, q.required, q.fates)
           quiet == Host!GhApprovalStatus(spoken, q.required, q.fates)
           by == {u \in User : Host!Latest(reviews, u) = "APPROVED"}
           n == Len(reviews)
           L(u) == Host!Latest(reviews, u)
<1>1. n \in Nat /\ DOMAIN reviews = 1..n /\ \A i \in 1..n : reviews[i] \in R
  BY LenProperties, ElementOfSeq
<1>2. all = quiet
  <2>1. \A u : Host!Latest(spoken, u) = Host!Latest(reviews, u)
    BY QuietLatest
  <2> HIDE DEF spoken
  <2> QED BY <2>1 DEF Host!GhApprovalStatus
<1>3. /\ all.approved = (Cardinality(by) >= (IF q.fates.protection = "ok" THEN q.required ELSE 0)
                            /\ ~\E u \in User : L(u) = "CHANGES_REQUESTED")
  BY SameCardinalityHost DEF Host!GhApprovalStatus
<1>4. ASSUME all.approved, NEW i \in 1..n, reviews[i].state = "CHANGES_REQUESTED"
      PROVE  \E j \in 1..n : j > i /\ reviews[j].user = reviews[i].user
                                /\ reviews[j].state \in {"APPROVED", "DISMISSED"}
  <2> DEFINE u == reviews[i].user
  <2>1. u \in User /\ Deciding(reviews[i], u)
    BY <1>1, <1>4 DEF Deciding, Host!Decides
  <2> HIDE DEF u
  <2>2. PICK m \in 1..n : /\ Deciding(reviews[m], u) /\ Host!Latest(reviews, u) = reviews[m].state
                          /\ \A k \in 1..n : k > m => ~Deciding(reviews[k], u)
    BY <2>1, LatestIs
  <2>3. L(u) # "CHANGES_REQUESTED"
    BY <1>3, <1>4, <2>1
  <2>4. reviews[m].state \in {"APPROVED", "DISMISSED"} /\ reviews[m].user = u
    <3>1. reviews[m].state \in Host!ReviewState /\ reviews[m].state # "CHANGES_REQUESTED"
      BY <1>1, <2>2, <2>3
    <3>2. reviews[m].state \notin {"COMMENTED", "PENDING"} /\ reviews[m].user = u
      BY <2>2 DEF Deciding, Host!Decides
    <3> QED BY <3>1, <3>2 DEF Host!ReviewState
  <2>5. m > i
    <3>1. m # i /\ ~(i > m)
      BY <1>4, <2>1, <2>2, <2>4
    <3> QED BY <1>1, <3>1
  <2> QED BY <2>4, <2>5 DEF u
<1>5. ASSUME all.approved, q.fates.protection = "ok"
      PROVE  q.required <= Cardinality({r.user : r \in ToSet(reviews)})
  <2> DEFINE users == {r.user : r \in ToSet(reviews)}
             ranks == [i \in 1..n |-> reviews[i].user]
  <2>1. by \subseteq users
    <3> SUFFICES ASSUME NEW u \in by PROVE u \in users
      OBVIOUS
    <3>1. PICK m \in 1..n : Deciding(reviews[m], u)
      BY LatestIs
    <3>2. reviews[m] \in ToSet(reviews) /\ reviews[m].user = u
      BY <1>1, <3>1 DEF Deciding, ToSet
    <3> QED BY <3>2
  <2>2. IsFiniteSet(users)
    <3>1. ranks \in Surjection(1..n, users)
      <4>1. \A i \in 1..n : reviews[i].user \in users
        BY <1>1 DEF ToSet
      <4>2. ASSUME NEW x \in users PROVE \E i \in 1..n : ranks[i] = x
        <5>1. PICK r \in ToSet(reviews) : x = r.user
          OBVIOUS
        <5>2. PICK i \in 1..n : r = reviews[i]
          BY <1>1 DEF ToSet
        <5> QED BY <5>1, <5>2
      <4> HIDE DEF users
      <4> QED BY <4>1, <4>2 DEF Surjection
    <3>2. IsFiniteSet(1..n)
      BY <1>1, FS_Interval
    <3> HIDE DEF ranks, users
    <3> QED BY <3>1, <3>2, FS_Surjection
  <2>3. Cardinality(by) <= Cardinality(users) /\ Cardinality(by) \in Nat /\ Cardinality(users) \in Nat
    <3> HIDE DEF by, users
    <3> QED BY <2>1, <2>2, FS_Subset, FS_CardinalityType
  <2>4. Cardinality(by) >= q.required
    BY <1>3, <1>5
  <2> HIDE DEF by, users
  <2>5. q.required <= Cardinality(users)
    BY <2>3, <2>4
  <2> QED BY <2>5 DEF users
<1>6. OnApproval(q).all = all /\ OnApproval(q).quiet = quiet
  BY DEF OnApproval
<1> DEFINE a == OnApproval(q)
<1> HIDE DEF all, quiet, a
<1> QED BY <1>1, <1>2, <1>4, <1>5, <1>6 DEF ApprovalAnswer, a

CommentAnswer(q, a) ==
    /\ \A r \in {a.gh, a.gl} :
            /\ ~r.err => Len(r.left) >= 1
            /\ Len(r.left) = 2 => "lost" \in {q.fates.post, q.fates.note}
    /\ q.at.side = "right" => a.back \subseteq {q.at}
    /\ a.moved.line # 0

LEMMA Commented ==
    ASSUME NEW q, q.at \in [path : FilePath, line : Nat \ {0}, side : Host!Side], q.now \in Nat,
           {q.fates.pr, q.fates.post, q.fates.note} \subseteq Host!Fate
    PROVE  CommentAnswer(q, OnComment(q))
<1> DEFINE at == q.at
           fates == q.fates
           inline == fates.pr = "ok" /\ Host!Done(fates.post)
           fallback == fates.pr # "ok" \/ fates.post # "ok"
           first == IF inline THEN <<[at |-> at, inline |-> TRUE]>> ELSE <<>>
           second == IF fallback /\ Host!Done(fates.note) THEN <<[at |-> at, inline |-> FALSE]>> ELSE <<>>
           gh == Host!GhInlineComment(at, fates)
           gl == Host!GlInlineComment(at, fates)
           V == [at : {at}, inline : BOOLEAN]
<1>1. gh = [left |-> first \o second, err |-> fallback /\ fates.note # "ok"]
  BY DEF Host!GhInlineComment
<1>2. first \in Seq(V) /\ second \in Seq(V) /\ Len(first) = (IF inline THEN 1 ELSE 0)
      /\ Len(second) = IF fallback /\ Host!Done(fates.note) THEN 1 ELSE 0
  <2> DEFINE x == [at |-> at, inline |-> TRUE]
             y == [at |-> at, inline |-> FALSE]
             e == <<>>
  <2>1. x \in V /\ y \in V
    OBVIOUS
  <2> HIDE DEF x, y, V
  <2>2. <<x>> \in Seq(V) /\ <<y>> \in Seq(V) /\ Len(<<x>>) = 1 /\ Len(<<y>>) = 1 /\ e \in Seq(V) /\ Len(e) = 0
    BY <2>1
  <2>3. first = (IF inline THEN <<x>> ELSE e) /\ second = IF fallback /\ Host!Done(fates.note) THEN <<y>> ELSE e
    BY DEF x, y
  <2> HIDE DEF e, first, second
  <2> QED BY <2>2, <2>3
<1> HIDE DEF first, second, V
<1> DEFINE left == first \o second
<1>3. left \in Seq(V) /\ Len(left) = Len(first) + Len(second) /\ DOMAIN left = 1..Len(left)
  BY <1>2, ConcatProperties, LenProperties
<1>4. /\ ~gh.err => Len(left) >= 1
      /\ Len(left) = 2 => "lost" \in {fates.post, fates.note}
  <2>1. CASE fallback
    <3>1. gh.err <=> fates.note # "ok"
      <4>1. gh.err = (fallback /\ fates.note # "ok")
        BY <1>1
      <4> QED BY <2>1, <4>1
    <3>2. Len(second) = 1 <=> fates.note # "failed"
      BY <1>2, <2>1 DEF Host!Done
    <3>3. Len(left) = 2 => inline /\ fates.post # "ok" /\ fates.post # "failed"
      BY <1>2, <1>3, <2>1 DEF Host!Done
    <3> QED BY <1>2, <1>3, <3>1, <3>2, <3>3 DEF Host!Fate
  <2>2. CASE ~fallback
    BY <1>1, <1>2, <1>3, <2>2 DEF Host!Done
  <2> QED BY <2>1, <2>2
<1>5. gh.left = left /\ gl.err = gh.err /\ gl.left = [i \in DOMAIN left |-> [at |-> Host!GlPosition(at), inline |-> left[i].inline]]
  <2>1. gh.left = left
    BY <1>1
  <2> HIDE DEF left
  <2> QED BY <2>1 DEF Host!GlInlineComment
<1>6. Len(gl.left) = Len(left) /\ DOMAIN gl.left = DOMAIN left /\ \A i \in DOMAIN left : gl.left[i].at = Host!GlPosition(at)
  <2> HIDE DEF left
  <2>1. Len(left) \in Nat
    BY <1>3, LenProperties
  <2>2. gl.left = [i \in 1..Len(left) |-> [at |-> Host!GlPosition(at), inline |-> left[i].inline]]
    BY <1>3, <1>5
  <2> DEFINE m == Len(left)
             g == gl.left
  <2> HIDE DEF g
  <2>3. DOMAIN g = 1..m /\ m \in Nat /\ \A i \in 1..m : g[i].at = Host!GlPosition(at)
    BY <2>1, <2>2 DEF g
  <2>4. Len(g) = m
    <3>1. g \in Seq([at : {Host!GlPosition(at)}, inline : {left[i].inline : i \in 1..m}])
      <4> DEFINE E(i) == [at |-> Host!GlPosition(at), inline |-> left[i].inline]
                 S == [at : {Host!GlPosition(at)}, inline : {left[i].inline : i \in 1..m}]
      <4>1. \A i \in 1..m : E(i) \in S
        OBVIOUS
      <4>2. g = [i \in 1..m |-> E(i)]
        BY <2>2 DEF g
      <4> HIDE DEF E, S
      <4>3. g \in Seq(S)
        BY <2>3, <4>1, <4>2, IsASeq
      <4> QED BY <4>3 DEF S
    <3> QED BY <2>3, <3>1, LenProperties
  <2> QED BY <1>3, <2>3, <2>4 DEF g
<1>7. ASSUME at.side = "right", NEW n \in ToSet(gl.left) PROVE Host!NoteToComment(n.at) = at
  <2>1. n.at = Host!GlPosition(at)
    BY <1>6, <1>7 DEF ToSet
  <2>2. Host!NoteToComment(n.at) = [path |-> at.path, line |-> at.line, side |-> "right"]
    BY <1>7, <2>1 DEF Host!GlPosition, Host!NoteToComment
  <2> QED BY <1>7, <2>2
<1>8. OnComment(q).moved.line # 0
  BY DEF OnComment, Host!GhReadComment
<1>9. OnComment(q).gh = gh /\ OnComment(q).gl = gl /\ OnComment(q).back = {Host!NoteToComment(n.at) : n \in ToSet(gl.left)}
  BY DEF OnComment
<1> DEFINE a == OnComment(q)
<1> HIDE DEF gh, gl, left, a
<1>10. at.side = "right" => a.back \subseteq {at}
  BY <1>7, <1>9 DEF a
<1> QED BY <1>4, <1>5, <1>6, <1>8, <1>9, <1>10 DEF CommentAnswer, a

(* An answer is the one of now, and a limit lies ahead.                        *)
GetAnswer(q, a) ==
    /\ a.one.err \/ a.one.body = q.body[1]
    /\ a.two.err \/ a.two.body = q.body[2]
    /\ a.limit.limited => a.limit.until > q.refusal.now \/ a.limit.until = q.refusal.reset

LEMMA Got == ASSUME NEW q, q.refusal.now \in Int PROVE GetAnswer(q, OnGet(q))
<1> DEFINE one == Host!GhGet("", q.body[1], q.fates[1], q.tagged)
           two == Host!GhGet(one.cached, q.body[2], q.fates[2], q.tagged)
           limit == Host!ParseRateLimitError(q.refusal)
<1>1. ASSUME NEW c, NEW body, NEW fate, NEW tagged
      PROVE  Host!GhGet(c, body, fate, tagged).err \/ Host!GhGet(c, body, fate, tagged).body = body
  BY Zenon DEF Host!GhGet
<1>2. limit.limited => limit.until > q.refusal.now \/ limit.until = q.refusal.reset
  BY DEF Host!ParseRateLimitError
<1>3. OnGet(q) = [one |-> one, two |-> two, limit |-> limit]
  BY DEF OnGet
<1>4. one.err \/ one.body = q.body[1]
  BY <1>1, Zenon
<1>5. two.err \/ two.body = q.body[2]
  BY <1>1, Zenon
<1> HIDE DEF one, two, limit
<1> QED BY <1>2, <1>3, <1>4, <1>5 DEF GetAnswer

IssuesAnswer(q, a) ==
    /\ q.filter.state \in {"", "open"}
    /\ (q.filter.label = "") # (q.filter.assignee = "")
    => {i \in a.gh : ~i.pull} = a.gl

LEMMA IssuesListed ==
    ASSUME NEW q, \A i \in q.issues : i.state \in {"open", "closed"} /\ i.pull \in BOOLEAN
    PROVE  IssuesAnswer(q, OnIssues(q))
<1> SUFFICES ASSUME q.filter.state \in {"", "open"}, (q.filter.label = "") # (q.filter.assignee = "")
             PROVE  {i \in OnIssues(q).gh : ~i.pull} = OnIssues(q).gl
  BY DEF IssuesAnswer
<1>1. ASSUME NEW i \in q.issues
      PROVE  /\ q.filter.assignee \in {"", i.assignee} /\ q.filter.label \in {""} \cup i.labels
             /\ q.filter.state \in {"all", i.state} \/ (q.filter.state = "" /\ i.state = "open")
             /\ ~i.pull
             <=> /\ ~i.pull /\ i.state = "open"
                 /\ IF q.filter.label # "" THEN q.filter.label \in i.labels ELSE i.assignee = q.filter.assignee
  OBVIOUS
<1> QED BY <1>1 DEF OnIssues, Host!GhListIssues, Host!GlListIssues

LEMMA Closed ==
    ASSUME NEW q, q.refs \in Seq([word : STRING, issue : Nat])
    PROVE  {r.issue : r \in ToSet(OnClosing(q).gh)} \subseteq OnClosing(q).gl
<1> DEFINE keep == {r \in ToSet(q.refs) : r.word \in {"closes", "fixes", "resolves"} /\ r.issue \in q.readable}
<1>1. OnClosing(q).gh = Among(q.refs, keep)
  <2>1. Host!Among(q.refs, keep) = Among(q.refs, keep)
    <3> HIDE DEF keep
    <3> QED BY AmongPicks
  <2> QED BY <2>1, SameToSetHost DEF OnClosing, Host!GhClosing
<1>2. ToSet(OnClosing(q).gh) \subseteq keep
  <2> HIDE DEF keep
  <2> QED BY <1>1, AmongSet
<1>3. \A r \in keep : r.issue \in Host!ParseClosesN(q.refs)
  BY SameToSetHost DEF Host!ParseClosesN
<1> HIDE DEF keep
<1> QED BY <1>2, <1>3 DEF OnClosing

(* The first of several that says anything.                                    *)
LEMMA Adapted ==
    ASSUME NEW q
    PROVE  LET a == OnAdapter(q) IN
           /\ q.env # "" /\ ~a.err => a.token = q.env
           /\ a.err <=> q.provider # "github"
<1> DEFINE creds == [github |-> [host |-> "known", token |-> "kept"]]
           s == <<q.env, "kept">>
           keep == {c \in ToSet(s) : c # ""}
           none == ""
<1>1. OnAdapter(q).err <=> q.provider # "github"
  BY DEF OnAdapter, Host!NewPressoir
<1>2. ASSUME q.env # none, q.provider = "github" PROVE OnAdapter(q).token = q.env
  <2> DEFINE e == q.env
             kept == "kept"
             V == {e, kept}
  <2>1. s \in Seq(V) /\ Len(s) = 2 /\ s[1] = q.env /\ DOMAIN s = 1..2
    <3>1. e \in V /\ kept \in V
      OBVIOUS
    <3> HIDE DEF e, kept, V
    <3>2. <<e, kept>> \in Seq(V) /\ Len(<<e, kept>>) = 2 /\ <<e, kept>>[1] = e /\ DOMAIN <<e, kept>> = 1..2
      BY <3>1
    <3> QED BY <3>2 DEF e, kept
  <2>2. s[1] \in keep
    <3> HIDE DEF s
    <3>1. 1 \in DOMAIN s
      BY <2>1
    <3>2. s[1] \in ToSet(s)
      BY <3>1 DEF ToSet
    <3> QED BY <1>2, <2>1, <3>2, Zenon
  <2>3. OnAdapter(q).token = Host!First(s)
    <3>0. q.provider = "github"
      BY <1>2
    <3>1. q.provider \in DOMAIN creds /\ creds[q.provider].token = "kept"
      <4> HIDE DEF none
      <4>1. "github" \in DOMAIN creds /\ creds["github"].token = "kept"
        OBVIOUS
      <4> QED BY <3>0, <4>1
    <3>2. OnAdapter(q) = [err |-> FALSE, host |-> Host!First(<<q.host, creds[q.provider].host>>),
                          token |-> Host!First(<<q.env, creds[q.provider].token>>)]
      BY <3>1 DEF OnAdapter, Host!NewPressoir
    <3> HIDE DEF creds
    <3> QED BY <3>1, <3>2
  <2>4. Host!First(s) = IF Host!Among(s, keep) = <<>> THEN none ELSE Head(Host!Among(s, keep))
    BY SameToSetHost, Zenon DEF Host!First
  <2> HIDE DEF keep, s, none, V
  <2>5. Host!Among(s, keep) = Among(s, keep)
    BY <2>1, AmongPicks
  <2>6. Among(s, keep) # <<>> /\ Head(Among(s, keep)) = s[1]
    <3>1. 1 \in 1..Len(s) /\ \A i \in 1..Len(s) : i < 1 => s[i] \notin keep
      BY <2>1
    <3> QED BY <2>1, <2>2, <3>1, AmongHead
  <2> QED BY <2>1, <2>3, <2>4, <2>5, <2>6
<1> QED BY <1>1, <1>2

ThreadOf(said, t, n) ==
    /\ ToSet(t) = {c \in ToSet(said) : c.review = n}
    /\ Len(t) = Cardinality({i \in DOMAIN said : said[i].review = n})

LEMMA ThreadsAre ==
    ASSUME NEW V, NEW said \in Seq(V)
    PROVE  LET threads == Host!GhDiscussions(said)
               of(n) == {k \in DOMAIN threads : \E c \in ToSet(threads[k]) : c.review = n}
           IN  /\ \A c \in ToSet(said) : Cardinality(of(c.review)) = 1
               /\ \A t \in ToSet(threads) : \E n \in {c.review : c \in ToSet(said)} : ThreadOf(said, t, n)
<1> DEFINE ids == [i \in DOMAIN said |-> said[i].review]
           first == Firsts(ids)
           keep(n) == {c \in ToSet(said) : c.review = n}
           threads == Host!GhDiscussions(said)
           of(n) == {k \in DOMAIN threads : \E c \in ToSet(threads[k]) : c.review = n}
<1>1. DOMAIN said = 1..Len(said) /\ Len(said) \in Nat
  BY LenProperties
<1>2. ids \in Seq({said[i].review : i \in DOMAIN said}) /\ DOMAIN ids = DOMAIN said
  <2> DEFINE W == {said[i].review : i \in DOMAIN said}
             E(i) == said[i].review
  <2>1. ids = [i \in 1..Len(said) |-> E(i)] /\ \A i \in 1..Len(said) : E(i) \in W
    BY <1>1
  <2> HIDE DEF W, E
  <2>2. ids \in Seq(W)
    BY <1>1, <2>1, IsASeq
  <2> QED BY <2>2 DEF W
<1>3. /\ Host!Firsts(ids) = first
      /\ first \in Seq(DOMAIN said)
      /\ \A k, l \in DOMAIN first : ids[first[k]] = ids[first[l]] => k = l
      /\ \A i \in DOMAIN said : \E k \in DOMAIN first : ids[first[k]] = ids[i]
  <2> HIDE DEF ids
  <2> QED BY <1>2, FirstsAre
<1>4. threads = [k \in DOMAIN first |-> Among(said, keep(ids[first[k]]))]
  <2>1. ASSUME NEW kept PROVE Host!Among(said, kept) = Among(said, kept)
    BY AmongPicks
  <2>2. threads = [k \in DOMAIN Host!Firsts(ids) |-> Host!Among(said, {c \in ToSet(said) : c.review = ids[Host!Firsts(ids)[k]]})]
    BY SameToSetHost DEF Host!GhDiscussions
  <2> HIDE DEF threads, first, ids
  <2> QED BY <1>3, <2>1, <2>2
<1>5. ASSUME NEW k \in DOMAIN first
      PROVE  threads[k] \in Seq(V) /\ ThreadOf(said, threads[k], ids[first[k]]) /\ first[k] \in DOMAIN said
  <2> DEFINE n == ids[first[k]]
  <2>1. first[k] \in DOMAIN said
    BY <1>3, ElementOfSeq, LenProperties
  <2> HIDE DEF first, ids
  <2>2. threads[k] = Among(said, keep(n))
    BY <1>4
  <2>3. {i \in DOMAIN said : said[i] \in keep(n)} = {i \in DOMAIN said : said[i].review = n}
    BY DEF ToSet
  <2>4. keep(n) \subseteq ToSet(said)
    OBVIOUS
  <2> HIDE DEF keep, threads, n
  <2>5. threads[k] \in Seq(V) /\ ToSet(threads[k]) = keep(n)
    <3> DEFINE kept == keep(n)
    <3>1. kept \subseteq ToSet(said) /\ threads[k] = Among(said, kept)
      BY <2>2, <2>4
    <3> HIDE DEF kept
    <3>2. Among(said, kept) \in Seq(V) /\ ToSet(Among(said, kept)) = ToSet(said) \cap kept
      BY AmongSet
    <3>3. threads[k] \in Seq(V) /\ ToSet(threads[k]) = kept
      BY <3>1, <3>2
    <3> QED BY <3>3 DEF kept
  <2>6. Len(threads[k]) = Cardinality({i \in DOMAIN said : said[i] \in keep(n)})
    BY <2>2, AmongCounts
  <2>7. ThreadOf(said, threads[k], n)
    BY <2>3, <2>5, <2>6 DEF ThreadOf, keep
  <2> QED BY <2>1, <2>5, <2>7 DEF n
<1>6. DOMAIN threads = DOMAIN first
  <2> HIDE DEF threads, first
  <2> QED BY <1>4
<1>7. ASSUME NEW c \in ToSet(said) PROVE Cardinality(of(c.review)) = 1
  <2>1. PICK i \in DOMAIN said : said[i] = c
    BY DEF ToSet
  <2>2. PICK k \in DOMAIN first : ids[first[k]] = c.review
    <3>1. ids[i] = c.review
      BY <2>1
    <3> HIDE DEF ids, first
    <3> QED BY <1>3, <3>1
  <2> HIDE DEF threads, first, ids
  <2>3. k \in of(c.review)
    BY <1>5, <1>6, <2>2 DEF ThreadOf
  <2>4. \A l \in of(c.review) : l = k
    <3> SUFFICES ASSUME NEW l \in DOMAIN threads, NEW d \in ToSet(threads[l]), d.review = c.review PROVE l = k
      OBVIOUS
    <3>1. ids[first[l]] = c.review
      BY <1>5, <1>6 DEF ThreadOf
    <3> QED BY <1>3, <1>6, <2>2, <3>1
  <2> HIDE DEF of
  <2>5. of(c.review) = {k}
    BY <2>3, <2>4
  <2> QED BY <2>5, FS_Singleton
<1>8. ASSUME NEW t \in ToSet(threads) PROVE \E n \in {c.review : c \in ToSet(said)} : ThreadOf(said, t, n)
  <2> HIDE DEF first
  <2>1. PICK k \in DOMAIN first : t = threads[k]
    <3> HIDE DEF threads
    <3> QED BY <1>6 DEF ToSet
  <2>2. first[k] \in DOMAIN said /\ ThreadOf(said, t, ids[first[k]])
    BY <1>5, <2>1
  <2>3. ids[first[k]] \in {c.review : c \in ToSet(said)}
    BY <2>2 DEF ToSet
  <2> HIDE DEF ids, threads
  <2> QED BY <2>2, <2>3
<1> HIDE DEF threads
<1> QED BY <1>7, <1>8 DEF threads

LEMMA PeopleOnly ==
    ASSUME NEW V, NEW said \in Seq(V), NEW n \in ToSet(Host!GlListIssueNotes(said))
    PROVE  ~n.system
<1> DEFINE keep == {x \in ToSet(said) : ~x.system}
           page == Host!FirstPage(said)
<1>1. page \in Seq(V)
  BY FirstPageIs
<1>2. Host!GlListIssueNotes(said) = Among(page, keep)
  <2>1. Host!Among(page, keep) = Among(page, keep)
    <3> HIDE DEF page, keep
    <3> QED BY <1>1, AmongPicks
  <2> QED BY <2>1, SameToSetHost DEF Host!GlListIssueNotes
<1>3. ToSet(Among(page, keep)) \subseteq keep
  <2> HIDE DEF page, keep
  <2> QED BY <1>1, AmongSet
<1> QED BY <1>2, <1>3

(* A list is whole or an error, and a comment is in one thread.                *)
ListsAnswer(q, a) ==
    /\ a.all.err \/ a.all.items = FlattenSeq(q.pages)
    /\ a.notes.err \/ a.notes.notes = FlattenSeq(q.pages)
    /\ LET said == FlattenSeq(q.pages)
           of(n) == {k \in DOMAIN a.threads : \E c \in ToSet(a.threads[k]) : c.review = n}
       IN  /\ \A c \in ToSet(said) : Cardinality(of(c.review)) = 1
           /\ \A t \in ToSet(a.threads) : \E n \in {c.review : c \in ToSet(said)} :
                /\ ToSet(t) = {c \in ToSet(said) : c.review = n}
                /\ Len(t) = Cardinality({i \in DOMAIN said : said[i].review = n})
    /\ \A n \in ToSet(a.people) : ~n.system

LEMMA Listed ==
    ASSUME NEW q, NEW V, q.pages \in Seq(Seq(V)), q.pages # <<>>
    PROVE  ListsAnswer(q, OnLists(q))
<1> DEFINE pages == q.pages
           said == FlattenSeq(pages)
           a == OnLists(q)
<1>1. /\ said \in Seq(V) /\ Host!FlattenSeq(pages) = said
      /\ pages[1] \o FlattenSeq(Tail(pages)) = said
  <2>1. Tail(pages) \in Seq(Seq(V))
    BY HeadTailProperties
  <2>2. Host!FlattenSeq(Tail(pages)) = FlattenSeq(Tail(pages)) /\ Host!FlattenSeq(pages) = FlattenSeq(pages)
    BY <2>1, FlattenGrows
  <2> QED BY <2>2, FlattenTail
<1>2. /\ a.all = Host!GhGetAll(pages, q.enterprise, q.fates)
      /\ a.notes = Host!GhListPRNotes(pages[1], FlattenSeq(Tail(pages)), [plain |-> q.fates[1], inline |-> q.fates[2]])
      /\ a.threads = Host!GhDiscussions(said) /\ a.people = Host!GlListIssueNotes(said)
  BY DEF OnLists
<1> HIDE DEF a, said
<1>3. a.all.err \/ a.all.items = said
  <2>1. Host!GhGetAll(pages, q.enterprise, q.fates) \in {[err |-> FALSE, items |-> Host!FlattenSeq(pages)], [err |-> TRUE, items |-> <<>>]}
    BY Zenon DEF Host!GhGetAll
  <2> QED BY <1>1, <1>2, <2>1
<1>4. a.notes.err \/ a.notes.notes = said
  <2>1. a.notes \in {[err |-> FALSE, notes |-> pages[1] \o FlattenSeq(Tail(pages))], [err |-> TRUE, notes |-> <<>>]}
    BY <1>2, Zenon DEF Host!GhListPRNotes
  <2> DEFINE b == pages[1] \o FlattenSeq(Tail(pages))
  <2>2. b = said
    BY <1>1
  <2>3. a.notes \in {[err |-> FALSE, notes |-> b], [err |-> TRUE, notes |-> <<>>]}
    BY <2>1
  <2> HIDE DEF b
  <2> QED BY <2>2, <2>3
<1>5. \A n \in ToSet(a.people) : ~n.system
  BY <1>1, <1>2, PeopleOnly
<1> DEFINE of(n) == {k \in DOMAIN a.threads : \E c \in ToSet(a.threads[k]) : c.review = n}
<1>6. /\ \A c \in ToSet(said) : Cardinality(of(c.review)) = 1
      /\ \A t \in ToSet(a.threads) : \E n \in {c.review : c \in ToSet(said)} : ThreadOf(said, t, n)
  <2> DEFINE threads == Host!GhDiscussions(said)
             in(n) == {k \in DOMAIN threads : \E c \in ToSet(threads[k]) : c.review = n}
  <2>1. /\ \A c \in ToSet(said) : Cardinality(in(c.review)) = 1
        /\ \A t \in ToSet(threads) : \E n \in {c.review : c \in ToSet(said)} : ThreadOf(said, t, n)
    BY <1>1, ThreadsAre, Zenon
  <2>2. a.threads = threads
    BY <1>2
  <2> HIDE DEF threads
  <2> QED BY <2>1, <2>2, Zenon
<1> QED BY <1>3, <1>4, <1>5, <1>6, Zenon DEF ListsAnswer, ThreadOf, said, a

TaskLine == [child : Nat, mark : {" ", "x", "X"}]
LEMMA LineIs ==
    ASSUME NEW b \in TaskLine
    PROVE  b = [child |-> b.child, mark |-> b.mark]
BY DEF TaskLine

(* The places of a task list at which the child stands.                        *)
Places(body, child) == {i \in DOMAIN body : Host!Entry(body[i], child)}

LEMMA EntriesAre ==
    ASSUME NEW body \in Seq(TaskLine), NEW child
    PROVE  /\ Entries(body, child) = Cardinality(Places(body, child))
           /\ IsFiniteSet(Places(body, child)) /\ Entries(body, child) \in Nat
           /\ Entries(body, child) > 0 <=> Places(body, child) # {}
<1> DEFINE E == {i \in DOMAIN body : body[i] = [child |-> child, mark |-> " "]
                                     \/ body[i] = [child |-> child, mark |-> "x"]}
<1>1. E = Places(body, child)
  <2>1. ASSUME NEW i \in DOMAIN body
        PROVE  (body[i] = [child |-> child, mark |-> " "] \/ body[i] = [child |-> child, mark |-> "x"])
               <=> Host!Entry(body[i], child)
    <3>1. body[i] \in TaskLine
      BY ElementOfSeq, LenProperties
    <3>2. body[i] = [child |-> body[i].child, mark |-> body[i].mark]
      BY <3>1, LineIs
    <3> DEFINE b == body[i]
               c == b.child
               m == b.mark
    <3>3. b = [child |-> c, mark |-> m]
      BY <3>2
    <3> HIDE DEF b, c, m
    <3>4. ASSUME NEW k PROVE b = [child |-> child, mark |-> k] <=> c = child /\ m = k
      BY <3>3
    <3>5. Host!Entry(b, child) <=> c = child /\ (m = " " \/ m = "x")
      BY DEF Host!Entry, c, m
    <3> QED BY <3>4, <3>5 DEF b
  <2> QED BY <2>1 DEF Places
<1>2. DOMAIN body = 1..Len(body) /\ Len(body) \in Nat
  BY LenProperties
<1>3. IsFiniteSet(1..Len(body))
  BY <1>2, FS_Interval
<1>4. Places(body, child) \subseteq 1..Len(body)
  BY <1>2 DEF Places
<1> HIDE DEF E
<1>5. IsFiniteSet(Places(body, child))
  BY <1>3, <1>4, FS_Subset
<1>6. Cardinality(Places(body, child)) \in Nat /\ (Cardinality(Places(body, child)) = 0 <=> Places(body, child) = {})
  BY <1>5, FS_CardinalityType, FS_EmptySet
<1>7. Entries(body, child) = Cardinality(E)
  BY DEF Entries, E
<1> QED BY <1>1, <1>5, <1>6, <1>7

(* The list keeps its tasks, and an entry is added only when there is none.    *)
LEMMA TaskListed ==
    ASSUME NEW body \in Seq(TaskLine), NEW child \in Nat, NEW fates,
           {fates.read, fates.update} \subseteq Host!Fate
    PROVE  LET new == Host!AddSubIssueTaskList(body, child, fates)
           IN  /\ new \in Seq(TaskLine)
               /\ new = body \/ (Entries(body, child) = 0 /\ Entries(new, child) = 1)
               /\ fates.read = "ok" /\ fates.update = "ok" => Entries(new, child) > 0
<1> DEFINE T == TaskLine
           x == [child |-> child, mark |-> " "]
           n == Len(body)
           longer == Append(body, x)
           new == Host!AddSubIssueTaskList(body, child, fates)
           there == \E i \in DOMAIN body : Host!Entry(body[i], child)
<1>1. x \in T /\ Host!Entry(x, child)
  <2> DEFINE sp == " "
  <2>1. sp \in {" ", "x", "X"}
    OBVIOUS
  <2>2. Host!Entry([child |-> child, mark |-> sp], child)
    BY DEF Host!Entry
  <2> HIDE DEF sp
  <2>3. [child |-> child, mark |-> sp] \in T
    BY <2>1 DEF TaskLine, sp
  <2> QED BY <2>2, <2>3 DEF sp
<1> HIDE DEF x, T
<1>2. /\ n \in Nat /\ DOMAIN body = 1..n
      /\ longer \in Seq(T) /\ Len(longer) = n + 1 /\ longer[n + 1] = x
      /\ \A i \in 1..n : longer[i] = body[i]
      /\ DOMAIN longer = 1..(n + 1)
  <2>1. body \in Seq(T)
    BY DEF T
  <2>2. longer \in Seq(T) /\ Len(longer) = n + 1 /\ longer[n + 1] = x /\ \A i \in 1..n : longer[i] = body[i]
    BY <1>1, <2>1, AppendProperties
  <2> QED BY <2>1, <2>2, LenProperties
<1>3. there <=> Entries(body, child) > 0
  BY EntriesAre DEF Places
<1>4. ASSUME ~there PROVE Entries(body, child) = 0 /\ Entries(longer, child) = 1
  <2>1. Places(longer, child) = {n + 1}
    <3> HIDE DEF longer, n
    <3>1. ASSUME NEW i \in 1..(n + 1) PROVE Host!Entry(longer[i], child) <=> i = n + 1
      <4>1. CASE i \in 1..n
        <5>1. longer[i] = body[i] /\ ~Host!Entry(body[i], child) /\ i # n + 1
          BY <1>2, <1>4, <4>1
        <5> QED BY <5>1
      <4>2. CASE i = n + 1
        BY <1>1, <1>2, <4>2
      <4> QED BY <1>2, <4>1, <4>2
    <3>2. n + 1 \in 1..(n + 1)
      BY <1>2
    <3> QED BY <1>2, <3>1, <3>2 DEF Places
  <2>2. Entries(longer, child) = Cardinality(Places(longer, child))
    BY <1>2, EntriesAre DEF T
  <2>3. Entries(body, child) \in Nat
    BY EntriesAre
  <2>4. Entries(longer, child) = 1
    BY <2>1, <2>2, FS_Singleton
  <2> QED BY <1>3, <1>4, <2>3, <2>4
<1>5. new = IF fates.read # "ok" \/ there THEN body ELSE IF Host!Done(fates.update) THEN longer ELSE body
  BY Zenon DEF Host!AddSubIssueTaskList, x
<1> HIDE DEF new, longer, there
<1>6. new \in Seq(T) /\ (new = body \/ (Entries(body, child) = 0 /\ Entries(new, child) = 1))
  <2>1. body \in Seq(T)
    BY DEF T
  <2>2. CASE ~(fates.read # "ok" \/ there) /\ Host!Done(fates.update)
    <3>1. new = longer
      BY <1>5, <2>2
    <3> QED BY <1>2, <1>4, <2>2, <3>1
  <2>3. CASE fates.read # "ok" \/ there \/ ~Host!Done(fates.update)
    <3>1. new = body
      BY <1>5, <2>3
    <3> QED BY <2>1, <3>1, Zenon
  <2> QED BY <2>2, <2>3
<1>7. fates.read = "ok" /\ fates.update = "ok" => Entries(new, child) > 0
  <2> SUFFICES ASSUME fates.read = "ok", fates.update = "ok" PROVE Entries(new, child) > 0
    OBVIOUS
  <2>1. Host!Done(fates.update)
    BY DEF Host!Done
  <2>2. CASE there
    BY <1>3, <1>5, <2>2
  <2>3. CASE ~there
    <3>1. new = longer
      BY <1>5, <2>1, <2>3
    <3> QED BY <1>4, <2>3, <3>1
  <2> QED BY <2>2, <2>3
<1> QED BY <1>6, <1>7 DEF new, T

ChildIs(p, child, fates) ==
    LET r == Host!AddSubIssue(p, child, fates)
    IN  /\ r.body \in Seq(TaskLine) /\ Entries(r.body, child) \in Nat
        /\ r.body = p.body \/ (Entries(p.body, child) = 0 /\ Entries(r.body, child) = 1)
        /\ fates.child = "ok" /\ fates.post = "ok" => child \in r.subs
        /\ fates.read = "ok" /\ fates.update = "ok" => child \in r.subs \/ Entries(r.body, child) > 0

LEMMA ChildOnce ==
    ASSUME NEW p, NEW body \in Seq(TaskLine), p.body = body, NEW child \in Nat, NEW fates,
           {fates.read, fates.update} \subseteq Host!Fate
    PROVE  ChildIs(p, child, fates)
<1> DEFINE posted == fates.child = "ok" /\ fates.post = "ok"
           native == fates.child = "ok" /\ Host!Done(fates.post)
           listed == Host!AddSubIssueTaskList(body, child, fates)
           r == Host!AddSubIssue(p, child, fates)
<1>1. r.body = (IF posted THEN body ELSE listed) /\ r.subs = p.subs \cup (IF native THEN {child} ELSE {})
  BY DEF Host!AddSubIssue
<1>2. /\ listed \in Seq(TaskLine)
      /\ listed = body \/ (Entries(body, child) = 0 /\ Entries(listed, child) = 1)
      /\ fates.read = "ok" /\ fates.update = "ok" => Entries(listed, child) > 0
  BY TaskListed
<1>3. posted => native
  BY DEF Host!Done
<1> HIDE DEF r, listed
<1>4. r.body \in Seq(TaskLine) /\ (r.body = body \/ (Entries(body, child) = 0 /\ Entries(r.body, child) = 1))
  <2>1. CASE posted
    <3>1. r.body = body
      BY <1>1, <2>1
    <3> QED BY <3>1
  <2>2. CASE ~posted
    <3>1. r.body = listed
      BY <1>1, <2>2
    <3> QED BY <1>2, <3>1
  <2> QED BY <2>1, <2>2
<1>5. posted => child \in r.subs
  BY <1>1, <1>3
<1>6. fates.read = "ok" /\ fates.update = "ok" => child \in r.subs \/ Entries(r.body, child) > 0
  BY <1>1, <1>2, <1>5
<1>7. Entries(r.body, child) \in Nat
  BY <1>4, EntriesAre
<1> QED BY <1>4, <1>5, <1>6, <1>7 DEF r, ChildIs

(* A child that is added twice stands once on the list, if it did not before.  *)
TasksAnswer(q, a) ==
    LET before == Entries(q.body, q.child) IN
    /\ \A r \in {a.one, a.two} : Entries(r.body, q.child) <= (IF before > 1 THEN before ELSE 1)
    /\ q.fates.child = "ok" /\ q.fates.post = "ok" => q.child \in a.one.subs
    /\ q.fates.read = "ok" /\ q.fates.update = "ok" =>
            q.child \in a.one.subs \/ Entries(a.one.body, q.child) > 0

LEMMA ChildAdded ==
    ASSUME NEW q, q.body \in Seq(TaskLine), q.child \in Nat,
           {q.fates.child, q.fates.post, q.fates.read, q.fates.update} \subseteq Host!Fate
    PROVE  TasksAnswer(q, OnTasks(q))
<1> DEFINE T == TaskLine
           fates == q.fates
           child == q.child
           posted == fates.child = "ok" /\ fates.post = "ok"
           native == fates.child = "ok" /\ Host!Done(fates.post)
           zero == [subs |-> {}, body |-> q.body]
           one == Host!AddSubIssue(zero, child, fates)
           two == Host!AddSubIssue(one, child, fates)
           N(body) == Entries(body, child)
<1>1. ASSUME NEW p, p.body \in Seq(T)
      PROVE  ChildIs(p, child, fates)
  <2> DEFINE b == p.body
             c == child
             f == fates
  <2>1. /\ p.body = b /\ b \in Seq(TaskLine) /\ c \in Nat
        /\ {f.read, f.update} \subseteq Host!Fate
    BY <1>1
  <2>2. ChildIs(p, c, f)
    <3> HIDE DEF b, c, f
    <3> QED BY <2>1, ChildOnce
  <2> QED BY <2>2
<1>2. zero.body = q.body /\ q.body \in Seq(T) /\ N(q.body) \in Nat
  BY EntriesAre
<1>3. OnTasks(q).one = one /\ OnTasks(q).two = two
  BY DEF OnTasks
<1> HIDE DEF zero, T
<1>4. /\ one.body \in Seq(T) /\ N(one.body) \in Nat
      /\ one.body = zero.body \/ (N(zero.body) = 0 /\ N(one.body) = 1)
      /\ posted => child \in one.subs
      /\ fates.read = "ok" /\ fates.update = "ok" => child \in one.subs \/ N(one.body) > 0
  <2>1. zero.body \in Seq(T)
    BY <1>2
  <2>2. ChildIs(zero, child, fates)
    BY <1>1, <2>1
  <2> QED BY <2>2, Zenon DEF ChildIs, T
<1> HIDE DEF one
<1>5. N(two.body) \in Nat /\ (two.body = one.body \/ (N(one.body) = 0 /\ N(two.body) = 1))
  <2>1. one.body \in Seq(T)
    BY <1>4
  <2>2. ChildIs(one, child, fates)
    BY <1>1, <2>1
  <2> QED BY <2>2, Zenon DEF ChildIs
<1> DEFINE before == N(q.body)
           most == IF before > 1 THEN before ELSE 1
<1> HIDE DEF two
<1>6. N(one.body) <= most /\ N(two.body) <= most
  <2> DEFINE x == N(one.body)
             y == N(two.body)
  <2>1. x \in Nat /\ y \in Nat /\ before \in Nat /\ (x = before \/ x = 1) /\ (y = x \/ y = 1)
    BY <1>2, <1>4, <1>5
  <2> HIDE DEF x, y, before
  <2>2. x <= most /\ y <= most
    BY <2>1
  <2> QED BY <2>2 DEF x, y
<1> HIDE DEF before
<1> QED BY <1>3, <1>4, <1>6, Zenon DEF TasksAnswer, before

(* Every path once, a draft is a draft, and an account is the one of the name. *)
MergeAnswer(q, a) ==
    /\ IsInjective(a.files) /\ \A c \in ToSet(q.changes) : {c.old, c.new} \cap ToSet(a.files) # {}
    /\ a.draft.draft = q.draft /\ (a.pr.state = "merged") = q.merged
    /\ (\E u \in ToSet(q.found) : u.name = "bot") => \E u \in ToSet(q.found) : u.name = "bot" /\ u.id = a.user

LEMMA PathsOnce ==
    ASSUME NEW V, NEW changes \in Seq(V)
    PROVE  LET files == Host!GlGetMRChanges(changes)
           IN  IsInjective(files) /\ \A c \in ToSet(changes) : {c.old, c.new} \cap ToSet(files) # {}
<1> DEFINE P(c) == IF c.new = "" THEN c.old ELSE c.new
           path == [i \in DOMAIN changes |-> P(changes[i])]
           new == Firsts(path)
           files == Host!GlGetMRChanges(changes)
<1>1. DOMAIN changes = 1..Len(changes) /\ Len(changes) \in Nat
  BY LenProperties
<1>2. \A c : P(c) \in {c.old, c.new}
  OBVIOUS
<1>3. files = [k \in DOMAIN Host!Firsts(path) |-> path[Host!Firsts(path)[k]]]
  BY Zenon DEF Host!GlGetMRChanges
<1> HIDE DEF P
<1>4. path \in Seq({P(changes[i]) : i \in DOMAIN changes})
  <2> DEFINE W == {P(changes[i]) : i \in DOMAIN changes}
             E(i) == P(changes[i])
  <2>1. path = [i \in 1..Len(changes) |-> E(i)] /\ \A i \in 1..Len(changes) : E(i) \in W
    BY <1>1
  <2> HIDE DEF W, E
  <2>2. path \in Seq(W)
    BY <1>1, <2>1, IsASeq
  <2> QED BY <2>2 DEF W
<1>5. DOMAIN path = DOMAIN changes /\ \A i \in DOMAIN changes : path[i] = P(changes[i])
  OBVIOUS
<1> HIDE DEF path
<1>6. /\ Host!Firsts(path) = new
      /\ new \in Seq(DOMAIN path)
      /\ \A k, l \in DOMAIN new : path[new[k]] = path[new[l]] => k = l
      /\ \A i \in DOMAIN path : \E k \in DOMAIN new : path[new[k]] = path[i]
  BY <1>4, FirstsAre
<1> HIDE DEF new, files
<1>7. DOMAIN files = DOMAIN new /\ \A k \in DOMAIN new : files[k] = path[new[k]]
  BY <1>3, <1>6
<1>8. IsInjective(files)
  BY <1>6, <1>7 DEF IsInjective
<1>9. ASSUME NEW c \in ToSet(changes) PROVE {c.old, c.new} \cap ToSet(files) # {}
  <2>1. PICK i \in DOMAIN changes : changes[i] = c
    BY DEF ToSet
  <2>2. PICK k \in DOMAIN new : path[new[k]] = path[i]
    BY <1>5, <1>6
  <2>3. files[k] = P(c) /\ files[k] \in ToSet(files)
    BY <1>5, <1>7, <2>1, <2>2 DEF ToSet
  <2> QED BY <1>2, <2>3
<1> QED BY <1>8, <1>9 DEF files

LEMMA UserFound ==
    ASSUME NEW V, NEW found \in Seq(V), NEW name, \E u \in ToSet(found) : u.name = name
    PROVE  \E u \in ToSet(found) : u.name = name /\ u.id = Host!LookupUser(found, name)
<1> DEFINE keep == {u \in ToSet(found) : u.name = name}
           same == Among(found, keep)
<1>1. Host!LookupUser(found, name) = IF Host!Among(found, keep) # <<>> THEN Head(Host!Among(found, keep)).id
                                     ELSE IF found # <<>> THEN Head(found).id ELSE 0
  BY SameToSetHost, Zenon DEF Host!LookupUser
<1>2. keep \subseteq ToSet(found) /\ keep # {}
  OBVIOUS
<1> HIDE DEF keep
<1>3. Host!Among(found, keep) = same
  BY AmongPicks
<1>4. same \in Seq(V) /\ ToSet(same) = ToSet(found) \cap keep /\ (same = <<>> <=> ToSet(found) \cap keep = {})
  BY AmongSet
<1> HIDE DEF same
<1>5. same # <<>>
  BY <1>2, <1>4
<1>6. Head(same) \in ToSet(same)
  <2>1. Len(same) \in Nat /\ Len(same) # 0 /\ DOMAIN same = 1..Len(same)
    BY <1>4, <1>5, EmptySeq, LenProperties
  <2>2. 1 \in DOMAIN same /\ Head(same) = same[1]
    BY <1>4, <1>5, <2>1
  <2> QED BY <2>2 DEF ToSet
<1>7. Head(same) \in keep
  BY <1>4, <1>6
<1>8. Host!LookupUser(found, name) = Head(same).id
  BY <1>1, <1>3, <1>5
<1> QED BY <1>7, <1>8 DEF keep

LEMMA MergeTold ==
    ASSUME NEW q, NEW V, NEW W, q.changes \in Seq(V), q.found \in Seq(W), q.draft \in BOOLEAN, q.merged \in BOOLEAN
    PROVE  MergeAnswer(q, OnMerge(q))
<1> DEFINE a == OnMerge(q)
<1>1. /\ a.files = Host!GlGetMRChanges(q.changes) /\ a.user = Host!LookupUser(q.found, "bot")
      /\ a.draft = Host!MrToPR([state |-> "opened", wip |-> FALSE, draft |-> Host!GlOpenPR(q.draft).draft])
      /\ a.pr = Host!GhPRToPR([state |-> "closed", merged |-> q.merged, draft |-> q.draft])
  BY DEF OnMerge
<1>2. a.draft.draft = q.draft
  <2>1. Host!GlOpenPR(q.draft).draft = q.draft
    BY DEF Host!GlOpenPR
  <2> QED BY <1>1, <2>1 DEF Host!MrToPR
<1>3. (a.pr.state = "merged") = q.merged
  BY <1>1 DEF Host!GhPRToPR
<1> HIDE DEF a
<1> DEFINE changes == q.changes
           found == q.found
<1>4. changes \in Seq(V) /\ found \in Seq(W)
  OBVIOUS
<1> HIDE DEF changes, found
<1>5. IsInjective(Host!GlGetMRChanges(changes)) /\ \A c \in ToSet(changes) : {c.old, c.new} \cap ToSet(Host!GlGetMRChanges(changes)) # {}
  BY <1>4, PathsOnce
<1>6. ASSUME NEW name, \E u \in ToSet(found) : u.name = name
      PROVE  \E u \in ToSet(found) : u.name = name /\ u.id = Host!LookupUser(found, name)
  BY <1>4, <1>6, UserFound
<1> QED BY <1>1, <1>2, <1>3, <1>5, <1>6 DEF MergeAnswer, a, changes, found

(* Whatever the forges answer and whichever requests fail (github.go,          *)
(* gitlab.go): a check that failed or runs is never success, an approval stands*)
(* until its author takes it back, a comment that was accepted is there, a list*)
(* is whole or an error, a thread is one review's, a child is listed once.     *)
THEOREM ForgesAreTold == DecisionSpec => []ForgeSound
<1>1. Answer => ForgeSound
  <2> SUFFICES ASSUME Answer PROVE ForgeSound
    OBVIOUS
  <2> DEFINE q == decision.in
             a == decision.out
  <2>1. CASE decision.rule = "ci"
    <3>1. /\ {q.checks, q.flows} \subseteq Seq(Host!CheckRun)
          /\ q.fates \in [graphql : Host!Fate, checks : Host!Fate, flows : Host!Fate, pr : Host!Fate]
          /\ a = OnCI(q)
      BY <2>1, CasesAssumption DEF Answer, ForgeAnswers, Gave, CasesTypes, ForgeCases
    <3> HIDE DEF q, a
    <3>2. CIAnswer(q, a)
      BY <3>1, ChecksTold
    <3> QED BY <2>1, <3>2, Zenon DEF ForgeSound, Of, CIAnswer, q, a
  <2>2. CASE decision.rule = "approval"
    <3>1. /\ q.reviews \in Seq([user : User, state : Host!ReviewState]) /\ q.required \in Nat
          /\ a = OnApproval(q)
      BY <2>2, CasesAssumption DEF Answer, ForgeAnswers, Gave, CasesTypes, ForgeCases
    <3> HIDE DEF q, a
    <3>2. ApprovalAnswer(q, a)
      BY <3>1, Approved
    <3> QED BY <2>2, <3>2, Zenon DEF ForgeSound, Of, ApprovalAnswer, q, a
  <2>3. CASE decision.rule = "comment"
    <3>1. /\ q.at \in [path : FilePath, line : Nat \ {0}, side : Host!Side] /\ q.now \in Nat
          /\ {q.fates.pr, q.fates.post, q.fates.note} \subseteq Host!Fate
          /\ a = OnComment(q)
      BY <2>3, CasesAssumption DEF Answer, ForgeAnswers, Gave, CasesTypes, ForgeCases
    <3> HIDE DEF q, a
    <3>2. CommentAnswer(q, a)
      BY <3>1, Commented
    <3> QED BY <2>3, <3>2, Zenon DEF ForgeSound, Of, CommentAnswer, q, a
  <2>4. CASE decision.rule = "lists"
    <3>1. /\ q.pages \in Seq(Seq([system : BOOLEAN, review : Nat])) /\ q.pages # <<>>
          /\ a = OnLists(q)
      BY <2>4, CasesAssumption DEF Answer, ForgeAnswers, Gave, CasesTypes, ForgeCases
    <3> HIDE DEF q, a
    <3>2. ListsAnswer(q, a)
      BY <3>1, Listed
    <3> QED BY <2>4, <3>2, Zenon DEF ForgeSound, Of, ListsAnswer, q, a
  <2>5. CASE decision.rule = "get"
    <3>1. q.refusal.now \in Int /\ a = OnGet(q)
      BY <2>5, CasesAssumption DEF Answer, ForgeAnswers, Gave, CasesTypes, ForgeCases
    <3> HIDE DEF q, a
    <3>2. GetAnswer(q, a)
      BY <3>1, Got
    <3> QED BY <2>5, <3>2, Zenon DEF ForgeSound, Of, GetAnswer, q, a
  <2>6. CASE decision.rule = "tasks"
    <3>1. /\ q.body \in Seq(TaskLine) /\ q.child \in Nat
          /\ {q.fates.child, q.fates.post, q.fates.read, q.fates.update} \subseteq Host!Fate
          /\ a = OnTasks(q)
      BY <2>6, CasesAssumption DEF Answer, ForgeAnswers, Gave, CasesTypes, ForgeCases, TaskLine
    <3> HIDE DEF q, a
    <3>2. TasksAnswer(q, a)
      BY <3>1, ChildAdded
    <3> QED BY <2>6, <3>2, Zenon DEF ForgeSound, Of, TasksAnswer, q, a
  <2>7. CASE decision.rule = "issues"
    <3>1. (\A i \in q.issues : i.state \in {"open", "closed"} /\ i.pull \in BOOLEAN) /\ a = OnIssues(q)
      BY <2>7, CasesAssumption DEF Answer, ForgeAnswers, Gave, CasesTypes, ForgeCases
    <3> HIDE DEF q, a
    <3>2. IssuesAnswer(q, a)
      BY <3>1, IssuesListed
    <3> QED BY <2>7, <3>2, Zenon DEF ForgeSound, Of, IssuesAnswer, q, a
  <2>8. CASE decision.rule = "closing"
    <3>1. q.refs \in Seq([word : STRING, issue : Nat]) /\ a = OnClosing(q)
      BY <2>8, CasesAssumption DEF Answer, ForgeAnswers, Gave, CasesTypes, ForgeCases
    <3> HIDE DEF q, a
    <3>2. {r.issue : r \in ToSet(a.gh)} \subseteq a.gl
      BY <3>1, Closed
    <3> QED BY <2>8, <3>2, Zenon DEF ForgeSound, Of, q, a
  <2>9. CASE decision.rule = "merge"
    <3>1. /\ q.changes \in Seq([new : STRING, old : STRING]) /\ q.found \in Seq([name : STRING, id : Nat])
          /\ q.draft \in BOOLEAN /\ q.merged \in BOOLEAN
          /\ a = OnMerge(q)
      BY <2>9, CasesAssumption DEF Answer, ForgeAnswers, Gave, CasesTypes, ForgeCases
    <3> HIDE DEF q, a
    <3>2. MergeAnswer(q, a)
      BY <3>1, MergeTold
    <3> QED BY <2>9, <3>2, Zenon DEF ForgeSound, Of, MergeAnswer, q, a
  <2>10. CASE decision.rule = "adapter"
    <3>1. a = OnAdapter(q)
      BY <2>10, CasesAssumption DEF Answer, ForgeAnswers, Gave
    <3> HIDE DEF q, a
    <3>2. /\ q.env # "" /\ ~a.err => a.token = q.env
          /\ a.err <=> q.provider # "github"
      BY <3>1, Adapted
    <3> QED BY <2>10, <3>2, Zenon DEF ForgeSound, Of, q, a
  <2>11. CASE decision.rule \notin {"ci", "approval", "comment", "lists", "get", "tasks", "issues", "closing", "merge", "adapter"}
    BY <2>11 DEF ForgeSound, Of
  <2> QED BY <2>1, <2>2, <2>3, <2>4, <2>5, <2>6, <2>7, <2>8, <2>9, <2>10, <2>11
<1> QED BY <1>1, AnswerInv, PTL
=============================================================================
