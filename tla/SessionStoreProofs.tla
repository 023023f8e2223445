------------------------- MODULE SessionStoreProofs -------------------------
(***************************************************************************)
(* Proofs about SessionStore for any set of managers and any bounds.       *)
(***************************************************************************)
EXTENDS SessionStore, SequenceTheorems, TLAPS

(***************************************************************************)
(* Operators on sessions.                                                  *)
(***************************************************************************)
LEMMA EmptyTyped == Empty \in Sessions
BY DEF Empty, Sessions

\* A session with the exchange of m's turn added: what it keeps and what it adds.
LEMMA ExchangeAdded ==
    ASSUME NEW m \in Managers, TypeOK, turn[m] \in Turns
    PROVE  LET old == session[m]
               new == WithExchange(m)
           IN  /\ new \in Sessions
               /\ new.mark = old.mark
               /\ Len(new.messages) = Len(old.messages) + 2
               /\ \A i \in 1..Len(old.messages) : new.messages[i] = old.messages[i]
               /\ \A t : Has(old, t) => Has(new, t)
               /\ Has(new, turn[m])
<1> DEFINE old == session[m]
           user == [role |-> "user", turn |-> turn[m]]
           assistant == [role |-> "assistant", turn |-> turn[m]]
           new == WithExchange(m)
<1>1. old \in Sessions /\ old.messages \in Seq(Messages) /\ old.mark \in Nat
  BY DEF TypeOK, Sessions
<1>2. user \in Messages /\ assistant \in Messages
  BY DEF Messages
<1>3. /\ new.messages = old.messages \o <<user, assistant>>
      /\ new.mark = old.mark
      /\ new = [messages |-> new.messages, mark |-> new.mark]
  <2>1. new = [old EXCEPT !.messages = old.messages \o <<user, assistant>>]
    BY Zenon DEF WithExchange
  <2> HIDE DEF user, assistant, new, old
  <2> QED
    BY <1>1, <2>1 DEF Sessions
<1>4. <<user, assistant>> \in Seq(Messages) /\ Len(<<user, assistant>>) = 2
  BY <1>2
<1>5. Len(old.messages) \in Nat
  BY <1>1, LenProperties
<1> HIDE DEF user, assistant, new, old
<1>6. /\ new.messages \in Seq(Messages)
      /\ Len(new.messages) = Len(old.messages) + 2
      /\ \A i \in 1..(Len(old.messages) + 2) : new.messages[i] =
            IF i <= Len(old.messages) THEN old.messages[i]
            ELSE <<user, assistant>>[i - Len(old.messages)]
  BY <1>1, <1>3, <1>4, ConcatProperties
<1>7. new \in Sessions
  BY <1>1, <1>3, <1>6 DEF Sessions
<1>8. \A i \in 1..Len(old.messages) : new.messages[i] = old.messages[i]
  BY <1>5, <1>6
<1>9. /\ new.messages[Len(old.messages) + 1] = user
      /\ new.messages[Len(old.messages) + 2] = assistant
  BY SMTT(30), <1>5, <1>6
<1>10. DOMAIN old.messages = 1..Len(old.messages) /\ DOMAIN new.messages = 1..Len(new.messages)
  BY <1>1, <1>6, LenProperties
<1>11. \A t : Has(old, t) => Has(new, t)
  <2> TAKE t
  <2> SUFFICES ASSUME Has(old, t), NEW role \in {"user", "assistant"}
               PROVE  \E i \in DOMAIN new.messages : new.messages[i] = [role |-> role, turn |-> t]
    BY DEF Has
  <2>1. PICK i \in DOMAIN old.messages : old.messages[i] = [role |-> role, turn |-> t]
    BY DEF Has
  <2> QED
    BY <2>1, <1>5, <1>6, <1>8, <1>10
<1>12. Has(new, turn[m])
  BY SMTT(30), <1>5, <1>6, <1>9, <1>10 DEF Has, user, assistant
<1> QED
  BY <1>3, <1>6, <1>7, <1>8, <1>11, <1>12 DEF old, new

\* What a cut save leaves is a session: nothing, or a first part of the messages.
LEMMA CutIsPrefix ==
    ASSUME NEW s \in Sessions, NEW d \in Cut(s)
    PROVE  /\ d \in Sessions
           /\ d = Empty \/ /\ d.mark = s.mark
                           /\ Len(d.messages) <= Len(s.messages)
                           /\ \A i \in 1..Len(d.messages) : d.messages[i] = s.messages[i]
<1>1. CASE d = Empty
  BY <1>1, EmptyTyped
<1>2. CASE d # Empty
  <2>1. s.messages \in Seq(Messages) /\ s.mark \in Nat /\ Len(s.messages) \in Nat
    BY LenProperties DEF Sessions
  <2>2. PICK n \in 0..Len(s.messages) : d = [s EXCEPT !.messages = SubSeq(@, 1, n)]
    BY <1>2 DEF Cut
  <2>3. d.messages = SubSeq(s.messages, 1, n) /\ d.mark = s.mark
        /\ d = [messages |-> d.messages, mark |-> d.mark]
    BY <2>2 DEF Sessions
  <2>4. \A i \in 1..n : s.messages[i] \in Messages
    BY <2>1, ElementOfSeq
  <2>5. /\ SubSeq(s.messages, 1, n) \in Seq(Messages)
        /\ Len(SubSeq(s.messages, 1, n)) = n
        /\ \A i \in 1..n : SubSeq(s.messages, 1, n)[i] = s.messages[i]
    BY <2>1, <2>4, SubSeqProperties
  <2>6. /\ d.messages \in Seq(Messages)
        /\ Len(d.messages) = n
        /\ \A i \in 1..n : d.messages[i] = s.messages[i]
    BY <2>3, <2>5
  <2>7. d \in Sessions
    BY <2>1, <2>3, <2>6 DEF Sessions
  <2> QED
    BY <2>1, <2>3, <2>6, <2>7
<1> QED
  BY <1>1, <1>2

(***************************************************************************)
(* Types, and what holds of the work in progress: a manager that waits for *)
(* an LLM has the session open, and a segment being summarised starts at   *)
(* the mark and lies within the session.                                   *)
(***************************************************************************)
InProgress ==
    \A m \in Managers :
        /\ turn[m] # 0 => m \in open
        /\ segment[m] # NoSegment =>
              /\ m \in open
              /\ segment[m].from = session[m].mark
              /\ segment[m].from < segment[m].to
              /\ segment[m].to <= Len(session[m].messages)

TypeInv == TypeOK /\ InProgress

LEMMA TypeInit == Init => TypeInv
<1> SUFFICES ASSUME Init PROVE TypeInv
  OBVIOUS
<1>1. TypeOK
  <2>1. session \in [Managers -> Sessions] /\ disk \in Sessions
    BY EmptyTyped DEF Init
  <2>2. segment \in [Managers -> [from : Nat, to : Nat]]
    BY DEF Init, NoSegment
  <2>3. turn \in [Managers -> {0} \union Turns] /\ started \in 0..MaxTurns
    BY ConstantsAssumption DEF Init
  <2> QED
    BY <2>1, <2>2, <2>3 DEF Init, TypeOK
<1>2. InProgress
  BY DEF Init, InProgress
<1> QED
  BY <1>1, <1>2 DEF TypeInv

\* A dead process leaves nothing in progress.
LEMMA DieTyped ==
    ASSUME TypeInv, Die, disk' \in Sessions, torn' \in BOOLEAN,
           summarised' \subseteq Messages
    PROVE  TypeInv'
<1>1. exposed' \subseteq Turns
  BY DEF TypeInv, TypeOK, Die, TornOff
<1> QED
  BY <1>1, EmptyTyped DEF TypeInv, TypeOK, InProgress, Die, NoSegment

\* The mark that a compression sets, and the messages it has summarised.
LEMMA MarkSet ==
    ASSUME NEW m \in Managers, TypeInv, segment[m] # NoSegment
    PROVE  /\ WithMark(m) \in Sessions
           /\ WithMark(m).messages = session[m].messages
           /\ WithMark(m).mark = segment[m].to
           /\ Summary(m) \subseteq Messages
<1>1. /\ session[m] \in Sessions
      /\ segment[m].from \in Nat
      /\ segment[m].to \in Nat
      /\ segment[m].to <= Len(session[m].messages)
  BY DEF TypeInv, TypeOK, InProgress
<1>2. session[m].messages \in Seq(Messages)
  BY <1>1 DEF Sessions
<1>3. \A i \in 1..Len(session[m].messages) : session[m].messages[i] \in Messages
  BY <1>2, ElementOfSeq
<1>4. Summary(m) \subseteq Messages
  BY <1>1, <1>2, <1>3, LenProperties DEF Summary
<1> QED
  BY <1>1, <1>4 DEF WithMark, Sessions

LEMMA TypeStep == TypeInv /\ [Next]_vars => TypeInv'
<1> SUFFICES ASSUME TypeInv, [Next]_vars PROVE TypeInv'
  OBVIOUS
<1> USE DEF TypeInv
<1>1. ASSUME NEW m \in Managers, StartTurn(m) PROVE TypeInv'
  <2>1. started + 1 \in Turns /\ started + 1 \in 0..MaxTurns
    BY <1>1, ConstantsAssumption DEF StartTurn, TypeOK, Turns
  <2>2. Opened(m) \in Sessions
    BY DEF Opened, TypeOK
  <2>3. segment[m] # NoSegment => Opened(m) = session[m]
    BY DEF Opened, InProgress
  <2>6. exposed' \subseteq Turns
    BY <1>1 DEF StartTurn, TypeOK, TornOff
  <2>4. TypeOK'
    BY <1>1, <2>1, <2>2, <2>6 DEF StartTurn, TypeOK
  <2>5. InProgress'
    BY <1>1, <2>1, <2>3 DEF StartTurn, TypeOK, InProgress
  <2> QED
    BY <2>4, <2>5
<1>2. ASSUME NEW m \in Managers, FinishTurn(m) \/ FinishTurnUnsaved(m) PROVE TypeInv'
  <2>1. turn[m] \in Turns /\ m \in open
    BY <1>2 DEF FinishTurn, FinishTurnUnsaved, TypeOK, InProgress
  <2>2. /\ WithExchange(m) \in Sessions
        /\ WithExchange(m).mark = session[m].mark
        /\ Len(WithExchange(m).messages) = Len(session[m].messages) + 2
    BY <2>1, ExchangeAdded
  <2>3. disk' \in Sessions /\ torn' \in BOOLEAN
    BY <1>2, <2>2, CutIsPrefix DEF FinishTurn, FinishTurnUnsaved, Save, SaveCut
  <2>5. replied' \subseteq Turns /\ exposed' \subseteq Turns
    BY <1>2, <2>1 DEF FinishTurn, FinishTurnUnsaved, TypeOK, history
  <2>6. /\ session' = [session EXCEPT ![m] = WithExchange(m)]
        /\ turn' = [turn EXCEPT ![m] = 0]
        /\ UNCHANGED <<open, segment, summarised, started, damaged>>
    BY <1>2 DEF FinishTurn, FinishTurnUnsaved, history
  <2>7. TypeOK'
    BY <2>2, <2>3, <2>5, <2>6 DEF TypeOK
  <2>8. Len(session[m].messages) \in Nat
    BY LenProperties DEF TypeOK, Sessions
  <2>9. InProgress'
    BY <2>2, <2>6, <2>8 DEF TypeOK, InProgress
  <2> QED
    BY <2>7, <2>9
<1>3. ASSUME NEW m \in Managers, FailTurn(m) PROVE TypeInv'
  BY <1>3 DEF FailTurn, TypeOK, InProgress, history
<1>4. ASSUME NEW m \in Managers, StartCompress(m) PROVE TypeInv'
  <2>1. session[m].mark \in Nat /\ Len(session[m].messages) \in Nat
    BY LenProperties DEF TypeOK, Sessions
  <2> DEFINE seg == [from |-> session[m].mark, to |-> Len(session[m].messages) - Keep]
  <2>2. /\ segment' = [segment EXCEPT ![m] = seg]
        /\ m \in open
        /\ session[m].mark < Len(session[m].messages) - Keep
        /\ UNCHANGED <<open, session, turn, disk, torn, summarised, history>>
    BY <1>4 DEF StartCompress
  <2>3. /\ seg \in [from : Nat, to : Nat]
        /\ seg.from = session[m].mark
        /\ seg.from < seg.to
        /\ seg.to <= Len(session[m].messages)
    BY <2>1, <2>2, ConstantsAssumption
  <2> HIDE DEF seg
  <2> QED
    BY <2>2, <2>3 DEF TypeOK, InProgress, history
<1>5. ASSUME NEW m \in Managers, FinishCompress(m) PROVE TypeInv'
  <2>1. /\ WithMark(m) \in Sessions
        /\ WithMark(m).messages = session[m].messages
        /\ Summary(m) \subseteq Messages
    BY <1>5, MarkSet DEF FinishCompress
  <2>2. disk' \in Sessions /\ torn' \in BOOLEAN
    BY <1>5, <2>1, CutIsPrefix DEF FinishCompress, Save, SaveCut
  <2>3. /\ session' = [session EXCEPT ![m] = WithMark(m)]
        /\ segment' = [segment EXCEPT ![m] = NoSegment]
        /\ summarised' = summarised \union Summary(m)
        /\ UNCHANGED <<open, turn, history>>
    BY <1>5 DEF FinishCompress
  <2> QED
    BY <2>1, <2>2, <2>3 DEF TypeOK, InProgress, history, NoSegment
<1>6. ASSUME NEW m \in Managers, FailCompress(m) PROVE TypeInv'
  BY <1>6 DEF FailCompress, TypeOK, InProgress, history, NoSegment
<1>7. ASSUME NEW m \in Managers, Close(m) PROVE TypeInv'
  <2>1. exposed' \subseteq Turns
    BY <1>7 DEF Close, TypeOK, TornOff
  <2> QED
    BY <1>7, <2>1, EmptyTyped DEF Close, TypeOK, InProgress
<1>8. ASSUME NEW m \in Managers, CrashInTurn(m) PROVE TypeInv'
  <2>1. WithExchange(m) \in Sessions
    BY <1>8, ExchangeAdded DEF CrashInTurn, TypeOK
  <2> QED
    BY <1>8, <2>1, CutIsPrefix, DieTyped DEF CrashInTurn, SaveCut, TypeOK
<1>9. ASSUME NEW m \in Managers, CrashInCompress(m) PROVE TypeInv'
  <2>1. WithMark(m) \in Sessions /\ Summary(m) \subseteq Messages
    BY <1>9, MarkSet DEF CrashInCompress
  <2>2. disk' \in Sessions /\ torn' \in BOOLEAN
    BY <1>9, <2>1, CutIsPrefix DEF CrashInCompress, SaveCut, TypeOK
  <2> QED
    BY <1>9, <2>1, <2>2, DieTyped DEF CrashInCompress, TypeOK
<1>10. CASE Crash
  BY <1>10, DieTyped DEF Crash, TypeOK
<1>11. CASE UNCHANGED vars
  BY <1>11 DEF vars, TypeOK, InProgress
<1> QED
  BY <1>1, <1>2, <1>3, <1>4, <1>5, <1>6, <1>7, <1>8, <1>9, <1>10, <1>11 DEF Next

(***************************************************************************)
(* The type invariant, for any managers and bounds.                        *)
(***************************************************************************)
THEOREM TypeCorrect == Spec => []TypeOK
<1>1. TypeInv => TypeOK
  BY DEF TypeInv
<1> QED
  BY <1>1, TypeInit, TypeStep, PTL DEF Spec

(***************************************************************************)
(* Replies survive: the property is inductive.                             *)
(***************************************************************************)
LEMMA SurviveInit == Init => RepliesSurvive
BY DEF Init, RepliesSurvive

\* The file is as it was, or the last save was cut; nobody is left.
LEMMA SurviveDie ==
    ASSUME RepliesSurvive, Die, UNCHANGED <<disk, torn>> \/ torn' = TRUE
    PROVE  RepliesSurvive'
<1> SUFFICES ASSUME NEW t \in replied, t \notin exposed' PROVE Has(disk', t)
  BY DEF Die, RepliesSurvive, Has
<1>1. t \notin exposed /\ t \notin TornOff
  BY DEF Die
<1>2. CASE torn'
  BY <1>1, <1>2 DEF TornOff
<1>3. CASE ~torn'
  BY <1>1, <1>3 DEF RepliesSurvive
<1> QED
  BY <1>2, <1>3

LEMMA SurviveStep == TypeInv /\ RepliesSurvive /\ [Next]_vars => RepliesSurvive'
<1> SUFFICES ASSUME TypeInv, RepliesSurvive, [Next]_vars PROVE RepliesSurvive'
  OBVIOUS
<1>0. TypeOK /\ InProgress
  BY DEF TypeInv
<1>1. ASSUME NEW m \in Managers, StartTurn(m) PROVE RepliesSurvive'
  <2>1. SUFFICES ASSUME NEW t \in replied, t \notin exposed'
                 PROVE  /\ Has(disk', t) \/ (torn' /\ open' # {})
                        /\ \A n \in open' : Has(session'[n], t)
    BY <1>1 DEF StartTurn, RepliesSurvive, Has
  <2>2. t \notin exposed
    BY <1>1, <2>1 DEF StartTurn
  <2>3. /\ Has(disk, t) \/ (torn /\ open # {})
        /\ \A n \in open : Has(session[n], t)
    BY <2>2 DEF RepliesSurvive
  <2>4. m \notin open /\ torn => Has(disk, t)
    BY <1>1, <2>1 DEF StartTurn, TornOff
  <2>5. Has(Opened(m), t)
    BY <2>3, <2>4 DEF Opened
  <2>6. /\ open' = open \union {m} /\ UNCHANGED <<disk, torn>>
        /\ \A n \in open' : session'[n] = IF n = m THEN Opened(m) ELSE session[n]
    BY <1>0, <1>1 DEF StartTurn, TypeOK
  <2> QED
    BY <2>3, <2>5, <2>6
<1>2. ASSUME NEW m \in Managers, FinishTurn(m) \/ FinishTurnUnsaved(m) PROVE RepliesSurvive'
  <2>1. turn[m] \in Turns /\ m \in open
    BY <1>0, <1>2 DEF FinishTurn, FinishTurnUnsaved, TypeOK, InProgress
  <2>2. /\ open' = open
        /\ \A n \in open : session'[n] = IF n = m THEN WithExchange(m) ELSE session[n]
        /\ disk' = WithExchange(m) \/ torn'
    BY <1>0, <1>2 DEF FinishTurn, FinishTurnUnsaved, Save, SaveCut, TypeOK
  <2>3. SUFFICES ASSUME NEW t \in replied', t \notin exposed'
                 PROVE  /\ Has(WithExchange(m), t)
                        /\ \A n \in open : n # m => Has(session[n], t)
    BY <2>1, <2>2 DEF RepliesSurvive, Has
  <2>4. CASE t \in replied
    <3>1. t \notin exposed
      BY <1>2, <2>3 DEF FinishTurn, FinishTurnUnsaved, history
    <3>2. \A n \in open : Has(session[n], t)
      BY <2>4, <3>1 DEF RepliesSurvive
    <3> QED
      BY <1>0, <2>1, <3>2, ExchangeAdded
  <2>5. CASE t \notin replied
    <3>1. t = turn[m] /\ open = {m}
      BY <1>2, <2>3, <2>5 DEF FinishTurn, FinishTurnUnsaved, history
    <3> QED
      BY <1>0, <2>1, <3>1, ExchangeAdded
  <2> QED
    BY <2>4, <2>5
<1>3. ASSUME NEW m \in Managers, FailTurn(m) \/ StartCompress(m) \/ FailCompress(m)
      PROVE  RepliesSurvive'
  BY <1>3 DEF FailTurn, StartCompress, FailCompress, RepliesSurvive, Has, history
<1>4. ASSUME NEW m \in Managers, FinishCompress(m) PROVE RepliesSurvive'
  <2>1. m \in open /\ WithMark(m).messages = session[m].messages
    BY <1>0, <1>4, MarkSet DEF FinishCompress, InProgress
  <2>2. /\ UNCHANGED <<open, replied, exposed>>
        /\ \A n \in open : session'[n] = IF n = m THEN WithMark(m) ELSE session[n]
        /\ disk' = WithMark(m) \/ torn'
    BY <1>0, <1>4 DEF FinishCompress, Save, SaveCut, history, TypeOK
  <2>3. \A t : Has(session[m], t) => Has(WithMark(m), t)
    BY <2>1 DEF Has
  <2>4. SUFFICES ASSUME NEW t \in replied, t \notin exposed
                 PROVE  /\ Has(WithMark(m), t)
                        /\ \A n \in open : n # m => Has(session[n], t)
    BY <2>1, <2>2 DEF RepliesSurvive, Has
  <2> QED
    BY <2>1, <2>3, <2>4 DEF RepliesSurvive
<1>5. ASSUME NEW m \in Managers, Close(m) PROVE RepliesSurvive'
  <2>1. /\ m \in open /\ open' = open \ {m}
        /\ \A n \in open' : session'[n] = session[n]
        /\ UNCHANGED <<disk, torn, replied>>
        /\ exposed' = IF open = {m} THEN exposed \union TornOff ELSE exposed
    BY <1>0, <1>5 DEF Close, TypeOK
  <2>2. SUFFICES ASSUME NEW t \in replied, t \notin exposed'
                 PROVE  /\ Has(disk, t) \/ (torn /\ open \ {m} # {})
                        /\ \A n \in open \ {m} : Has(session[n], t)
    BY <2>1 DEF RepliesSurvive, Has
  <2>3. /\ Has(disk, t) \/ torn
        /\ \A n \in open : Has(session[n], t)
    BY <2>1, <2>2 DEF RepliesSurvive
  <2>4. CASE open = {m}
    BY <2>1, <2>2, <2>3, <2>4 DEF TornOff
  <2>5. CASE open # {m}
    BY <2>1, <2>3, <2>5
  <2> QED
    BY <2>4, <2>5
<1>6. ASSUME NEW m \in Managers, CrashInTurn(m) PROVE RepliesSurvive'
  BY <1>6, SurviveDie DEF CrashInTurn, SaveCut
<1>7. ASSUME NEW m \in Managers, CrashInCompress(m) PROVE RepliesSurvive'
  BY <1>7, SurviveDie DEF CrashInCompress, SaveCut
<1>8. CASE Crash
  BY <1>8, SurviveDie DEF Crash
<1>9. CASE UNCHANGED vars
  BY <1>9 DEF vars, RepliesSurvive, Has
<1> QED
  BY <1>1, <1>2, <1>3, <1>4, <1>5, <1>6, <1>7, <1>8, <1>9 DEF Next

(***************************************************************************)
(* A turn whose reply the user has seen is in the session file after every *)
(* step, or in every open copy of a session whose file is torn, for any    *)
(* managers and any overlap of them.  Excepted are the turns answered      *)
(* while another manager had an older copy open, and those which a cut     *)
(* save took out of the file while nobody had a copy: a crash in a save    *)
(* loses these and spoils nothing else (AgentLoop saves before it returns, *)
(* and a manager reads the file before it writes it).                      *)
(***************************************************************************)
THEOREM RepliesAreKept == Spec => []RepliesSurvive
BY TypeInit, TypeStep, SurviveInit, SurviveStep, PTL DEF Spec

(***************************************************************************)
(* What is marked is summarised.  A copy of the session is covered when    *)
(* every message below its mark is in HISTORY.md; to survive the next      *)
(* append, the mark must not lie beyond the messages, which only a torn    *)
(* file can bring about.                                                   *)
(***************************************************************************)
Covered(s, done) == \A i \in 1..s.mark : i <= Len(s.messages) => s.messages[i] \in done

Within(s) == s.mark <= Len(s.messages)

MarkInv ==
    ~damaged =>
        /\ Covered(disk, summarised)
        /\ ~torn => Within(disk)
        /\ \A m \in open : Covered(session[m], summarised) /\ Within(session[m])

LEMMA MarkInit == Init => MarkInv
BY DEF Init, MarkInv, Covered, Within, Empty

\* A cut save leaves a covered file.
LEMMA CutCovered ==
    ASSUME NEW s \in Sessions, NEW done, Covered(s, done), NEW d \in Cut(s)
    PROVE  Covered(d, done)
<1>1. CASE d = Empty
  BY <1>1 DEF Covered, Empty
<1>2. CASE d # Empty
  <2>1. /\ d.mark = s.mark
        /\ Len(d.messages) \in Nat /\ Len(s.messages) \in Nat /\ s.mark \in Nat
        /\ Len(d.messages) <= Len(s.messages)
        /\ \A i \in 1..Len(d.messages) : d.messages[i] = s.messages[i]
    BY <1>2, CutIsPrefix, LenProperties DEF Sessions
  <2> QED
    BY <2>1 DEF Covered
<1> QED
  BY <1>1, <1>2

\* A larger HISTORY.md covers what a smaller one covers.
LEMMA CoveredMore ==
    ASSUME NEW s, NEW done, NEW more, Covered(s, done), done \subseteq more
    PROVE  Covered(s, more)
BY DEF Covered

\* An exchange appended to a covered session leaves it covered.
LEMMA ExchangeCovered ==
    ASSUME NEW m \in Managers, TypeOK, turn[m] \in Turns,
           Covered(session[m], summarised), Within(session[m])
    PROVE  Covered(WithExchange(m), summarised) /\ Within(WithExchange(m))
<1>1. /\ WithExchange(m).mark = session[m].mark
      /\ Len(WithExchange(m).messages) = Len(session[m].messages) + 2
      /\ \A i \in 1..Len(session[m].messages) :
            WithExchange(m).messages[i] = session[m].messages[i]
  BY ExchangeAdded
<1>2. session[m].mark \in Nat /\ Len(session[m].messages) \in Nat
  BY LenProperties DEF TypeOK, Sessions
<1> QED
  BY SMTT(30), <1>1, <1>2 DEF Covered, Within

\* The new mark covers what was below the old one, and the segment.
LEMMA MarkCovered ==
    ASSUME NEW m \in Managers, TypeInv, segment[m] # NoSegment,
           Covered(session[m], summarised)
    PROVE  Covered(WithMark(m), summarised \union Summary(m)) /\ Within(WithMark(m))
<1>1. /\ WithMark(m).messages = session[m].messages
      /\ WithMark(m).mark = segment[m].to
  BY MarkSet
<1>2. /\ segment[m].from = session[m].mark
      /\ segment[m].from \in Nat /\ segment[m].to \in Nat
      /\ segment[m].from < segment[m].to
      /\ segment[m].to <= Len(session[m].messages)
      /\ Len(session[m].messages) \in Nat
  BY LenProperties DEF TypeInv, TypeOK, InProgress, Sessions
<1>3. ASSUME NEW i \in 1..segment[m].to
      PROVE  session[m].messages[i] \in summarised \union Summary(m)
  <2>1. CASE i <= segment[m].from
    BY <1>2, <2>1 DEF Covered
  <2>2. CASE i > segment[m].from
    BY <1>2, <2>2 DEF Summary
  <2> QED
    BY <1>2, <2>1, <2>2
<1>4. Covered(WithMark(m), summarised \union Summary(m))
  BY <1>1, <1>3 DEF Covered
<1>5. Within(WithMark(m))
  BY <1>1, <1>2 DEF Within
<1> QED
  BY <1>4, <1>5

LEMMA MarkStep == TypeInv /\ MarkInv /\ [Next]_vars => MarkInv'
<1> SUFFICES ASSUME TypeInv, MarkInv, [Next]_vars, ~damaged'
             PROVE  /\ Covered(disk', summarised')
                    /\ ~torn' => Within(disk')
                    /\ \A n \in open' : Covered(session'[n], summarised') /\ Within(session'[n])
  BY DEF MarkInv, Covered, Within
<1>0. TypeOK /\ InProgress
  BY DEF TypeInv
<1> DEFINE Goal == /\ Covered(disk', summarised')
                   /\ ~torn' => Within(disk')
                   /\ \A n \in open' : Covered(session'[n], summarised') /\ Within(session'[n])
<1>1. ASSUME NEW m \in Managers, StartTurn(m) PROVE Goal
  <2>1. ~damaged /\ (m \in open \/ ~torn)
    BY <1>0, <1>1 DEF StartTurn, TypeOK
  <2>2. Covered(Opened(m), summarised) /\ Within(Opened(m))
    BY <2>1 DEF MarkInv, Opened
  <2>3. /\ open' = open \union {m}
        /\ session' = [session EXCEPT ![m] = Opened(m)]
        /\ UNCHANGED <<disk, torn, summarised>>
    BY <1>1 DEF StartTurn
  <2>4. \A n \in open' : session'[n] = IF n = m THEN Opened(m) ELSE session[n]
    BY <1>0, <2>3 DEF TypeOK
  <2> QED
    BY <2>1, <2>2, <2>3, <2>4 DEF MarkInv
<1>2. ASSUME NEW m \in Managers, FinishTurn(m) \/ FinishTurnUnsaved(m) PROVE Goal
  <2>1. turn[m] \in Turns /\ m \in open
    BY <1>0, <1>2 DEF FinishTurn, FinishTurnUnsaved, TypeOK, InProgress
  <2>2. /\ session' = [session EXCEPT ![m] = WithExchange(m)]
        /\ UNCHANGED <<open, summarised, damaged>>
        /\ Save(WithExchange(m)) \/ SaveCut(WithExchange(m))
    BY <1>2 DEF FinishTurn, FinishTurnUnsaved, history
  <2>3. Covered(WithExchange(m), summarised) /\ Within(WithExchange(m))
    BY <1>0, <2>1, <2>2, ExchangeCovered DEF MarkInv
  <2>4. WithExchange(m) \in Sessions
    BY <1>0, <2>1, ExchangeAdded
  <2>5. Covered(disk', summarised) /\ (~torn' => Within(disk'))
    BY <2>2, <2>3, <2>4, CutCovered DEF Save, SaveCut
  <2>6. \A n \in open : session'[n] = IF n = m THEN WithExchange(m) ELSE session[n]
    BY <1>0, <2>2 DEF TypeOK
  <2> QED
    BY <2>2, <2>3, <2>5, <2>6 DEF MarkInv
<1>3. ASSUME NEW m \in Managers, FailTurn(m) \/ StartCompress(m) \/ FailCompress(m)
      PROVE  Goal
  BY <1>3 DEF FailTurn, StartCompress, FailCompress, MarkInv, history
<1>4. ASSUME NEW m \in Managers, FinishCompress(m) PROVE Goal
  <2>1. segment[m] # NoSegment /\ m \in open
    BY <1>0, <1>4 DEF FinishCompress, InProgress
  <2>2. /\ session' = [session EXCEPT ![m] = WithMark(m)]
        /\ summarised' = summarised \union Summary(m)
        /\ UNCHANGED <<open, damaged>>
        /\ Save(WithMark(m)) \/ SaveCut(WithMark(m))
    BY <1>4 DEF FinishCompress, history
  <2>3. Covered(WithMark(m), summarised') /\ Within(WithMark(m)) /\ WithMark(m) \in Sessions
    BY <2>1, <2>2, MarkCovered, MarkSet DEF MarkInv
  <2>4. Covered(disk', summarised') /\ (~torn' => Within(disk'))
    BY <2>2, <2>3, CutCovered DEF Save, SaveCut
  <2>5. \A n \in open : session'[n] = IF n = m THEN WithMark(m) ELSE session[n]
    BY <1>0, <2>2 DEF TypeOK
  <2>6. \A n \in open : Covered(session[n], summarised') /\ Within(session[n])
    BY <2>2, CoveredMore DEF MarkInv
  <2> QED
    BY <2>2, <2>3, <2>4, <2>5, <2>6
<1>5. ASSUME NEW m \in Managers, Close(m) PROVE Goal
  <2>1. /\ open' = open \ {m}
        /\ \A n \in open' : session'[n] = session[n]
        /\ UNCHANGED <<disk, torn, summarised, damaged>>
    BY <1>0, <1>5 DEF Close, TypeOK, history
  <2> QED
    BY <2>1 DEF MarkInv
<1>6. ASSUME NEW m \in Managers, CrashInTurn(m) PROVE Goal
  <2>1. turn[m] \in Turns /\ m \in open
    BY <1>0, <1>6 DEF CrashInTurn, TypeOK, InProgress
  <2>2. open' = {} /\ SaveCut(WithExchange(m)) /\ UNCHANGED <<summarised, damaged>>
    BY <1>6 DEF CrashInTurn, Die, history
  <2>3. Covered(WithExchange(m), summarised) /\ WithExchange(m) \in Sessions
    BY <1>0, <2>1, <2>2, ExchangeCovered, ExchangeAdded DEF MarkInv
  <2> QED
    BY <2>2, <2>3, CutCovered DEF SaveCut
<1>7. ASSUME NEW m \in Managers, CrashInCompress(m) PROVE Goal
  <2>1. segment[m] # NoSegment /\ m \in open
    BY <1>0, <1>7 DEF CrashInCompress, InProgress
  <2>2. /\ open' = {}
        /\ summarised' = summarised \union Summary(m)
        /\ UNCHANGED <<disk, torn>> \/ SaveCut(WithMark(m))
        /\ UNCHANGED damaged
    BY <1>7 DEF CrashInCompress, Die, history
  <2>3. Covered(WithMark(m), summarised') /\ WithMark(m) \in Sessions
    BY <2>1, <2>2, MarkCovered, MarkSet DEF MarkInv
  <2>4. Covered(disk, summarised')
    BY <2>2, CoveredMore DEF MarkInv
  <2>5. Covered(disk', summarised') /\ (~torn' => Within(disk'))
    BY <2>2, <2>3, <2>4, CutCovered DEF SaveCut, MarkInv
  <2> QED
    BY <2>2, <2>5
<1>8. CASE Crash
  BY <1>8 DEF Crash, Die, MarkInv, history
<1>9. CASE UNCHANGED vars
  BY <1>9 DEF vars, MarkInv
<1> QED
  BY <1>1, <1>2, <1>3, <1>4, <1>5, <1>6, <1>7, <1>8, <1>9 DEF Next

(***************************************************************************)
(* No message is ever marked as consolidated without having been           *)
(* summarised, in any copy of the session, wherever the process dies and   *)
(* whoever shares the file, as long as no torn file was read: HISTORY.md   *)
(* is written before the mark, the mark before the save.                   *)
(***************************************************************************)
THEOREM MarksAreSound == Spec => []MarkedIsSummarised
<1>1. MarkInv => MarkedIsSummarised
  BY DEF MarkInv, MarkedIsSummarised, Covered
<1> QED
  BY <1>1, TypeInit, TypeStep, MarkInit, MarkStep, PTL DEF Spec
=============================================================================
