--------------------------- MODULE TurnDriverProofs ---------------------------
(***************************************************************************)
(* Theorems of the turn driver, for every number of turns, floors and tool *)
(* calls and every history cap.                                            *)
(***************************************************************************)
EXTENDS TurnDriver, SequenceTheorems, TLAPS

\* Every variable keeps its type, and each thread stays in its own part of the
\* control (the window thread never finishes, the turn thread never waits).
THEOREM TypeCorrect == Spec => []TypeOK
<1>1. Init => TypeOK
  <2> SUFFICES ASSUME Init PROVE TypeOK
    OBVIOUS
  <2> USE DEF Init, Speaker
  <2>1. pc \in [Speaker -> ThreadPC]
    BY DEF ThreadPC
  <2>2. ControlTypes
    BY <2>1 DEF ControlTypes, CallerPC
  <2>3. SharedTypes
    <3>1. history \in Seq(Entry)
      OBVIOUS
    <3>2. turn_callbacks \in Nat
      OBVIOUS
    <3>3. QED
      BY <3>1, <3>2 DEF SharedTypes
  <2>4. SpeechTypes
    <3>1. draft \in [Speaker -> Text]
      BY DEF Text
    <3>2. said \in Seq(Delivery) /\ remembered \subseteq [speaker : Speaker, nr : Nat]
      OBVIOUS
    <3>3. \A s \in Speaker : pc[s] \notin {"emit", "invoke"}
      OBVIOUS
    <3>4. QED
      BY <3>1, <3>2, <3>3 DEF SpeechTypes
  <2>5. AuxTypes
    BY DEF AuxTypes
  <2>6. QED
    BY <2>2, <2>3, <2>4, <2>5 DEF TypeOK
<1>2. TypeOK /\ [Next \/ Quiet]_vars => TypeOK'
  <2> SUFFICES ASSUME TypeOK, [Next \/ Quiet]_vars PROVE TypeOK'
    OBVIOUS
  <2> USE DEF TypeOK, ControlTypes, SharedTypes, SpeechTypes, AuxTypes, Goto,
              Speaker, CallerPC, ThreadPC, DoorPC, Text,
              vars, control, shared, window, speech, aux
  <2>1. CASE AttachModel
    BY <2>1 DEF AttachModel
  <2>2. CASE BeginTurn
    BY <2>2 DEF BeginTurn
  <2>3. CASE InstallTurn
    <3>1. [role |-> "user", by |-> "user", nr |-> turnNo + 1] \in Entry
      BY DEF Entry
    <3>2. history' \in Seq(Entry)
      BY <2>3, <3>1 DEF InstallTurn
    <3>3. SharedTypes'
      <4>1. turn_callbacks' = turnNo + 1 /\ turnNo \in Nat /\ turn_stop' = FALSE
        BY <2>3 DEF InstallTurn
      <4>2. turn_callbacks' \in Nat
        BY <4>1
      <4>3. UNCHANGED <<connected, turn_active, window_due, window_stop>>
        BY <2>3 DEF InstallTurn
      <4>4. QED
        BY <3>2, <4>1, <4>2, <4>3
    <3>4. ControlTypes' /\ SpeechTypes' /\ AuxTypes'
      BY <2>3 DEF InstallTurn
    <3>5. QED
      BY <3>3, <3>4 DEF TypeOK
  <2>4. CASE CrossWindow
    BY <2>4 DEF CrossWindow
  <2>5. CASE StoreClaim
    BY <2>5 DEF StoreClaim
  <2>6. CASE SpawnTurn
    BY <2>6 DEF SpawnTurn
  <2>7. CASE StopTurn
    BY <2>7 DEF StopTurn
  <2>8. CASE DropObservers
    BY <2>8 DEF DropObservers
  <2>9. CASE StopForClose
    BY <2>9 DEF StopForClose
  <2>10. CASE JoinTurn
    BY <2>10 DEF JoinTurn
  <2>11. CASE StopWindow \/ NotifyWindow
    BY <2>11 DEF StopWindow, NotifyWindow
  <2>12. CASE JoinWindow
    BY <2>12 DEF JoinWindow
  <2>13. CASE WindowElapses
    BY <2>13 DEF WindowElapses
  <2>14. CASE StartLoop
    BY <2>14 DEF StartLoop
  <2>15. CASE LoopTest
    BY <2>15 DEF LoopTest
  <2>16. CASE ClassifyTurn
    BY <2>16 DEF ClassifyTurn
  <2>17. CASE RunTool
    BY <2>17 DEF RunTool
  <2>18. CASE WindowTest \/ WindowWaits
    BY <2>18 DEF WindowTest, WindowWaits
  <2>19. CASE Rotate
    <3>1. ControlTypes'
      BY <2>19 DEF Rotate
    <3>2. SharedTypes' /\ SpeechTypes' /\ AuxTypes'
      BY <2>19 DEF Rotate
    <3>3. QED
      BY <3>1, <3>2
  <2>20. CASE WindowWakes
    BY <2>20 DEF WindowWakes
  <2>21. CASE ClaimFloor
    <3>1. ControlTypes'
      BY <2>21 DEF ClaimFloor
    <3>2. SharedTypes' /\ SpeechTypes' /\ AuxTypes'
      BY <2>21 DEF ClaimFloor
    <3>3. QED
      BY <3>1, <3>2
  <2>22. CASE ClassifyFloor
    BY <2>22 DEF ClassifyFloor
  <2>23. ASSUME NEW s \in Speaker, Prompt(s) PROVE TypeOK'
    BY <2>23 DEF Prompt
  <2>24. ASSUME NEW s \in Speaker, Stream(s) PROVE TypeOK'
    BY <2>24 DEF Stream
  <2>25. ASSUME NEW s \in Speaker, Gate(s) PROVE TypeOK'
    BY <2>25 DEF Gate
  <2>26. ASSUME NEW s \in Speaker, CopyCallbacks(s) PROVE TypeOK'
    BY <2>26 DEF CopyCallbacks
  <2>27. ASSUME NEW s \in Speaker, Deliver(s) PROVE TypeOK'
    <3>1. Utterance(s) \in [speaker : Speaker, nr : Nat]
      BY DEF Utterance
    <3>2. [utterance |-> Utterance(s), verdict |-> verdict[s], to |-> target[s]]
            \in Delivery
      BY <2>27, <3>1 DEF Deliver, Delivery
    <3>3. SpeechTypes'
      BY <2>27, <3>2 DEF Deliver
    <3>4. ControlTypes' /\ SharedTypes' /\ AuxTypes'
      BY <2>27 DEF Deliver
    <3>5. QED
      BY <3>3, <3>4
  <2>28. ASSUME NEW s \in Speaker, StoreMemory(s) PROVE TypeOK'
    <3>1. Utterance(s) \in [speaker : Speaker, nr : Nat]
      BY DEF Utterance
    <3>2. SpeechTypes'
      BY <2>28, <3>1 DEF StoreMemory
    <3>3. ControlTypes' /\ SharedTypes' /\ AuxTypes'
      BY <2>28 DEF StoreMemory
    <3>4. QED
      BY <3>2, <3>3
  <2>29. ASSUME NEW s \in Speaker, AppendHistory(s) PROVE TypeOK'
    <3> DEFINE e == [role |-> "assistant", by |-> s, nr |-> Utterance(s).nr]
    <3>1. e \in Entry
      BY DEF Entry, Utterance
    <3>2. Append(history, e) \in Seq(Entry)
      BY <3>1
    <3>3. history' \in Seq(Entry)
      BY <2>29, <3>2 DEF AppendHistory, Trimmed
    <3>4. SharedTypes'
      BY <2>29, <3>3 DEF AppendHistory
    <3>5. ControlTypes' /\ SpeechTypes' /\ AuxTypes'
      BY <2>29 DEF AppendHistory
    <3>6. QED
      BY <3>4, <3>5
  <2>30. ASSUME NEW s \in Speaker, Release(s) PROVE TypeOK'
    <3>1. ControlTypes'
      BY <2>30 DEF Release
    <3>2. SharedTypes'
      BY <2>30 DEF Release
    <3>3. SpeechTypes'
      BY <2>30 DEF Release
    <3>4. AuxTypes'
      BY <2>30 DEF Release
    <3>5. QED
      BY <3>1, <3>2, <3>3, <3>4
  <2>31. ASSUME NEW s \in Speaker, StorageThrows(s) PROVE TypeOK'
    <3>1. ControlTypes' /\ SharedTypes'
      BY <2>31 DEF StorageThrows
    <3>2. SpeechTypes' /\ AuxTypes'
      BY <2>31 DEF StorageThrows
    <3>3. QED
      BY <3>1, <3>2
  <2>32. CASE UNCHANGED vars
    BY <2>32
  <2>33. QED
    BY <2>1, <2>2, <2>3, <2>4, <2>5, <2>6, <2>7, <2>8, <2>9, <2>10, <2>11,
       <2>12, <2>13, <2>14, <2>15, <2>16, <2>17, <2>18, <2>19, <2>20, <2>21,
       <2>22, <2>23, <2>24, <2>25, <2>26, <2>27, <2>28, <2>29, <2>30, <2>31,
       <2>32 DEF Next, Quiet, BeginSteps, CloseSteps, TurnSteps, FloorSteps,
       Finalize, Speaker
<1>3. QED
  BY <1>1, <1>2, PTL DEF Spec

-------------------------------------------------------------------------------
\* While no claim was stolen the flag is up for every holder, and there is one
\* holder at most: the caller between its store and the spawn, or a speaker.
Exclusion ==
  ~stolen =>
    /\ cpc = "claimed" => turn_active /\ \A s \in Speaker : ~Holding(s)
    /\ \A s \in Speaker : Holding(s) => turn_active
    /\ OneSpeaker

\* begin_turn and the window thread keep the door so, whoever stops it or closes.
LEMMA DoorExcludes == Spec => []Exclusion
<1>1. Init => Exclusion
  BY DEF Init, Exclusion, OneSpeaker, Holding, DoorPC, Speaker
<1>2. TypeOK /\ Exclusion /\ [Next \/ Quiet]_vars => Exclusion'
  <2> SUFFICES ASSUME TypeOK, Exclusion, [Next \/ Quiet]_vars PROVE Exclusion'
    OBVIOUS
  <2> USE DEF TypeOK, ControlTypes, Exclusion, OneSpeaker, Holding, DoorPC,
              Speaker, Goto, vars, control, shared, window, speech, aux
  <2>1. CASE AttachModel
    BY <2>1 DEF AttachModel
  <2>2. CASE BeginTurn
    BY <2>2 DEF BeginTurn
  <2>3. CASE InstallTurn
    BY <2>3 DEF InstallTurn
  <2>4. CASE CrossWindow
    BY <2>4 DEF CrossWindow
  <2>5. CASE StoreClaim
    BY <2>5 DEF StoreClaim
  <2>6. CASE SpawnTurn
    BY <2>6 DEF SpawnTurn
  <2>7. CASE StopTurn
    BY <2>7 DEF StopTurn
  <2>8. CASE DropObservers
    BY <2>8 DEF DropObservers
  <2>9. CASE StopForClose
    BY <2>9 DEF StopForClose
  <2>10. CASE JoinTurn
    BY <2>10 DEF JoinTurn
  <2>11. CASE StopWindow \/ NotifyWindow
    BY <2>11 DEF StopWindow, NotifyWindow
  <2>12. CASE JoinWindow
    BY <2>12 DEF JoinWindow
  <2>13. CASE WindowElapses
    BY <2>13 DEF WindowElapses
  <2>14. CASE StartLoop
    BY <2>14 DEF StartLoop
  <2>15. CASE LoopTest
    BY <2>15 DEF LoopTest
  <2>16. CASE ClassifyTurn
    BY <2>16 DEF ClassifyTurn
  <2>17. CASE RunTool
    BY <2>17 DEF RunTool
  <2>18. CASE WindowTest \/ WindowWaits
    BY <2>18 DEF WindowTest, WindowWaits
  <2>19. CASE Rotate
    BY <2>19 DEF Rotate
  <2>20. CASE WindowWakes
    BY <2>20 DEF WindowWakes
  <2>21. CASE ClaimFloor
    BY <2>21 DEF ClaimFloor
  <2>22. CASE ClassifyFloor
    BY <2>22 DEF ClassifyFloor
  <2>23. ASSUME NEW s \in Speaker, Prompt(s) PROVE Exclusion'
    BY <2>23 DEF Prompt
  <2>24. ASSUME NEW s \in Speaker, Stream(s) PROVE Exclusion'
    BY <2>24 DEF Stream
  <2>25. ASSUME NEW s \in Speaker, Gate(s) PROVE Exclusion'
    BY <2>25 DEF Gate
  <2>26. ASSUME NEW s \in Speaker, CopyCallbacks(s) PROVE Exclusion'
    BY <2>26 DEF CopyCallbacks
  <2>27. ASSUME NEW s \in Speaker, Deliver(s) PROVE Exclusion'
    BY <2>27 DEF Deliver
  <2>28. ASSUME NEW s \in Speaker, StoreMemory(s) PROVE Exclusion'
    BY <2>28 DEF StoreMemory
  <2>29. ASSUME NEW s \in Speaker, AppendHistory(s) PROVE Exclusion'
    BY <2>29 DEF AppendHistory
  <2>30. ASSUME NEW s \in Speaker, Release(s) PROVE Exclusion'
    BY <2>30 DEF Release
  <2>31. ASSUME NEW s \in Speaker, StorageThrows(s) PROVE Exclusion'
    BY <2>31 DEF StorageThrows
  <2>32. CASE UNCHANGED vars
    BY <2>32
  <2>33. QED
    BY <2>1, <2>2, <2>3, <2>4, <2>5, <2>6, <2>7, <2>8, <2>9, <2>10, <2>11,
       <2>12, <2>13, <2>14, <2>15, <2>16, <2>17, <2>18, <2>19, <2>20, <2>21,
       <2>22, <2>23, <2>24, <2>25, <2>26, <2>27, <2>28, <2>29, <2>30, <2>31,
       <2>32 DEF Next, Quiet, BeginSteps, CloseSteps, TurnSteps, FloorSteps,
       Finalize, Speaker
<1>3. QED
  BY <1>1, <1>2, TypeCorrect, PTL DEF Spec

\* While no begin_turn has stored its claim over a standing one, the user turn
\* and the voluntary turn never speak together.
THEOREM MutualExclusion == Spec => []OneSpeakerUnlessStolen
<1>1. Exclusion => OneSpeakerUnlessStolen
  BY DEF Exclusion, OneSpeakerUnlessStolen
<1>2. QED
  BY <1>1, DoorExcludes, PTL

-------------------------------------------------------------------------------
\* turn_active_ is up only while somebody is bound to lower it, stolen claims
\* included: whoever raised it last has not released yet.
THEOREM NoLostRelease == Spec => []ClaimHasHolder
<1>1. Init => ClaimHasHolder
  BY DEF Init, ClaimHasHolder
<1>2. TypeOK /\ ClaimHasHolder /\ [Next \/ Quiet]_vars => ClaimHasHolder'
  <2> SUFFICES ASSUME TypeOK, ClaimHasHolder, [Next \/ Quiet]_vars
               PROVE ClaimHasHolder'
    OBVIOUS
  <2> USE DEF TypeOK, ControlTypes, SharedTypes, ClaimHasHolder, Holding, DoorPC,
              Speaker, Goto, vars, control, shared, window, speech, aux
  <2>1. CASE AttachModel
    BY <2>1 DEF AttachModel
  <2>2. CASE BeginTurn
    BY <2>2 DEF BeginTurn
  <2>3. CASE InstallTurn
    BY <2>3 DEF InstallTurn
  <2>4. CASE CrossWindow
    BY <2>4 DEF CrossWindow
  <2>5. CASE StoreClaim
    BY <2>5 DEF StoreClaim
  <2>6. CASE SpawnTurn
    BY <2>6 DEF SpawnTurn
  <2>7. CASE StopTurn
    BY <2>7 DEF StopTurn
  <2>8. CASE DropObservers
    BY <2>8 DEF DropObservers
  <2>9. CASE StopForClose
    BY <2>9 DEF StopForClose
  <2>10. CASE JoinTurn
    BY <2>10 DEF JoinTurn
  <2>11. CASE StopWindow \/ NotifyWindow
    BY <2>11 DEF StopWindow, NotifyWindow
  <2>12. CASE JoinWindow
    BY <2>12 DEF JoinWindow
  <2>13. CASE WindowElapses
    BY <2>13 DEF WindowElapses
  <2>14. CASE StartLoop
    BY <2>14 DEF StartLoop
  <2>15. CASE LoopTest
    BY <2>15 DEF LoopTest
  <2>16. CASE ClassifyTurn
    BY <2>16 DEF ClassifyTurn
  <2>17. CASE RunTool
    BY <2>17 DEF RunTool
  <2>18. CASE WindowTest \/ WindowWaits
    BY <2>18 DEF WindowTest, WindowWaits
  <2>19. CASE Rotate
    BY <2>19 DEF Rotate
  <2>20. CASE WindowWakes
    BY <2>20 DEF WindowWakes
  <2>21. CASE ClaimFloor
    BY <2>21 DEF ClaimFloor
  <2>22. CASE ClassifyFloor
    BY <2>22 DEF ClassifyFloor
  <2>23. ASSUME NEW s \in Speaker, Prompt(s) PROVE ClaimHasHolder'
    BY <2>23 DEF Prompt
  <2>24. ASSUME NEW s \in Speaker, Stream(s) PROVE ClaimHasHolder'
    BY <2>24 DEF Stream
  <2>25. ASSUME NEW s \in Speaker, Gate(s) PROVE ClaimHasHolder'
    BY <2>25 DEF Gate
  <2>26. ASSUME NEW s \in Speaker, CopyCallbacks(s) PROVE ClaimHasHolder'
    BY <2>26 DEF CopyCallbacks
  <2>27. ASSUME NEW s \in Speaker, Deliver(s) PROVE ClaimHasHolder'
    BY <2>27 DEF Deliver
  <2>28. ASSUME NEW s \in Speaker, StoreMemory(s) PROVE ClaimHasHolder'
    BY <2>28 DEF StoreMemory
  <2>29. ASSUME NEW s \in Speaker, AppendHistory(s) PROVE ClaimHasHolder'
    BY <2>29 DEF AppendHistory
  <2>30. ASSUME NEW s \in Speaker, Release(s) PROVE ClaimHasHolder'
    BY <2>30 DEF Release
  <2>31. ASSUME NEW s \in Speaker, StorageThrows(s) PROVE ClaimHasHolder'
    BY <2>31 DEF StorageThrows
  <2>32. CASE UNCHANGED vars
    BY <2>32
  <2>33. QED
    BY <2>1, <2>2, <2>3, <2>4, <2>5, <2>6, <2>7, <2>8, <2>9, <2>10, <2>11,
       <2>12, <2>13, <2>14, <2>15, <2>16, <2>17, <2>18, <2>19, <2>20, <2>21,
       <2>22, <2>23, <2>24, <2>25, <2>26, <2>27, <2>28, <2>29, <2>30, <2>31,
       <2>32 DEF Next, Quiet, BeginSteps, CloseSteps, TurnSteps, FloorSteps,
       Finalize, Speaker
<1>3. QED
  BY <1>1, <1>2, TypeCorrect, PTL DEF Spec

-------------------------------------------------------------------------------
\* A turn thread is replaced only after it finished.
THEOREM JoinBeforeSpawn == Spec => SpawnAfterJoin
<1> DEFINE Joined == running' # running => pc["user"] \in {"none", "finished"}
<1>1. [Next \/ Quiet]_vars => [Joined]_vars
  <2> SUFFICES ASSUME [Next \/ Quiet]_vars PROVE Joined
    OBVIOUS
  <2> USE DEF vars, control, shared, window, speech, aux
  <2>1. CASE AttachModel
    BY <2>1 DEF AttachModel
  <2>2. CASE BeginTurn
    BY <2>2 DEF BeginTurn
  <2>3. CASE InstallTurn
    BY <2>3 DEF InstallTurn
  <2>4. CASE CrossWindow
    BY <2>4 DEF CrossWindow
  <2>5. CASE StoreClaim
    BY <2>5 DEF StoreClaim
  <2>6. CASE SpawnTurn
    BY <2>6 DEF SpawnTurn
  <2>7. CASE StopTurn
    BY <2>7 DEF StopTurn
  <2>8. CASE DropObservers
    BY <2>8 DEF DropObservers
  <2>9. CASE StopForClose
    BY <2>9 DEF StopForClose
  <2>10. CASE JoinTurn
    BY <2>10 DEF JoinTurn
  <2>11. CASE StopWindow \/ NotifyWindow
    BY <2>11 DEF StopWindow, NotifyWindow
  <2>12. CASE JoinWindow
    BY <2>12 DEF JoinWindow
  <2>13. CASE WindowElapses
    BY <2>13 DEF WindowElapses
  <2>14. CASE StartLoop
    BY <2>14 DEF StartLoop
  <2>15. CASE LoopTest
    BY <2>15 DEF LoopTest
  <2>16. CASE ClassifyTurn
    BY <2>16 DEF ClassifyTurn
  <2>17. CASE RunTool
    BY <2>17 DEF RunTool
  <2>18. CASE WindowTest \/ WindowWaits
    BY <2>18 DEF WindowTest, WindowWaits
  <2>19. CASE Rotate
    BY <2>19 DEF Rotate
  <2>20. CASE WindowWakes
    BY <2>20 DEF WindowWakes
  <2>21. CASE ClaimFloor
    BY <2>21 DEF ClaimFloor
  <2>22. CASE ClassifyFloor
    BY <2>22 DEF ClassifyFloor
  <2>23. ASSUME NEW s \in Speaker, Prompt(s) PROVE Joined
    BY <2>23 DEF Prompt
  <2>24. ASSUME NEW s \in Speaker, Stream(s) PROVE Joined
    BY <2>24 DEF Stream
  <2>25. ASSUME NEW s \in Speaker, Gate(s) PROVE Joined
    BY <2>25 DEF Gate
  <2>26. ASSUME NEW s \in Speaker, CopyCallbacks(s) PROVE Joined
    BY <2>26 DEF CopyCallbacks
  <2>27. ASSUME NEW s \in Speaker, Deliver(s) PROVE Joined
    BY <2>27 DEF Deliver
  <2>28. ASSUME NEW s \in Speaker, StoreMemory(s) PROVE Joined
    BY <2>28 DEF StoreMemory
  <2>29. ASSUME NEW s \in Speaker, AppendHistory(s) PROVE Joined
    BY <2>29 DEF AppendHistory
  <2>30. ASSUME NEW s \in Speaker, Release(s) PROVE Joined
    BY <2>30 DEF Release
  <2>31. ASSUME NEW s \in Speaker, StorageThrows(s) PROVE Joined
    BY <2>31 DEF StorageThrows
  <2>32. CASE UNCHANGED vars
    BY <2>32
  <2>33. QED
    BY <2>1, <2>2, <2>3, <2>4, <2>5, <2>6, <2>7, <2>8, <2>9, <2>10, <2>11,
       <2>12, <2>13, <2>14, <2>15, <2>16, <2>17, <2>18, <2>19, <2>20, <2>21,
       <2>22, <2>23, <2>24, <2>25, <2>26, <2>27, <2>28, <2>29, <2>30, <2>31,
       <2>32 DEF Next, Quiet, BeginSteps, CloseSteps, TurnSteps, FloorSteps,
       Finalize, Speaker
<1>2. QED
  BY <1>1, PTL DEF Spec, SpawnAfterJoin

-------------------------------------------------------------------------------
\* The transcript after a reply: one entry longer, or one shorter when trimmed.
LEMMA TrimmedLength ==
  ASSUME NEW h \in Seq(Entry), NEW e \in Entry
  PROVE  LET t == Trimmed(Append(h, e))
         IN  /\ t \in Seq(Entry)
             /\ Len(h) < HistoryCap => Len(t) = Len(h) + 1
             /\ Len(h) >= HistoryCap => Len(t) = Len(h) - 1
<1> DEFINE a == Append(h, e)
<1>1. a \in Seq(Entry) /\ Len(a) = Len(h) + 1 /\ Len(h) \in Nat
  OBVIOUS
<1>2. CASE Len(h) < HistoryCap
  BY <1>1, <1>2, BoundsAssumption DEF Trimmed
<1>3. CASE Len(h) >= HistoryCap
  <2>1. Len(a) > HistoryCap /\ Len(a) >= 2
    BY <1>1, <1>3, BoundsAssumption
  <2>2. SubSeq(a, 3, Len(a)) \in Seq(Entry) /\ Len(SubSeq(a, 3, Len(a))) = Len(a) - 2
    <3> HIDE DEF a
    <3> DEFINE m == 3
    <3> DEFINE n == Len(a)
    <3> DEFINE E == Entry
    <3>1. a \in Seq(E) /\ n \in Int /\ m \in Int /\ n >= 2
      BY <1>1, <2>1
    <3>2. \A i \in m..n : a[i] \in E
      BY <3>1
    <3> HIDE DEF n, m, E
    <3>3. /\ SubSeq(a, m, n) \in Seq(E)
          /\ Len(SubSeq(a, m, n)) = IF m <= n THEN n - m + 1 ELSE 0
      BY <3>1, <3>2, SubSeqProperties
    <3>4. QED
      BY <3>1, <3>3 DEF n, m, E
  <2>3. QED
    BY <1>1, <1>3, <2>1, <2>2, BoundsAssumption DEF Trimmed
<1>4. QED
  BY <1>1, <1>2, <1>3, BoundsAssumption

\* Each reply of a user turn answers an entry of its own: a turn's reply enters
\* the transcript once, so the replies trail the messages.
HistoryInv ==
  /\ running <= turnNo
  /\ cpc \in {"installed", "windowed", "claimed"} => running < turnNo
  /\ paired <= running
  /\ pc["user"] \in DoorPC \ {"release"} => paired < running
  /\ HistoryBound

\* The transcript never outgrows its cap by more than the unanswered messages.
THEOREM TranscriptBounded == Spec => []HistoryBound
<1>1. Init => HistoryInv
  BY BoundsAssumption DEF Init, HistoryInv, HistoryBound, DoorPC, Speaker
<1>2. TypeOK /\ HistoryInv /\ [Next \/ Quiet]_vars => HistoryInv'
  <2> SUFFICES ASSUME TypeOK, HistoryInv, [Next \/ Quiet]_vars PROVE HistoryInv'
    OBVIOUS
  <2>0. /\ Len(history) \in Nat /\ turnNo \in Nat /\ running \in Nat
        /\ paired \in Nat /\ HistoryCap \in Nat
    BY BoundsAssumption DEF TypeOK, ControlTypes, SharedTypes, AuxTypes
  <2> USE <2>0 DEF TypeOK, ControlTypes, HistoryInv, HistoryBound, DoorPC,
              Speaker, Goto, vars, control, shared, window, speech, aux
  <2>1. CASE AttachModel
    BY <2>1 DEF AttachModel
  <2>2. CASE BeginTurn
    BY <2>2 DEF BeginTurn
  <2>3. CASE InstallTurn
    <3>1. history \in Seq(Entry)
      BY DEF SharedTypes
    <3>2. Len(history') = Len(history) + 1
      BY <2>3, <3>1 DEF InstallTurn
    <3>3. /\ turnNo' = turnNo + 1 /\ cpc' = "installed"
          /\ UNCHANGED <<pc, running, paired>>
      BY <2>3 DEF InstallTurn
    <3>4. QED
      BY <3>2, <3>3
  <2>4. CASE CrossWindow
    BY <2>4 DEF CrossWindow
  <2>5. CASE StoreClaim
    BY <2>5 DEF StoreClaim
  <2>6. CASE SpawnTurn
    BY <2>6 DEF SpawnTurn
  <2>7. CASE StopTurn
    BY <2>7 DEF StopTurn
  <2>8. CASE DropObservers
    BY <2>8 DEF DropObservers
  <2>9. CASE StopForClose
    BY <2>9 DEF StopForClose
  <2>10. CASE JoinTurn
    BY <2>10 DEF JoinTurn
  <2>11. CASE StopWindow \/ NotifyWindow
    BY <2>11 DEF StopWindow, NotifyWindow
  <2>12. CASE JoinWindow
    BY <2>12 DEF JoinWindow
  <2>13. CASE WindowElapses
    BY <2>13 DEF WindowElapses
  <2>14. CASE StartLoop
    BY <2>14 DEF StartLoop
  <2>15. CASE LoopTest
    BY <2>15 DEF LoopTest
  <2>16. CASE ClassifyTurn
    BY <2>16 DEF ClassifyTurn
  <2>17. CASE RunTool
    BY <2>17 DEF RunTool
  <2>18. CASE WindowTest \/ WindowWaits
    BY <2>18 DEF WindowTest, WindowWaits
  <2>19. CASE Rotate
    BY <2>19 DEF Rotate
  <2>20. CASE WindowWakes
    BY <2>20 DEF WindowWakes
  <2>21. CASE ClaimFloor
    BY <2>21 DEF ClaimFloor
  <2>22. CASE ClassifyFloor
    BY <2>22 DEF ClassifyFloor
  <2>23. ASSUME NEW s \in Speaker, Prompt(s) PROVE HistoryInv'
    BY <2>23 DEF Prompt
  <2>24. ASSUME NEW s \in Speaker, Stream(s) PROVE HistoryInv'
    BY <2>24 DEF Stream
  <2>25. ASSUME NEW s \in Speaker, Gate(s) PROVE HistoryInv'
    BY <2>25 DEF Gate
  <2>26. ASSUME NEW s \in Speaker, CopyCallbacks(s) PROVE HistoryInv'
    BY <2>26 DEF CopyCallbacks
  <2>27. ASSUME NEW s \in Speaker, Deliver(s) PROVE HistoryInv'
    BY <2>27 DEF Deliver
  <2>28. ASSUME NEW s \in Speaker, StoreMemory(s) PROVE HistoryInv'
    BY <2>28 DEF StoreMemory
  <2>29. ASSUME NEW s \in Speaker, AppendHistory(s) PROVE HistoryInv'
    <3> DEFINE e == [role |-> "assistant", by |-> s, nr |-> Utterance(s).nr]
    <3>1. e \in Entry /\ history \in Seq(Entry)
      BY DEF Entry, Utterance, SharedTypes
    <3>2. history' = Trimmed(Append(history, e)) /\ pc[s] = "append"
      BY <2>29 DEF AppendHistory
    <3>3. /\ Len(history) < HistoryCap => Len(history') = Len(history) + 1
          /\ Len(history) >= HistoryCap => Len(history') = Len(history) - 1
      BY <3>1, <3>2, TrimmedLength
    <3>4. UNCHANGED <<cpc, turnNo, running>> /\ pc' = [pc EXCEPT ![s] = "release"]
      BY <2>29 DEF AppendHistory
    <3>5. CASE s = "user"
      <4>1. paired' = paired + 1 /\ paired < running
        BY <2>29, <3>5 DEF AppendHistory
      <4>2. QED
        BY <3>3, <3>4, <3>5, <4>1
    <3>6. CASE s = "floor"
      <4>1. paired' = paired /\ pc'["user"] = pc["user"]
        BY <2>29, <3>4, <3>6 DEF AppendHistory
      <4>2. QED
        BY <3>3, <3>4, <4>1
    <3>7. QED
      BY <3>5, <3>6
  <2>30. ASSUME NEW s \in Speaker, Release(s) PROVE HistoryInv'
    BY <2>30 DEF Release
  <2>31. ASSUME NEW s \in Speaker, StorageThrows(s) PROVE HistoryInv'
    BY <2>31 DEF StorageThrows
  <2>32. CASE UNCHANGED vars
    BY <2>32
  <2>33. QED
    BY <2>1, <2>2, <2>3, <2>4, <2>5, <2>6, <2>7, <2>8, <2>9, <2>10, <2>11,
       <2>12, <2>13, <2>14, <2>15, <2>16, <2>17, <2>18, <2>19, <2>20, <2>21,
       <2>22, <2>23, <2>24, <2>25, <2>26, <2>27, <2>28, <2>29, <2>30, <2>31,
       <2>32 DEF Next, Quiet, BeginSteps, CloseSteps, TurnSteps, FloorSteps,
       Finalize, Speaker
<1>3. HistoryInv => HistoryBound
  BY DEF HistoryInv
<1>4. QED
  BY <1>1, <1>2, <1>3, TypeCorrect, PTL DEF Spec

-------------------------------------------------------------------------------
(* Speech: the contract, and what is kept.                                 *)

\* A delivery adds its utterance to the delivered ones, and to the spoken ones
\* when its verdict was inside.
LEMMA DeliveryAdds ==
  ASSUME said \in Seq(Delivery), NEW d \in Delivery, said' = Append(said, d)
  PROVE  /\ Contract!Delivered' = Contract!Delivered \cup {d.utterance}
         /\ Contract!Spoken' = Contract!Spoken
              \cup (IF d.verdict = "inside" THEN {d.utterance} ELSE {})
<1>1. /\ DOMAIN said = 1..Len(said) /\ DOMAIN said' = 1..(Len(said) + 1)
      /\ Len(said) \in Nat
  OBVIOUS
<1>2. /\ \A i \in 1..Len(said) : said'[i] = said[i]
      /\ said'[Len(said) + 1] = d
  OBVIOUS
<1> DEFINE last == Len(said) + 1
<1>3. DOMAIN said' = DOMAIN said \cup {last} /\ said'[last] = d
  BY <1>1, <1>2
<1>4. Contract!Delivered' = Contract!Delivered \cup {d.utterance}
  BY <1>1, <1>2, <1>3 DEF Contract!Delivered
<1>5. Contract!Spoken' = Contract!Spoken
        \cup (IF d.verdict = "inside" THEN {d.utterance} ELSE {})
  BY <1>1, <1>2, <1>3 DEF Contract!Spoken
<1>6. QED
  BY <1>4, <1>5

\* Every entry of the transcript after a reply is the reply or was there before.
LEMMA TrimmedEntries ==
  ASSUME NEW h \in Seq(Entry), NEW e \in Entry
  PROVE  LET t == Trimmed(Append(h, e))
         IN  \A i \in DOMAIN t : t[i] = e \/ \E j \in DOMAIN h : t[i] = h[j]
<1> DEFINE a == Append(h, e)
<1>1. /\ a \in Seq(Entry) /\ Len(a) = Len(h) + 1 /\ Len(h) \in Nat
      /\ \A i \in 1..Len(a) : a[i] = e \/ \E j \in DOMAIN h : a[i] = h[j]
  OBVIOUS
<1>2. CASE Len(a) > HistoryCap
  <2> DEFINE t == SubSeq(a, 3, Len(a))
  <2> HIDE DEF a
  <2>1. \A i \in 3..Len(a) : a[i] \in Entry
    BY <1>1
  <2>2. /\ t \in Seq(Entry) /\ Len(t) = IF 3 <= Len(a) THEN Len(a) - 2 ELSE 0
        /\ \A i \in 1..(Len(a) - 2) : t[i] = a[i + 2]
    BY <1>1, <2>1, SubSeqProperties
  <2>3. \A i \in DOMAIN t : t[i] = e \/ \E j \in DOMAIN h : t[i] = h[j]
    BY <1>1, <2>2
  <2>4. QED
    BY <1>2, <2>3 DEF Trimmed, a
<1>3. CASE ~(Len(a) > HistoryCap)
  BY <1>1, <1>3 DEF Trimmed
<1>4. QED
  BY <1>2, <1>3

\* Numbers grow with each turn and each floor, so what a holder is about to say
\* was not said before; what it stores was said; what it appends is stored.
SpeechInv ==
  /\ running <= turnNo
  /\ cpc \in {"installed", "windowed", "claimed"} => running < turnNo
  /\ \A u \in Contract!Delivered :
       u.nr <= (IF u.speaker = "user" THEN running ELSE floorNo)
  /\ \A s \in Speaker :
       /\ pc[s] \in DoorPC \ {"store", "append", "release"}
            => Utterance(s) \notin Contract!Delivered
       /\ pc[s] = "store" => Utterance(s) \in Contract!Spoken \ remembered
       /\ pc[s] = "append" => Utterance(s) \in remembered
  /\ remembered \subseteq Contract!Spoken
  /\ \A i \in DOMAIN history :
       history[i].role = "assistant"
         => [speaker |-> history[i].by, nr |-> history[i].nr] \in remembered

\* Nothing said, nothing remembered: SpeechInv holds at the start.
LEMMA SpeechInitially == Init => SpeechInv
  BY DEF Init, SpeechInv, DoorPC, Speaker, Contract!Delivered, Contract!Spoken

\* Every step of the driver, the voluntary turns' included, keeps SpeechInv.
LEMMA SpeechStep == TypeOK /\ SpeechInv /\ [Next \/ Quiet]_vars => SpeechInv'
  <2> SUFFICES ASSUME TypeOK, SpeechInv, [Next \/ Quiet]_vars PROVE SpeechInv'
    OBVIOUS
  <2>0. /\ Contract!Spoken \subseteq Contract!Delivered
        /\ said' = said => /\ Contract!Delivered' = Contract!Delivered
                           /\ Contract!Spoken' = Contract!Spoken
        /\ \A u \in Contract!Delivered : u \in [speaker : Speaker, nr : Nat]
    <3>1. Contract!Spoken \subseteq Contract!Delivered
      BY DEF Contract!Spoken, Contract!Delivered
    <3>2. said' = said => /\ Contract!Delivered' = Contract!Delivered
                          /\ Contract!Spoken' = Contract!Spoken
      BY DEF Contract!Spoken, Contract!Delivered
    <3>3. \A i \in DOMAIN said : said[i] \in Delivery
      BY DEF TypeOK, SpeechTypes
    <3>4. \A i \in DOMAIN said : said[i].utterance \in [speaker : Speaker, nr : Nat]
      BY <3>3 DEF Delivery
    <3>5. \A u \in Contract!Delivered : u \in [speaker : Speaker, nr : Nat]
      BY <3>4 DEF Contract!Delivered
    <3>6. QED
      BY <3>1, <3>2, <3>5
  <2> USE <2>0 DEF TypeOK, ControlTypes, SpeechInv, Utterance, DoorPC, Speaker,
                   Goto, vars, control, shared, window, speech, aux
  <2>1. CASE AttachModel
    BY <2>1 DEF AttachModel
  <2>2. CASE BeginTurn
    BY <2>2 DEF BeginTurn
  <2>3. CASE InstallTurn
    <3> DEFINE e == [role |-> "user", by |-> "user", nr |-> turnNo + 1]
    <3>1. /\ history \in Seq(Entry) /\ e \in Entry
          /\ history' = Append(history, e)
      BY <2>3 DEF InstallTurn, SharedTypes, Entry
    <3>2. \A i \in DOMAIN history' :
            history'[i].role = "assistant"
              => [speaker |-> history'[i].by, nr |-> history'[i].nr] \in remembered
      BY <3>1
    <3>3. /\ turnNo' = turnNo + 1 /\ cpc' = "installed"
          /\ UNCHANGED <<pc, running, floorNo, said, remembered>>
      BY <2>3 DEF InstallTurn
    <3>4. QED
      BY <3>2, <3>3
  <2>4. CASE CrossWindow
    BY <2>4 DEF CrossWindow
  <2>5. CASE StoreClaim
    BY <2>5 DEF StoreClaim
  <2>6. CASE SpawnTurn
    <3>1. /\ running' = turnNo /\ running < turnNo /\ cpc' = "idle"
          /\ pc' = [pc EXCEPT !["user"] = "start"]
          /\ UNCHANGED <<turnNo, floorNo, history, said, remembered>>
      BY <2>6 DEF SpawnTurn
    <3>2. Utterance("user")' \notin Contract!Delivered
      BY <3>1
    <3>3. QED
      BY <3>1, <3>2
  <2>7. CASE StopTurn
    BY <2>7 DEF StopTurn
  <2>8. CASE DropObservers
    BY <2>8 DEF DropObservers
  <2>9. CASE StopForClose
    BY <2>9 DEF StopForClose
  <2>10. CASE JoinTurn
    BY <2>10 DEF JoinTurn
  <2>11. CASE StopWindow \/ NotifyWindow
    BY <2>11 DEF StopWindow, NotifyWindow
  <2>12. CASE JoinWindow
    BY <2>12 DEF JoinWindow
  <2>13. CASE WindowElapses
    BY <2>13 DEF WindowElapses
  <2>14. CASE StartLoop
    BY <2>14 DEF StartLoop
  <2>15. CASE LoopTest
    BY <2>15 DEF LoopTest
  <2>16. CASE ClassifyTurn
    BY <2>16 DEF ClassifyTurn
  <2>17. CASE RunTool
    BY <2>17 DEF RunTool
  <2>18. CASE WindowTest \/ WindowWaits
    BY <2>18 DEF WindowTest, WindowWaits
  <2>19. CASE Rotate
    BY <2>19 DEF Rotate
  <2>20. CASE WindowWakes
    BY <2>20 DEF WindowWakes
  <2>21. CASE ClaimFloor
    <3>1. CASE floorNo' = floorNo
      BY <2>21, <3>1 DEF ClaimFloor
    <3>2. CASE floorNo' = floorNo + 1
      <4>1. /\ UNCHANGED <<cpc, turnNo, running, history, said, remembered>>
            /\ pc'["user"] = pc["user"]
            /\ pc'["floor"] \in {"prompt", "release"}
        BY <2>21, <3>2 DEF ClaimFloor
      <4>2. Utterance("floor")' \notin Contract!Delivered
        BY <3>2
      <4>3. QED
        BY <3>2, <4>1, <4>2
    <3>3. QED
      BY <2>21, <3>1, <3>2 DEF ClaimFloor
  <2>22. CASE ClassifyFloor
    BY <2>22 DEF ClassifyFloor
  <2>23. ASSUME NEW s \in Speaker, Prompt(s) PROVE SpeechInv'
    BY <2>23 DEF Prompt
  <2>24. ASSUME NEW s \in Speaker, Stream(s) PROVE SpeechInv'
    BY <2>24 DEF Stream
  <2>25. ASSUME NEW s \in Speaker, Gate(s) PROVE SpeechInv'
    BY <2>25 DEF Gate
  <2>26. ASSUME NEW s \in Speaker, CopyCallbacks(s) PROVE SpeechInv'
    BY <2>26 DEF CopyCallbacks
  <2>27. ASSUME NEW s \in Speaker, Deliver(s) PROVE SpeechInv'
    <3> DEFINE d == [utterance |-> Utterance(s), verdict |-> verdict[s],
                     to |-> target[s]]
    <3>1. d \in Delivery /\ said \in Seq(Delivery) /\ said' = Append(said, d)
      BY <2>27 DEF Deliver, Delivery, SpeechTypes
    <3>2. /\ Contract!Delivered' = Contract!Delivered \cup {Utterance(s)}
          /\ Contract!Spoken' = Contract!Spoken
               \cup (IF verdict[s] = "inside" THEN {Utterance(s)} ELSE {})
      <4>1. d.utterance = Utterance(s) /\ d.verdict = verdict[s]
        OBVIOUS
      <4> HIDE DEF d
      <4>2. QED
        BY <3>1, <4>1, DeliveryAdds
    <3>3. /\ UNCHANGED <<cpc, turnNo, running, floorNo, history, remembered>>
          /\ pc[s] = "invoke" /\ verdict[s] \in {"inside", "withheld"}
          /\ pc' = [pc EXCEPT ![s] = IF verdict[s] = "withheld" THEN "release"
                                     ELSE "store"]
      BY <2>27 DEF Deliver, SpeechTypes
    <3>4. \A r \in Speaker : Utterance(r)' = Utterance(r)
      BY <3>3
    <3>5. \A r \in Speaker \ {s} : Utterance(r) # Utterance(s) /\ pc'[r] = pc[r]
      BY <3>3
    <3>6. Utterance(s).nr <= (IF Utterance(s).speaker = "user" THEN running ELSE floorNo)
      OBVIOUS
    <3>7. Utterance(s) \notin remembered
      BY <3>3
    <3>8. \A u \in Contract!Delivered' :
            u.nr <= (IF u.speaker = "user" THEN running ELSE floorNo)
      BY <3>2, <3>6
    <3>9. \A r \in Speaker :
            /\ pc'[r] \in DoorPC \ {"store", "append", "release"}
                 => Utterance(r) \notin Contract!Delivered'
            /\ pc'[r] = "store" => Utterance(r) \in Contract!Spoken' \ remembered
            /\ pc'[r] = "append" => Utterance(r) \in remembered
      BY <3>2, <3>3, <3>5, <3>7
    <3>10. QED
      BY <3>2, <3>3, <3>4, <3>8, <3>9
  <2>28. ASSUME NEW s \in Speaker, StoreMemory(s) PROVE SpeechInv'
    <3>1. /\ remembered' = remembered \cup {Utterance(s)} /\ pc[s] = "store"
          /\ pc' = [pc EXCEPT ![s] = "append"]
          /\ UNCHANGED <<cpc, turnNo, running, floorNo, history, said>>
      BY <2>28 DEF StoreMemory
    <3>2. \A r \in Speaker : Utterance(r)' = Utterance(r)
      BY <3>1
    <3>3. \A r \in Speaker \ {s} : Utterance(r) # Utterance(s) /\ pc'[r] = pc[r]
      BY <3>1
    <3>4. QED
      BY <3>1, <3>2, <3>3
  <2>29. ASSUME NEW s \in Speaker, AppendHistory(s) PROVE SpeechInv'
    <3> DEFINE e == [role |-> "assistant", by |-> s, nr |-> Utterance(s).nr]
    <3>1. e \in Entry /\ history \in Seq(Entry)
      BY DEF Entry, SharedTypes
    <3>2. /\ history' = Trimmed(Append(history, e)) /\ pc[s] = "append"
          /\ pc' = [pc EXCEPT ![s] = "release"]
          /\ UNCHANGED <<cpc, turnNo, running, floorNo, said, remembered>>
      BY <2>29 DEF AppendHistory
    <3>3. [speaker |-> e.by, nr |-> e.nr] \in remembered
      BY <3>2
    <3>4. \A i \in DOMAIN history' :
            history'[i].role = "assistant"
              => [speaker |-> history'[i].by, nr |-> history'[i].nr] \in remembered
      <4> HIDE DEF e
      <4>1. \A i \in DOMAIN history' :
              history'[i] = e \/ \E j \in DOMAIN history : history'[i] = history[j]
        BY <3>1, <3>2, TrimmedEntries
      <4>2. QED
        BY <3>3, <4>1
    <3>5. QED
      BY <3>2, <3>4
  <2>30. ASSUME NEW s \in Speaker, Release(s) PROVE SpeechInv'
    BY <2>30 DEF Release
  <2>31. ASSUME NEW s \in Speaker, StorageThrows(s) PROVE SpeechInv'
    BY <2>31 DEF StorageThrows
  <2>32. CASE UNCHANGED vars
    BY <2>32
  <2>33. QED
    BY <2>1, <2>2, <2>3, <2>4, <2>5, <2>6, <2>7, <2>8, <2>9, <2>10, <2>11,
       <2>12, <2>13, <2>14, <2>15, <2>16, <2>17, <2>18, <2>19, <2>20, <2>21,
       <2>22, <2>23, <2>24, <2>25, <2>26, <2>27, <2>28, <2>29, <2>30, <2>31,
       <2>32 DEF Next, Quiet, BeginSteps, CloseSteps, TurnSteps, FloorSteps,
       Finalize, Speaker

\* Withheld text and undelivered text reach neither the memory nor the
\* transcript.
THEOREM KeptOnlyIfDelivered == Spec => []OnlyDeliveredIsKept
<1>1. SpeechInv => OnlyDeliveredIsKept
  BY DEF SpeechInv, OnlyDeliveredIsKept
<1>2. QED
  BY <1>1, SpeechInitially, SpeechStep, TypeCorrect, PTL DEF Spec

\* The driver implements the speech contract: each utterance is delivered at most
\* once and remembered at most once, after a delivery that was inside.
THEOREM ImplementsContract == Spec => KeepsContract
<1>1. Init => Contract!Init
  BY DEF Init, Contract!Init
<1>2. TypeOK /\ SpeechInv /\ [Next \/ Quiet]_vars
        => [Contract!Deliver \/ Contract!Remember]_<<said, remembered>>
  <2> DEFINE Kept == [Contract!Deliver \/ Contract!Remember]_<<said, remembered>>
  <2> SUFFICES ASSUME TypeOK, SpeechInv, [Next \/ Quiet]_vars PROVE Kept
    OBVIOUS
  <2> USE DEF vars, control, shared, window, speech, aux
  <2>1. CASE AttachModel
    BY <2>1 DEF AttachModel
  <2>2. CASE BeginTurn
    BY <2>2 DEF BeginTurn
  <2>3. CASE InstallTurn
    BY <2>3 DEF InstallTurn
  <2>4. CASE CrossWindow
    BY <2>4 DEF CrossWindow
  <2>5. CASE StoreClaim
    BY <2>5 DEF StoreClaim
  <2>6. CASE SpawnTurn
    BY <2>6 DEF SpawnTurn
  <2>7. CASE StopTurn
    BY <2>7 DEF StopTurn
  <2>8. CASE DropObservers
    BY <2>8 DEF DropObservers
  <2>9. CASE StopForClose
    BY <2>9 DEF StopForClose
  <2>10. CASE JoinTurn
    BY <2>10 DEF JoinTurn
  <2>11. CASE StopWindow \/ NotifyWindow
    BY <2>11 DEF StopWindow, NotifyWindow
  <2>12. CASE JoinWindow
    BY <2>12 DEF JoinWindow
  <2>13. CASE WindowElapses
    BY <2>13 DEF WindowElapses
  <2>14. CASE StartLoop
    BY <2>14 DEF StartLoop
  <2>15. CASE LoopTest
    BY <2>15 DEF LoopTest
  <2>16. CASE ClassifyTurn
    BY <2>16 DEF ClassifyTurn
  <2>17. CASE RunTool
    BY <2>17 DEF RunTool
  <2>18. CASE WindowTest \/ WindowWaits
    BY <2>18 DEF WindowTest, WindowWaits
  <2>19. CASE Rotate
    BY <2>19 DEF Rotate
  <2>20. CASE WindowWakes
    BY <2>20 DEF WindowWakes
  <2>21. CASE ClaimFloor
    BY <2>21 DEF ClaimFloor
  <2>22. CASE ClassifyFloor
    BY <2>22 DEF ClassifyFloor
  <2>23. ASSUME NEW s \in Speaker, Prompt(s) PROVE Kept
    BY <2>23 DEF Prompt
  <2>24. ASSUME NEW s \in Speaker, Stream(s) PROVE Kept
    BY <2>24 DEF Stream
  <2>25. ASSUME NEW s \in Speaker, Gate(s) PROVE Kept
    BY <2>25 DEF Gate
  <2>26. ASSUME NEW s \in Speaker, CopyCallbacks(s) PROVE Kept
    BY <2>26 DEF CopyCallbacks
  <2>27. ASSUME NEW s \in Speaker, Deliver(s) PROVE Kept
    <3> DEFINE d == [utterance |-> Utterance(s), verdict |-> verdict[s],
                     to |-> target[s]]
    <3>1. /\ said \in Seq(Delivery) /\ said' = Append(said, d)
          /\ UNCHANGED remembered /\ pc[s] = "invoke"
      BY <2>27 DEF Deliver, TypeOK, SpeechTypes
    <3>2. /\ d.utterance = Utterance(s) /\ d.verdict = verdict[s] /\ d.to = target[s]
          /\ d.verdict \in {"inside", "withheld"} /\ d.to \in Nat
          /\ d.utterance \in [speaker : Speaker, nr : Nat]
      BY <3>1 DEF TypeOK, SpeechTypes, ControlTypes, Utterance
    <3>3. d.utterance \notin Contract!Delivered
      BY <3>1, <3>2 DEF SpeechInv, DoorPC
    <3> HIDE DEF d
    <3>4. Len(said') = Len(said) + 1 /\ said'[Len(said) + 1] = d
      BY <3>1
    <3>5. Contract!Deliver
      BY <3>1, <3>2, <3>3, <3>4 DEF Contract!Deliver
    <3>6. QED
      BY <3>5
  <2>28. ASSUME NEW s \in Speaker, StoreMemory(s) PROVE Kept
    <3>1. Utterance(s) \in Contract!Spoken \ remembered
      BY <2>28 DEF StoreMemory, SpeechInv
    <3>2. remembered' = remembered \cup {Utterance(s)} /\ UNCHANGED said
      BY <2>28 DEF StoreMemory
    <3>3. Contract!Remember
      BY <3>1, <3>2 DEF Contract!Remember
    <3>4. QED
      BY <3>3
  <2>29. ASSUME NEW s \in Speaker, AppendHistory(s) PROVE Kept
    BY <2>29 DEF AppendHistory
  <2>30. ASSUME NEW s \in Speaker, Release(s) PROVE Kept
    BY <2>30 DEF Release
  <2>31. ASSUME NEW s \in Speaker, StorageThrows(s) PROVE Kept
    BY <2>31 DEF StorageThrows
  <2>32. CASE UNCHANGED vars
    BY <2>32
  <2>33. QED
    BY <2>1, <2>2, <2>3, <2>4, <2>5, <2>6, <2>7, <2>8, <2>9, <2>10, <2>11,
       <2>12, <2>13, <2>14, <2>15, <2>16, <2>17, <2>18, <2>19, <2>20, <2>21,
       <2>22, <2>23, <2>24, <2>25, <2>26, <2>27, <2>28, <2>29, <2>30, <2>31,
       <2>32 DEF Next, Quiet, BeginSteps, CloseSteps, TurnSteps, FloorSteps,
       Finalize, Speaker
<1>3. QED
  BY <1>1, <1>2, SpeechInitially, SpeechStep, TypeCorrect, PTL
     DEF Spec, KeepsContract, Contract!Spec

-------------------------------------------------------------------------------
(* The stop flag and the callbacks of a user turn.                          *)

\* A stop that is up while the user turn holds the door was asked of it, for
\* begin_turn lowers the flag before the thread exists and no stop_turn fits in
\* between; no tool counts against a turn that was asked nothing.
StopInv ==
  /\ asked["user"] => Holding("user")
  /\ ~asked["user"] => toolsAfterStop = 0
  /\ cpc \in {"installed", "windowed", "claimed"}
       => ~turn_stop /\ turn_callbacks = turnNo
  /\ (Holding("user") /\ turn_stop) => asked["user"]

\* While no claim was stolen begin_turn runs over no user turn, so neither the
\* flag nor the callbacks of a running turn are replaced under it: an asked stop
\* stays up, and the turn reads its own callbacks or none.
OwnTurnInv ==
  ~stolen =>
    /\ cpc \in {"checked", "installed", "windowed"} => ~Holding("user")
    /\ asked["user"] => turn_stop
    /\ pc["user"] = "tool" => toolsAfterStop = 0
    /\ toolsAfterStop <= 1
    /\ Holding("user") => turn_callbacks \in {0, running}
    /\ pc["user"] = "invoke" => target["user"] \in {0, running}

\* A turn's stop and callbacks start out as its own.
LEMMA OwnTurnInitially == Init => StopInv /\ OwnTurnInv
  BY DEF Init, StopInv, OwnTurnInv, Holding, DoorPC, Speaker

\* Every step of the caller, the turn thread and the window thread keeps them
\* so.  begin_turn's steps are the ones Exclusion is needed for.
LEMMA OwnTurnStep ==
  TypeOK /\ Exclusion /\ StopInv /\ OwnTurnInv /\ [Next \/ Quiet]_vars
    => StopInv' /\ OwnTurnInv'
<1> SUFFICES ASSUME TypeOK, Exclusion, StopInv, OwnTurnInv, [Next \/ Quiet]_vars
             PROVE  StopInv' /\ OwnTurnInv'
  OBVIOUS
<1>0. /\ toolsAfterStop \in Nat /\ turnNo \in Nat /\ running \in Nat
      /\ turn_callbacks \in Nat /\ target \in [Speaker -> Nat]
      /\ asked \in [Speaker -> BOOLEAN]
      /\ turn_stop \in BOOLEAN /\ turn_active \in BOOLEAN
      /\ pc \in [Speaker -> ThreadPC]
  BY DEF TypeOK, ControlTypes, SharedTypes, SpeechTypes, AuxTypes
<1> USE <1>0 DEF StopInv, OwnTurnInv, Exclusion, OneSpeaker, Holding, DoorPC,
                 Speaker, Goto, vars, control, shared, window, speech, aux
<1>1. CASE AttachModel
  BY <1>1 DEF AttachModel
<1>2. CASE BeginTurn
  BY <1>2 DEF BeginTurn
<1>3. CASE InstallTurn
  BY <1>3 DEF InstallTurn
<1>4. CASE CrossWindow
  BY <1>4 DEF CrossWindow
<1>5. CASE StoreClaim
  BY <1>5 DEF StoreClaim
<1>6. CASE SpawnTurn
  BY <1>6 DEF SpawnTurn
<1>7. CASE StopTurn
  BY <1>7 DEF StopTurn
<1>8. CASE DropObservers
  BY <1>8 DEF DropObservers
<1>9. CASE StopForClose
  BY <1>9 DEF StopForClose
<1>10. CASE JoinTurn \/ StopWindow \/ NotifyWindow \/ JoinWindow
  BY <1>10 DEF JoinTurn, StopWindow, NotifyWindow, JoinWindow
<1>11. CASE StartLoop
  BY <1>11 DEF StartLoop
<1>12. CASE LoopTest
  BY <1>12 DEF LoopTest
<1>13. CASE ClassifyTurn
  BY <1>13 DEF ClassifyTurn
<1>14. CASE RunTool
  BY <1>14 DEF RunTool
<1>15. CASE WindowElapses
  BY <1>15 DEF WindowElapses
<1>16. CASE WindowTest \/ WindowWaits \/ Rotate \/ WindowWakes
  BY <1>16 DEF WindowTest, WindowWaits, Rotate, WindowWakes
<1>17. CASE ClaimFloor
  BY <1>17 DEF ClaimFloor
<1>18. CASE ClassifyFloor
  BY <1>18 DEF ClassifyFloor
<1>19. ASSUME NEW s \in Speaker, Prompt(s) PROVE StopInv' /\ OwnTurnInv'
  BY <1>19 DEF Prompt
<1>20. ASSUME NEW s \in Speaker, Stream(s) PROVE StopInv' /\ OwnTurnInv'
  BY <1>20 DEF Stream
<1>21. ASSUME NEW s \in Speaker, Gate(s) PROVE StopInv' /\ OwnTurnInv'
  BY <1>21 DEF Gate
<1>22. ASSUME NEW s \in Speaker, CopyCallbacks(s) PROVE StopInv' /\ OwnTurnInv'
  BY <1>22 DEF CopyCallbacks
<1>23. ASSUME NEW s \in Speaker, Deliver(s) PROVE StopInv' /\ OwnTurnInv'
  BY <1>23 DEF Deliver
<1>24. ASSUME NEW s \in Speaker, StoreMemory(s) PROVE StopInv' /\ OwnTurnInv'
  BY <1>24 DEF StoreMemory
<1>25. ASSUME NEW s \in Speaker, AppendHistory(s) PROVE StopInv' /\ OwnTurnInv'
  BY <1>25 DEF AppendHistory
<1>26. ASSUME NEW s \in Speaker, Release(s) PROVE StopInv' /\ OwnTurnInv'
  BY <1>26 DEF Release
<1>27. ASSUME NEW s \in Speaker, StorageThrows(s) PROVE StopInv' /\ OwnTurnInv'
  BY <1>27 DEF StorageThrows
<1>28. CASE UNCHANGED vars
  BY <1>28
<1>29. QED
  BY <1>1, <1>2, <1>3, <1>4, <1>5, <1>6, <1>7, <1>8, <1>9, <1>10, <1>11,
     <1>12, <1>13, <1>14, <1>15, <1>16, <1>17, <1>18, <1>19, <1>20, <1>21,
     <1>22, <1>23, <1>24, <1>25, <1>26, <1>27, <1>28
     DEF Next, Quiet, BeginSteps, CloseSteps, TurnSteps, FloorSteps, Finalize

\* stop_turn reaches the turn that runs when it is called and no later one: the
\* flag over a running user turn was raised while that turn held the door, even
\* after a stolen claim.
THEOREM StopIsForThisTurn == Spec => []StopReachesItsOwnTurn
<1>1. StopInv => StopReachesItsOwnTurn
  BY DEF StopInv, StopReachesItsOwnTurn
<1>2. QED
  BY <1>1, OwnTurnInitially, OwnTurnStep, TypeCorrect, DoorExcludes, PTL DEF Spec

\* While no claim was stolen, a stop lets at most one further tool run, the call
\* run_turn_loop had already read from the reply.
THEOREM StopHaltsTools == Spec => []StopBoundsTools
<1>1. OwnTurnInv => StopBoundsTools
  BY DEF OwnTurnInv, StopBoundsTools
<1>2. QED
  BY <1>1, OwnTurnInitially, OwnTurnStep, TypeCorrect, DoorExcludes, PTL DEF Spec

\* While no claim was stolen, each delivery of a user turn goes to the callbacks
\* its own begin_turn installed, or to none after the destructor dropped them.
THEOREM ReplyReachesItsAsker == Spec => []RepliesToItsOwnTurn
<1>1. Init => RepliesToItsOwnTurn
  BY DEF Init, RepliesToItsOwnTurn
<1>2. TypeOK /\ OwnTurnInv /\ RepliesToItsOwnTurn /\ [Next \/ Quiet]_vars
        => RepliesToItsOwnTurn'
  <2> SUFFICES ASSUME TypeOK, OwnTurnInv, RepliesToItsOwnTurn,
                      [Next \/ Quiet]_vars
               PROVE  RepliesToItsOwnTurn'
    OBVIOUS
  <2>1. stolen => stolen'
    BY DEF Next, Quiet, BeginSteps, CloseSteps, TurnSteps, FloorSteps, Finalize,
       AttachModel, BeginTurn, InstallTurn, CrossWindow, StoreClaim, SpawnTurn,
       StopTurn, DropObservers, StopForClose, JoinTurn, StopWindow, NotifyWindow,
       JoinWindow, StartLoop, LoopTest, ClassifyTurn, RunTool, WindowElapses,
       WindowTest, WindowWaits, Rotate, WindowWakes, ClaimFloor, ClassifyFloor,
       Prompt, Stream, Gate,
       CopyCallbacks, Deliver, StoreMemory, AppendHistory, Release,
       StorageThrows, vars, aux
  <2>2. ASSUME NEW s \in Speaker, Deliver(s) PROVE RepliesToItsOwnTurn'
    <3> DEFINE d == [utterance |-> Utterance(s), verdict |-> verdict[s],
                     to |-> target[s]]
    <3>1. said \in Seq(Delivery) /\ said' = Append(said, d) /\ pc[s] = "invoke"
      BY <2>2 DEF Deliver, TypeOK, SpeechTypes
    <3>2. /\ Len(said) \in Nat /\ DOMAIN said = 1..Len(said)
          /\ DOMAIN said' = 1..(Len(said) + 1)
          /\ \A i \in 1..Len(said) : said'[i] = said[i]
          /\ said'[Len(said) + 1] = d
      BY <3>1
    <3>3. (d.utterance.speaker = "user" /\ ~stolen)
            => d.to \in {0, d.utterance.nr}
      BY <3>1 DEF OwnTurnInv, Utterance
    <3> HIDE DEF d
    <3>4. QED
      BY <2>1, <3>2, <3>3 DEF RepliesToItsOwnTurn
  <2>3. said' = said => RepliesToItsOwnTurn'
    BY <2>1 DEF RepliesToItsOwnTurn
  <2>4. said' = said \/ \E s \in Speaker : Deliver(s)
    BY DEF Next, Quiet, BeginSteps, CloseSteps, TurnSteps, FloorSteps, Finalize,
       AttachModel, BeginTurn, InstallTurn, CrossWindow, StoreClaim, SpawnTurn,
       StopTurn, DropObservers, StopForClose, JoinTurn, StopWindow, NotifyWindow,
       JoinWindow, StartLoop, LoopTest, ClassifyTurn, RunTool, WindowElapses,
       WindowTest, WindowWaits, Rotate, WindowWakes, ClaimFloor, ClassifyFloor,
       Prompt, Stream, Gate,
       CopyCallbacks, StoreMemory, AppendHistory, Release,
       StorageThrows, Speaker, vars, aux, speech
  <2>5. QED
    BY <2>2, <2>3, <2>4
<1>3. QED
  BY <1>1, <1>2, OwnTurnInitially, OwnTurnStep, TypeCorrect, DoorExcludes, PTL
     DEF Spec

(* The two safety properties a run checks as wholes, from their parts.       *)

\* The door of begin_turn and run_voluntary_turn: no second speaker unless a
\* claim was stolen, and no claim nobody will lower.
THEOREM DoorIsKept == Spec => []DoorKept
BY MutualExclusion, NoLostRelease, PTL DEF DoorKept

\* The transcript that finalize_turn writes: her side is what was delivered and
\* stored, and its length is accounted for.
THEOREM TranscriptIsKept == Spec => []TranscriptKept
BY KeptOnlyIfDelivered, TranscriptBounded, PTL DEF TranscriptKept
===============================================================================
