------------------------ MODULE BasicSimulationProofs ------------------------
(***************************************************************************)
(* Proofs about the life of a simulation process, for any programs whose   *)
(* components write files of their own, any configurations, any number of  *)
(* runs and a kill between any two operations on files.                    *)
(***************************************************************************)
EXTENDS BasicSimulation, TLAPS

Operation == [op : {"remove", "open", "close"}, file : File, content : Content]
Pair == [content : Content, run : Nat]

(* What is still to do of a fixed list of operations. *)
Rest(list, k, n) == [i \in 1..(n - k + 1) |-> list[i + k - 1]]

Preparation == <<Remove(Finished), Remove(TimingTxt), Remove(TimingCsv),
                 Open(Finished), Close(Finished, "No")>>
Finalization == <<Open(TimingTxt), Open(TimingCsv), Complete(TimingTxt), Complete(TimingCsv),
                  Open(Finished), Close(Finished, "Yes")>>

TypeInv ==
    /\ files \in [File -> Pair] /\ run \in Nat
    /\ phase \in Phase /\ program \in Programs
    /\ todo \in Seq(Operation) /\ rest \in Seq(Components)
    /\ SetOf(rest) \subseteq SetOf(program.construct)
    /\ enabled \subseteq SetOf(program.construct)

SimulatedFiles(r) ==
    \E s \in simulated : s.run = r /\ \A c \in s.enabled : \A f \in Files(c) : OfRun(f, r)
YesInv == Answer.content = "Yes" =>
    /\ OfRun(TimingTxt, Answer.run) /\ OfRun(TimingCsv, Answer.run)
    /\ SimulatedFiles(Answer.run)

Foreign(ops) == \A i \in DOMAIN ops : ops[i].file \notin OwnFiles

(* Every file touched is completed by a later operation, and a file of a   *)
(* component whose turn has come is complete or will be.                   *)
Completing(ops) ==
    \A i \in DOMAIN ops : \E j \in DOMAIN ops : i <= j /\ ops[j] = Complete(ops[i].file)
Promised(f, ops) == OfRun(f, run) \/ \E i \in DOMAIN ops : ops[i] = Complete(f)
ResultsPromised ==
    \A c \in enabled : c \in SetOf(rest) \/ \A f \in Files(c) : Promised(f, todo)
HasSimulated == [run |-> run, enabled |-> enabled] \in simulated

(* How far each phase has come. *)
IdleInv ==
    /\ phase \in {"none", "reading", "configuring", "running"} => todo = <<>>
    /\ phase = "none" => rest = <<>> /\ enabled = {}
PreparingInv == phase = "preparing" =>
    \E k \in 1..6 : /\ todo = Rest(Preparation, k, 5)
                    /\ k > 1 => Answer.content # "Yes"
ConstructingInv == phase = "constructing" => Answer.content # "Yes" /\ Foreign(todo)
RunningInv == phase = "running" => Answer.content # "Yes"
HangingInv == phase = "hanging" => Answer.content # "Yes" /\ Foreign(todo)
WritingInv == phase = "writing" =>
    /\ Answer.content # "Yes" /\ Foreign(todo) /\ Completing(todo)
    /\ ResultsPromised /\ HasSimulated
FinalizingInv == phase = "finalizing" =>
    \E k \in 1..7 : /\ todo = Rest(Finalization, k, 6)
                    /\ k <= 6 => Answer.content # "Yes"
                    /\ k >= 4 => OfRun(TimingTxt, run)
                    /\ k >= 5 => OfRun(TimingCsv, run)
                    /\ HasSimulated /\ \A c \in enabled : \A f \in Files(c) : OfRun(f, run)

PhaseInv ==
    /\ IdleInv /\ PreparingInv /\ ConstructingInv /\ RunningInv /\ HangingInv
    /\ WritingInv /\ FinalizingInv
IInv == TypeInv /\ YesInv /\ PhaseInv
-----------------------------------------------------------------------------
(* Facts about the operations. *)
LEMMA OperationTypes ==
    ASSUME NEW f \in File, NEW t \in Content
    PROVE  /\ Remove(f) \in Operation /\ Open(f) \in Operation
           /\ Close(f, t) \in Operation /\ Complete(f) \in Operation
BY DEF Remove, Open, Close, Complete, Operation, Content

LEMMA OwnFilesAreFiles ==
    /\ OwnFiles \subseteq File
    /\ Finished \in File /\ TimingTxt \in File /\ TimingCsv \in File
    /\ Finished # TimingTxt /\ Finished # TimingCsv /\ TimingTxt # TimingCsv
BY DEF OwnFiles, File, Finished, TimingTxt, TimingCsv

LEMMA ComponentFiles ==
    ASSUME NEW c \in Components
    PROVE  /\ Files(c) \subseteq File /\ SetOf(c.removes) \subseteq File
           /\ OwnFiles \cap Files(c) = {} /\ OwnFiles \cap SetOf(c.removes) = {}
           /\ c.writes \in Seq(Files(c)) /\ c.removes \in Seq(SetOf(c.removes))
<1>1. Files(c) \subseteq File /\ SetOf(c.removes) \subseteq File
  BY DEF File, Results
<1>2. OwnFiles \cap (Files(c) \cup SetOf(c.removes)) = {} BY ProgramAssumption
<1>3. c.writes \in Seq(Files(c)) /\ c.removes \in Seq(SetOf(c.removes)) BY ProgramAssumption
<1> QED BY <1>1, <1>2, <1>3

LEMMA ConstructedAreComponents ==
    ASSUME NEW p \in Programs
    PROVE  /\ SetOf(p.construct) \subseteq Components /\ SetOf(p.results) \subseteq SetOf(p.construct)
           /\ p.construct \in Seq(Components) /\ p.results \in Seq(Components)
<1>1. SetOf(p.construct) \subseteq Components BY DEF Components
<1>2. /\ p.construct \in Seq(SetOf(p.construct)) /\ p.results \in Seq(SetOf(p.results))
      /\ SetOf(p.results) \subseteq SetOf(p.construct)
  BY ProgramAssumption
<1>3. \A S, T : S \subseteq T => Seq(S) \subseteq Seq(T) OBVIOUS
<1> QED BY <1>1, <1>2, <1>3

(* Sequences, and what is left of a list after one more operation. *)
LEMMA SameSequence ==
    ASSUME NEW S, NEW s \in Seq(S), NEW t \in Seq(S), Len(s) = Len(t),
           \A i \in 1..Len(s) : s[i] = t[i]
    PROVE  s = t
OBVIOUS

LEMMA TailFacts ==
    ASSUME NEW S, NEW s \in Seq(S), s # <<>>
    PROVE  /\ Head(s) = s[1] /\ Head(s) \in S /\ Tail(s) \in Seq(S)
           /\ Len(s) \in Nat \ {0} /\ Len(Tail(s)) = Len(s) - 1
           /\ \A i \in 1..(Len(s) - 1) : Tail(s)[i] = s[i + 1]
           /\ DOMAIN s = 1..Len(s) /\ DOMAIN Tail(s) = 1..(Len(s) - 1)
OBVIOUS

LEMMA RestFacts ==
    ASSUME NEW list \in Seq(Operation), NEW n \in Nat, n = Len(list), NEW k \in 1..(n + 1)
    PROVE  /\ Rest(list, k, n) \in Seq(Operation)
           /\ Rest(list, 1, n) = list
           /\ k <= n => /\ Rest(list, k, n) # <<>>
                        /\ Head(Rest(list, k, n)) = list[k]
                        /\ Tail(Rest(list, k, n)) = Rest(list, k + 1, n)
           /\ k = n + 1 => Rest(list, k, n) = <<>>
<1>1. ASSUME NEW j \in 1..(n + 1)
      PROVE  /\ Rest(list, j, n) \in Seq(Operation) /\ Len(Rest(list, j, n)) = n - j + 1
             /\ \A i \in 1..(n - j + 1) : Rest(list, j, n)[i] = list[i + j - 1]
  <2>1. \A i \in 1..(n - j + 1) : list[i + j - 1] \in Operation OBVIOUS
  <2>2. Rest(list, j, n) \in [1..(n - j + 1) -> Operation] BY <2>1 DEF Rest
  <2>3. n - j + 1 \in Nat OBVIOUS
  <2> QED BY <2>2, <2>3 DEF Rest
<1>2. Rest(list, 1, n) = list
  <2>1. 1 \in 1..(n + 1) /\ n - 1 + 1 = n /\ \A i \in 1..n : i + 1 - 1 = i OBVIOUS
  <2> QED BY <1>1, <2>1, SameSequence
<1>3. ASSUME k <= n
      PROVE  /\ Rest(list, k, n) # <<>> /\ Head(Rest(list, k, n)) = list[k]
             /\ Tail(Rest(list, k, n)) = Rest(list, k + 1, n)
  <2> DEFINE r == Rest(list, k, n)
             q == Rest(list, k + 1, n)
  <2>1. /\ r \in Seq(Operation) /\ Len(r) = n - k + 1
        /\ \A i \in 1..(n - k + 1) : r[i] = list[i + k - 1]
    BY <1>1
  <2>2. k + 1 \in 1..(n + 1) /\ n - (k + 1) + 1 = n - k
        /\ \A i \in 1..(n - k) : i + (k + 1) - 1 = i + k
    BY <1>3
  <2>3. q \in Seq(Operation) /\ Len(q) = n - k /\ \A i \in 1..(n - k) : q[i] = list[i + k]
    BY <1>1, <2>2
  <2> HIDE DEF r, q
  <2>4. r # <<>> BY <2>1, <1>3
  <2>5. /\ Head(r) = r[1] /\ Tail(r) \in Seq(Operation) /\ Len(Tail(r)) = Len(r) - 1
        /\ \A i \in 1..(Len(r) - 1) : Tail(r)[i] = r[i + 1]
    BY <2>1, <2>4, TailFacts
  <2>6. r[1] = list[k] BY <2>1, <1>3
  <2>7. Len(Tail(r)) = n - k BY <2>1, <2>5
  <2>8. ASSUME NEW i \in 1..(n - k) PROVE Tail(r)[i] = q[i]
    <3>1. i \in 1..(Len(r) - 1) /\ i + 1 \in 1..(n - k + 1) /\ (i + 1) + k - 1 = i + k
      BY <2>1
    <3>2. Tail(r)[i] = r[i + 1] BY <2>5, <3>1
    <3>3. r[i + 1] = list[(i + 1) + k - 1] BY <2>1, <3>1
    <3> QED BY <2>3, <3>1, <3>2, <3>3
  <2>9. Tail(r) = q BY <2>3, <2>5, <2>7, <2>8, SameSequence
  <2> QED BY <2>4, <2>5, <2>6, <2>9 DEF r, q
<1>4. k = n + 1 => Rest(list, k, n) = <<>>
  <2>1. k = n + 1 => Len(Rest(list, k, n)) = 0 BY <1>1
  <2> QED BY <1>1, <2>1
<1> QED BY <1>1, <1>2, <1>3, <1>4

LEMMA Lists ==
    /\ Preparation \in Seq(Operation) /\ Len(Preparation) = 5
    /\ Finalization \in Seq(Operation) /\ Len(Finalization) = 6
<1>1. \A f \in OwnFiles : /\ Remove(f) \in Operation /\ Open(f) \in Operation
                          /\ Complete(f) \in Operation
                          /\ Close(f, "No") \in Operation /\ Close(f, "Yes") \in Operation
  BY OperationTypes, OwnFilesAreFiles DEF Content
<1>2. Finished \in OwnFiles /\ TimingTxt \in OwnFiles /\ TimingCsv \in OwnFiles BY DEF OwnFiles
<1> QED BY <1>1, <1>2 DEF Preparation, Finalization

(* Two explicit lists, one after the other. *)
LEMMA JoinIs ==
    ASSUME NEW S, NEW s \in Seq(S), NEW t \in Seq(S), NEW w \in Seq(S),
           Len(w) = Len(s) + Len(t),
           \A i \in 1..Len(s) : w[i] = s[i],
           \A i \in 1..Len(t) : w[Len(s) + i] = t[i]
    PROVE  s \o t = w
<1>1. /\ s \o t \in Seq(S) /\ Len(s \o t) = Len(s) + Len(t)
      /\ \A i \in 1..Len(s) : (s \o t)[i] = s[i]
      /\ \A i \in 1..Len(t) : (s \o t)[Len(s) + i] = t[i]
  OBVIOUS
<1>2. ASSUME NEW i \in 1..Len(w) PROVE (s \o t)[i] = w[i]
  <2>1. Len(s) \in Nat /\ Len(t) \in Nat OBVIOUS
  <2>2. i \in 1..Len(s) \/ (i - Len(s) \in 1..Len(t) /\ i = Len(s) + (i - Len(s))) BY <2>1
  <2> QED BY <1>1, <2>2
<1> QED BY <1>1, <1>2, SameSequence

LEMMA JoinThree ==
    ASSUME NEW a, NEW b, NEW c, NEW x, NEW y
    PROVE  <<a, b, c>> \o <<x, y>> = <<a, b, c, x, y>>
<1> DEFINE T == {a, b, c, x, y}
           l == <<a, b, c>>
           r == <<x, y>>
           w == <<a, b, c, x, y>>
<1>1. l \in Seq(T) /\ Len(l) = 3 OBVIOUS
<1>2. r \in Seq(T) /\ Len(r) = 2 OBVIOUS
<1>3. w \in Seq(T) /\ Len(w) = 5 OBVIOUS
<1>4. l[1] = a /\ l[2] = b /\ l[3] = c OBVIOUS
<1>5. r[1] = x /\ r[2] = y OBVIOUS
<1>6. w[1] = a /\ w[2] = b /\ w[3] = c /\ w[4] = x /\ w[5] = y OBVIOUS
<1> HIDE DEF T, l, r, w
<1>7. ASSUME NEW i \in 1..Len(l) PROVE w[i] = l[i]
  <2>1. i = 1 \/ i = 2 \/ i = 3 BY <1>1
  <2> QED BY <2>1, <1>4, <1>6
<1>8. ASSUME NEW i \in 1..Len(r) PROVE w[Len(l) + i] = r[i]
  <2>1. i = 1 \/ i = 2 BY <1>2
  <2>2. Len(l) + 1 = 4 /\ Len(l) + 2 = 5 BY <1>1
  <2> QED BY <2>1, <2>2, <1>5, <1>6
<1>9. Len(w) = Len(l) + Len(r) BY <1>1, <1>2, <1>3
<1>10. l \o r = w
  <2>1. l \in Seq(T) /\ r \in Seq(T) /\ w \in Seq(T) BY <1>1, <1>2, <1>3
  <2> QED BY ONLY <2>1, <1>7, <1>8, <1>9, JoinIs
<1> QED BY <1>10 DEF l, r, w

LEMMA JoinFour ==
    ASSUME NEW a, NEW b, NEW c, NEW d, NEW x, NEW y
    PROVE  <<a, b, c, d>> \o <<x, y>> = <<a, b, c, d, x, y>>
<1> DEFINE T == {a, b, c, d, x, y}
           l == <<a, b, c, d>>
           r == <<x, y>>
           w == <<a, b, c, d, x, y>>
<1>1. l \in Seq(T) /\ Len(l) = 4 OBVIOUS
<1>2. r \in Seq(T) /\ Len(r) = 2 OBVIOUS
<1>3. w \in Seq(T) /\ Len(w) = 6 OBVIOUS
<1>4. l[1] = a /\ l[2] = b /\ l[3] = c /\ l[4] = d OBVIOUS
<1>5. r[1] = x /\ r[2] = y OBVIOUS
<1>6. w[1] = a /\ w[2] = b /\ w[3] = c /\ w[4] = d /\ w[5] = x /\ w[6] = y OBVIOUS
<1> HIDE DEF T, l, r, w
<1>7. ASSUME NEW i \in 1..Len(l) PROVE w[i] = l[i]
  <2>1. i = 1 \/ i = 2 \/ i = 3 \/ i = 4 BY <1>1
  <2> QED BY <2>1, <1>4, <1>6
<1>8. ASSUME NEW i \in 1..Len(r) PROVE w[Len(l) + i] = r[i]
  <2>1. i = 1 \/ i = 2 BY <1>2
  <2>2. Len(l) + 1 = 5 /\ Len(l) + 2 = 6 BY <1>1
  <2> QED BY <2>1, <2>2, <1>5, <1>6
<1>9. Len(w) = Len(l) + Len(r) BY <1>1, <1>2, <1>3
<1>10. l \o r = w
  <2>1. l \in Seq(T) /\ r \in Seq(T) /\ w \in Seq(T) BY <1>1, <1>2, <1>3
  <2> QED BY ONLY <2>1, <1>7, <1>8, <1>9, JoinIs
<1> QED BY <1>10 DEF l, r, w
-----------------------------------------------------------------------------
(* A step that leaves the files alone leaves what Yes stands for alone. *)
LEMMA YesKept ==
    ASSUME YesInv, files' = files, simulated \subseteq simulated'
    PROVE  YesInv'
BY DEF YesInv, SimulatedFiles, Answer, OfRun

(* While finished.txt says something else there is nothing to keep. *)
LEMMA NoYes == (Answer.content # "Yes")' => YesInv'
BY DEF YesInv

LEMMA GoneKeeps == IInv /\ Gone => IInv'
<1> SUFFICES ASSUME IInv, Gone PROVE IInv' OBVIOUS
<1>1. /\ phase' = "none" /\ todo' = <<>> /\ rest' = <<>> /\ enabled' = {}
      /\ files' = files /\ run' = run /\ program' = program /\ simulated' = simulated
  BY DEF Gone
<1>2. TypeInv'
  <2>1. TypeInv BY DEF IInv
  <2>2. SetOf(rest') = {} BY <1>1 DEF SetOf
  <2> QED BY <1>1, <2>1, <2>2 DEF TypeInv, Phase
<1>3. YesInv' BY <1>1, YesKept DEF IInv
<1>4. PhaseInv'
  BY <1>1 DEF PhaseInv, IdleInv, PreparingInv, ConstructingInv, RunningInv, HangingInv,
              WritingInv, FinalizingInv
<1> QED BY <1>2, <1>3, <1>4 DEF IInv

LEMMA InvariantInitially == Init => IInv
<1> SUFFICES ASSUME Init PROVE IInv OBVIOUS
<1>1. TypeInv
  <2>1. Absent \in Pair BY DEF Absent, Pair, Content
  <2>2. SetOf(<<>>) = {} BY DEF SetOf
  <2> QED BY <2>1, <2>2 DEF TypeInv, Init, Phase
<1>2. YesInv BY OwnFilesAreFiles DEF Init, YesInv, Answer, Absent
<1>3. PhaseInv
  BY DEF Init, PhaseInv, IdleInv, PreparingInv, ConstructingInv, RunningInv, HangingInv,
             WritingInv, FinalizingInv
<1> QED BY <1>1, <1>2, <1>3 DEF IInv

(* What one operation on a file does. *)
LEMMA OperationFacts ==
    ASSUME IInv, FileOperation
    PROVE  /\ todo # <<>> /\ Head(todo) \in Operation /\ Head(todo).file \in File
           /\ todo' = Tail(todo) /\ TypeInv'
           /\ files'[Head(todo).file] = Effect(Head(todo))
           /\ \A f \in File \ {Head(todo).file} : files'[f] = files[f]
           /\ UNCHANGED <<run, phase, program, enabled, rest, simulated>>
<1>1. /\ todo # <<>> /\ files' = [files EXCEPT ![Head(todo).file] = Effect(Head(todo))]
      /\ todo' = Tail(todo)
      /\ UNCHANGED <<run, phase, program, enabled, rest, simulated>>
  BY DEF FileOperation
<1>2. TypeInv BY DEF IInv
<1>3. Head(todo) \in Operation /\ Tail(todo) \in Seq(Operation)
  <2>1. todo \in Seq(Operation) BY <1>2 DEF TypeInv
  <2> QED BY <1>1, <2>1, TailFacts
<1>4. Head(todo).file \in File /\ Head(todo).content \in Content BY <1>3 DEF Operation
<1>5. files \in [File -> Pair] /\ run \in Nat BY <1>2 DEF TypeInv
<1>6. Effect(Head(todo)) \in Pair BY <1>4, <1>5 DEF Effect, Absent, Pair, Content
<1>7. files' \in [File -> Pair] BY <1>1, <1>4, <1>5, <1>6
<1>8. TypeInv' BY <1>1, <1>2, <1>3, <1>7 DEF TypeInv
<1> QED BY <1>1, <1>3, <1>4, <1>5, <1>8

LEMMA PreparingOperation ==
    ASSUME IInv, FileOperation, phase = "preparing"
    PROVE  /\ Answer'.content # "Yes" /\ PreparingInv'
           /\ \A f \in File \ OwnFiles : files'[f] = files[f]
           /\ Answer.content = "Yes" => \A f \in File \ {Finished} : files'[f] = files[f]
<1>1. PICK k \in 1..6 : todo = Rest(Preparation, k, 5) /\ (k > 1 => Answer.content # "Yes")
  BY DEF IInv, PhaseInv, PreparingInv
<1>2. k <= 5 /\ Head(todo) = Preparation[k] /\ Tail(todo) = Rest(Preparation, k + 1, 5)
  <2>1. k # 6
    <3>1. 5 \in Nat /\ 6 \in 1..(5 + 1) /\ 6 = 5 + 1 OBVIOUS
    <3>2. Rest(Preparation, 6, 5) = <<>> BY <3>1, RestFacts, Lists
    <3>3. todo # <<>> BY OperationFacts
    <3> QED BY ONLY <1>1, <3>2, <3>3
  <2>2. k \in 1..5 BY <1>1, <2>1
  <2>3. k \in 1..(5 + 1) /\ k <= 5 /\ 5 \in Nat BY <2>2
  <2>4. /\ Head(Rest(Preparation, k, 5)) = Preparation[k]
        /\ Tail(Rest(Preparation, k, 5)) = Rest(Preparation, k + 1, 5)
    BY ONLY <2>3, RestFacts, Lists
  <2> QED BY ONLY <1>1, <2>3, <2>4
<1>3. /\ Head(todo).file \in OwnFiles
      /\ Head(todo).file = Finished => Effect(Head(todo)).content # "Yes"
      /\ k = 1 => Head(todo).file = Finished
  <2>1. k \in {1, 2, 3, 4, 5} BY <1>2
  <2>2. /\ Preparation[1] = Remove(Finished) /\ Preparation[2] = Remove(TimingTxt)
        /\ Preparation[3] = Remove(TimingCsv) /\ Preparation[4] = Open(Finished)
        /\ Preparation[5] = Close(Finished, "No")
    BY DEF Preparation
  <2> QED BY <1>2, <2>1, <2>2, OwnFilesAreFiles
          DEF Remove, Open, Close, Effect, Absent, OwnFiles
<1>4. Answer'.content # "Yes"
  <2>1. CASE Head(todo).file = Finished BY <1>3, <2>1, OperationFacts DEF Answer
  <2>2. CASE Head(todo).file # Finished
    <3>1. files'[Finished] = files[Finished] BY <2>2, OperationFacts, OwnFilesAreFiles
    <3>2. k > 1 BY <1>3, <2>2
    <3> QED BY <1>1, <3>1, <3>2 DEF Answer
  <2> QED BY <2>1, <2>2
<1>5. PreparingInv'
  <2>1. k + 1 \in 1..6 /\ todo' = Rest(Preparation, k + 1, 5) BY <1>2, OperationFacts
  <2> QED BY <1>4, <2>1 DEF PreparingInv, Answer
<1>6. Answer.content = "Yes" => Head(todo).file = Finished
  <2>1. Answer.content = "Yes" => k = 1 BY <1>1
  <2> QED BY <1>3, <2>1
<1> QED BY <1>3, <1>4, <1>5, <1>6, OperationFacts DEF Answer

LEMMA ConstructingOperation ==
    ASSUME IInv, FileOperation, phase \in {"constructing", "hanging"}
    PROVE  Answer'.content # "Yes" /\ ConstructingInv' /\ HangingInv'
<1>1. Answer.content # "Yes" /\ Foreign(todo) BY DEF IInv, PhaseInv, ConstructingInv, HangingInv
<1>2. todo \in Seq(Operation) BY DEF IInv, TypeInv
<1>3. Head(todo).file \notin OwnFiles /\ Foreign(Tail(todo))
  BY <1>1, <1>2, OperationFacts, TailFacts DEF Foreign
<1>4. files'[Finished] = files[Finished]
  BY <1>3, OperationFacts, OwnFilesAreFiles DEF OwnFiles
<1> QED BY <1>1, <1>3, <1>4, OperationFacts DEF ConstructingInv, HangingInv, Answer

(* The promise is kept: the last operation on a file completes it. *)
LEMMA WritingOperation ==
    ASSUME IInv, FileOperation, phase = "writing"
    PROVE  Answer'.content # "Yes" /\ WritingInv'
<1> DEFINE o == Head(todo)
<1>1. /\ Answer.content # "Yes" /\ Foreign(todo) /\ Completing(todo)
      /\ ResultsPromised /\ HasSimulated
  BY DEF IInv, PhaseInv, WritingInv
<1>2. todo \in Seq(Operation) BY DEF IInv, TypeInv
<1>3. /\ DOMAIN todo = 1..Len(todo) /\ DOMAIN Tail(todo) = 1..(Len(todo) - 1)
      /\ Len(todo) \in Nat \ {0} /\ o = todo[1]
      /\ \A i \in 1..(Len(todo) - 1) : Tail(todo)[i] = todo[i + 1]
  BY <1>2, OperationFacts, TailFacts
<1>4. o.file \notin OwnFiles /\ Foreign(Tail(todo)) BY <1>1, <1>3 DEF Foreign
<1>5. Completing(Tail(todo))
  <2> SUFFICES ASSUME NEW i \in DOMAIN Tail(todo)
               PROVE  \E j \in DOMAIN Tail(todo) :
                          i <= j /\ Tail(todo)[j] = Complete(Tail(todo)[i].file)
    BY DEF Completing
  <2>1. i \in 1..(Len(todo) - 1) /\ i + 1 \in DOMAIN todo /\ Tail(todo)[i] = todo[i + 1]
    BY <1>3
  <2>2. PICK j \in DOMAIN todo : i + 1 <= j /\ todo[j] = Complete(todo[i + 1].file)
    BY <1>1, <2>1 DEF Completing
  <2>3. j - 1 \in 1..(Len(todo) - 1) /\ i <= j - 1 /\ (j - 1) + 1 = j BY <1>3, <2>1, <2>2
  <2>4. Tail(todo)[j - 1] = todo[j] BY <1>3, <2>3
  <2> QED BY <1>3, <2>1, <2>2, <2>3, <2>4
<1>6. \A f \in File : Promised(f, todo) => Promised(f, todo)'
  <2> SUFFICES ASSUME NEW f \in File, Promised(f, todo)
               PROVE  OfRun(f, run)' \/ \E i \in DOMAIN Tail(todo) : Tail(todo)[i] = Complete(f)
    BY OperationFacts DEF Promised
  <2>1. \A j \in DOMAIN todo : j # 1 /\ todo[j] = Complete(f) =>
            \E i \in DOMAIN Tail(todo) : Tail(todo)[i] = Complete(f)
    <3> SUFFICES ASSUME NEW j \in DOMAIN todo, j # 1, todo[j] = Complete(f)
                 PROVE  \E i \in DOMAIN Tail(todo) : Tail(todo)[i] = Complete(f)
      OBVIOUS
    <3>1. j - 1 \in 1..(Len(todo) - 1) /\ (j - 1) + 1 = j BY <1>3
    <3>2. Tail(todo)[j - 1] = todo[j] BY <1>3, <3>1
    <3> QED BY <1>3, <3>1, <3>2
  <2>2. CASE f = o.file
    <3>1. 1 \in DOMAIN todo BY <1>3
    <3>2. PICK j \in DOMAIN todo : todo[j] = Complete(todo[1].file)
      BY <1>1, <3>1 DEF Completing
    <3>3. CASE j # 1 BY <1>3, <2>1, <2>2, <3>2, <3>3
    <3>4. CASE j = 1
      <4>1. o = Complete(f) BY <1>3, <2>2, <3>2, <3>4
      <4>2. Effect(o) = [content |-> "complete", run |-> run]
        BY <4>1 DEF Complete, Close, Effect
      <4> QED BY <2>2, <4>2, OperationFacts DEF OfRun
    <3> QED BY <3>3, <3>4
  <2>3. CASE f # o.file
    <3>1. files'[f] = files[f] BY <2>3, OperationFacts
    <3>2. CASE OfRun(f, run) BY <3>1, <3>2, OperationFacts DEF OfRun
    <3>3. ASSUME NEW j \in DOMAIN todo, todo[j] = Complete(f)
          PROVE  \E i \in DOMAIN Tail(todo) : Tail(todo)[i] = Complete(f)
      <4>1. todo[j].file = f BY <3>3 DEF Complete, Close
      <4>2. j # 1 BY <1>3, <2>3, <4>1
      <4> QED BY <2>1, <3>3, <4>2
    <3> QED BY <3>2, <3>3 DEF Promised
  <2> QED BY <2>2, <2>3
<1>7. ResultsPromised'
  <2> SUFFICES ASSUME NEW c \in enabled', c \notin SetOf(rest'), NEW f \in Files(c)
               PROVE  Promised(f, todo)'
    BY DEF ResultsPromised
  <2>1. c \in enabled /\ c \notin SetOf(rest) BY OperationFacts
  <2>2. Promised(f, todo) BY <1>1, <2>1 DEF ResultsPromised
  <2>3. f \in File
    <3>1. c \in Components
      BY <2>1, ConstructedAreComponents DEF IInv, TypeInv
    <3> QED BY <3>1, ComponentFiles
  <2> QED BY <1>6, <2>2, <2>3
<1>8. files'[Finished] = files[Finished]
  BY <1>4, OperationFacts, OwnFilesAreFiles DEF OwnFiles
<1>9. HasSimulated' BY <1>1, OperationFacts DEF HasSimulated
<1>10. /\ (Answer.content # "Yes")' /\ Foreign(todo)' /\ Completing(todo)'
  BY <1>1, <1>4, <1>5, <1>8, OperationFacts DEF Answer
<1> QED BY <1>7, <1>9, <1>10 DEF WritingInv

LEMMA FinalizingOperation ==
    ASSUME IInv, FileOperation, phase = "finalizing"
    PROVE  /\ Answer.content # "Yes" /\ YesInv' /\ FinalizingInv'
<1> DEFINE o == Head(todo)
<1>1. PICK k \in 1..7 : /\ todo = Rest(Finalization, k, 6)
                        /\ k <= 6 => Answer.content # "Yes"
                        /\ k >= 4 => OfRun(TimingTxt, run)
                        /\ k >= 5 => OfRun(TimingCsv, run)
                        /\ HasSimulated /\ \A c \in enabled : \A f \in Files(c) : OfRun(f, run)
  BY DEF IInv, PhaseInv, FinalizingInv
<1>2. k <= 6 /\ o = Finalization[k] /\ Tail(todo) = Rest(Finalization, k + 1, 6)
  <2>1. k # 7
    <3>1. 6 \in Nat /\ 7 \in 1..(6 + 1) /\ 7 = 6 + 1 OBVIOUS
    <3>2. Rest(Finalization, 7, 6) = <<>> BY <3>1, RestFacts, Lists
    <3>3. todo # <<>> BY OperationFacts
    <3> QED BY ONLY <1>1, <3>2, <3>3
  <2>2. k \in 1..(6 + 1) /\ k <= 6 /\ 6 \in Nat BY <2>1
  <2>3. /\ Head(Rest(Finalization, k, 6)) = Finalization[k]
        /\ Tail(Rest(Finalization, k, 6)) = Rest(Finalization, k + 1, 6)
    BY ONLY <2>2, RestFacts, Lists
  <2> QED BY ONLY <1>1, <2>2, <2>3
<1>3. /\ k \in {1, 2, 3, 4, 5, 6}
      /\ Finalization[1] = Open(TimingTxt) /\ Finalization[2] = Open(TimingCsv)
      /\ Finalization[3] = Complete(TimingTxt) /\ Finalization[4] = Complete(TimingCsv)
      /\ Finalization[5] = Open(Finished) /\ Finalization[6] = Close(Finished, "Yes")
  BY <1>2 DEF Finalization
<1>4. /\ k = 3 => o.file = TimingTxt /\ Effect(o) = [content |-> "complete", run |-> run]
      /\ k = 4 => o.file = TimingCsv /\ Effect(o) = [content |-> "complete", run |-> run]
      /\ k = 5 => o.file = Finished /\ Effect(o).content = "partial"
      /\ k = 6 => o.file = Finished /\ Effect(o) = [content |-> "Yes", run |-> run]
      /\ k < 5 => o.file # Finished
      /\ k >= 4 => o.file # TimingTxt
      /\ k >= 5 => o.file # TimingCsv
      /\ o.file \in OwnFiles
  BY <1>2, <1>3, OwnFilesAreFiles DEF Open, Complete, Close, Effect, OwnFiles
<1>5. \A f \in File : f # o.file /\ OfRun(f, run) => OfRun(f, run)'
  BY OperationFacts DEF OfRun
<1>6. \A c \in enabled' : \A f \in Files(c) : OfRun(f, run)'
  <2> SUFFICES ASSUME NEW c \in enabled', NEW f \in Files(c) PROVE OfRun(f, run)'
    OBVIOUS
  <2>1. c \in Components /\ c \in enabled
    BY OperationFacts, ConstructedAreComponents DEF IInv, TypeInv
  <2>2. f \in File /\ f \notin OwnFiles BY <2>1, ComponentFiles
  <2> QED BY <1>1, <1>4, <1>5, <2>1, <2>2
<1>7. /\ k + 1 >= 4 => OfRun(TimingTxt, run)'
      /\ k + 1 >= 5 => OfRun(TimingCsv, run)'
  <2>1. k = 3 => OfRun(TimingTxt, run)' BY <1>4, OperationFacts DEF OfRun
  <2>2. k = 4 => OfRun(TimingCsv, run)' BY <1>4, OperationFacts DEF OfRun
  <2>3. k >= 4 => OfRun(TimingTxt, run)' BY <1>1, <1>4, <1>5, OwnFilesAreFiles
  <2>4. k >= 5 => OfRun(TimingCsv, run)' BY <1>1, <1>4, <1>5, OwnFilesAreFiles
  <2> QED BY <1>3, <2>1, <2>2, <2>3, <2>4
<1>8. Answer.content # "Yes" BY <1>1, <1>2
<1>9. k + 1 <= 6 => Answer'.content # "Yes"
  <2>1. CASE k = 5 BY <1>4, <2>1, OperationFacts DEF Answer
  <2>2. CASE k < 5
    <3>1. files'[Finished] = files[Finished]
      BY <1>4, <2>2, OperationFacts, OwnFilesAreFiles
    <3> QED BY <1>8, <3>1 DEF Answer
  <2> QED BY <1>3, <2>1, <2>2
<1>10. HasSimulated' BY <1>1, OperationFacts DEF HasSimulated
<1>11. FinalizingInv'
  <2>1. k + 1 \in 1..7 /\ todo' = Rest(Finalization, k + 1, 6) BY <1>3, <1>2, OperationFacts
  <2> QED BY <1>6, <1>7, <1>9, <1>10, <2>1 DEF FinalizingInv, Answer
<1>12. YesInv'
  <2>1. CASE k < 6 BY <1>3, <1>9, <2>1, NoYes DEF Answer
  <2>2. CASE k = 6
    <3>1. files'[Finished] = [content |-> "Yes", run |-> run] BY <1>4, <2>2, OperationFacts
    <3>2. Answer'.run = run BY <3>1 DEF Answer
    <3>3. run' = run BY OperationFacts
    <3>4. OfRun(TimingTxt, run)' /\ OfRun(TimingCsv, run)' BY <1>7, <2>2
    <3>5. [run |-> run, enabled |-> enabled]' \in simulated' BY <1>10 DEF HasSimulated
    <3>6. SimulatedFiles(run)' BY <1>6, <3>5 DEF SimulatedFiles
    <3> QED BY <3>2, <3>3, <3>4, <3>6 DEF YesInv, Answer, SimulatedFiles, OfRun
  <2> QED BY <1>3, <2>1, <2>2
<1> QED BY <1>8, <1>11, <1>12

LEMMA FileOperationKeeps == IInv /\ FileOperation => IInv'
<1> SUFFICES ASSUME IInv, FileOperation PROVE IInv' OBVIOUS
<1> USE DEF PhaseInv, IdleInv, PreparingInv, ConstructingInv, RunningInv, HangingInv,
            WritingInv, FinalizingInv
<1>1. phase' = phase /\ TypeInv' BY OperationFacts
<1>2. phase \in {"preparing", "constructing", "hanging", "writing", "finalizing"}
  <2>1. phase \in Phase /\ todo # <<>> BY OperationFacts DEF IInv, TypeInv
  <2> QED BY <2>1 DEF IInv, Phase
<1>3. CASE phase = "preparing" BY <1>1, <1>3, PreparingOperation, NoYes DEF IInv, Answer
<1>4. CASE phase \in {"constructing", "hanging"}
  BY <1>1, <1>4, ConstructingOperation, NoYes DEF IInv, Answer
<1>5. CASE phase = "writing" BY <1>1, <1>5, WritingOperation, NoYes DEF IInv, Answer
<1>6. CASE phase = "finalizing" BY <1>1, <1>6, FinalizingOperation DEF IInv
<1> QED BY <1>2, <1>3, <1>4, <1>5, <1>6
-----------------------------------------------------------------------------
LEMMA SetOfTail ==
    ASSUME NEW S, NEW s \in Seq(S), s # <<>>
    PROVE  /\ SetOf(Tail(s)) \subseteq SetOf(s) /\ Head(s) \in SetOf(s)
           /\ \A x \in SetOf(s) : x = Head(s) \/ x \in SetOf(Tail(s))
<1>1. /\ Head(s) = s[1] /\ DOMAIN s = 1..Len(s) /\ DOMAIN Tail(s) = 1..(Len(s) - 1)
      /\ Len(s) \in Nat \ {0}
      /\ \A i \in 1..(Len(s) - 1) : Tail(s)[i] = s[i + 1]
  BY TailFacts
<1>2. Head(s) \in SetOf(s) BY <1>1 DEF SetOf
<1>3. ASSUME NEW i \in DOMAIN Tail(s) PROVE Tail(s)[i] \in SetOf(s)
  <2>1. i + 1 \in DOMAIN s /\ Tail(s)[i] = s[i + 1] BY <1>1
  <2> QED BY <2>1 DEF SetOf
<1>4. ASSUME NEW i \in DOMAIN s PROVE s[i] = Head(s) \/ s[i] \in SetOf(Tail(s))
  <2>1. CASE i = 1 BY <1>1, <2>1
  <2>2. CASE i # 1
    <3>1. i - 1 \in 1..(Len(s) - 1) /\ (i - 1) + 1 = i BY <1>1, <2>2
    <3>2. Tail(s)[i - 1] = s[i] BY <1>1, <3>1
    <3> QED BY <1>1, <3>1, <3>2 DEF SetOf
  <2> QED BY <2>1, <2>2
<1> QED BY <1>2, <1>3, <1>4 DEF SetOf

LEMMA RemovesFacts ==
    ASSUME NEW c \in Components
    PROVE  Each(c.removes, Remove) \in Seq(Operation) /\ Foreign(Each(c.removes, Remove))
<1> DEFINE r == c.removes
<1>1. r \in Seq(SetOf(r)) /\ SetOf(r) \subseteq File /\ OwnFiles \cap SetOf(r) = {}
  BY ComponentFiles
<1>2. Len(r) \in Nat /\ DOMAIN r = 1..Len(r) /\ \A i \in DOMAIN r : r[i] \in SetOf(r)
  BY <1>1
<1>3. \A i \in 1..Len(r) : Remove(r[i]) \in Operation /\ Remove(r[i]).file = r[i]
  <2>1. \A f : Remove(f).file = f BY DEF Remove
  <2>2. \A f \in File : Remove(f) \in Operation
    BY OperationTypes DEF Content
  <2> QED BY <1>1, <1>2, <2>1, <2>2
<1>4. Each(r, Remove) = [i \in 1..Len(r) |-> Remove(r[i])] BY <1>2 DEF Each
<1>5. Each(r, Remove) \in Seq(Operation) BY <1>2, <1>3, <1>4
<1>6. \A i \in DOMAIN Each(r, Remove) : Each(r, Remove)[i].file = r[i] /\ i \in DOMAIN r
  BY <1>2, <1>3, <1>4
<1>7. Foreign(Each(r, Remove)) BY <1>1, <1>2, <1>6 DEF Foreign
<1> QED BY <1>5, <1>7

LEMMA OpensFacts ==
    ASSUME NEW c \in Components
    PROVE  Each(c.writes, Open) \in Seq(Operation) /\ Foreign(Each(c.writes, Open))
<1> DEFINE w == c.writes
<1>1. w \in Seq(Files(c)) /\ Files(c) \subseteq File /\ OwnFiles \cap Files(c) = {}
  BY ComponentFiles
<1>2. Len(w) \in Nat /\ DOMAIN w = 1..Len(w) /\ \A i \in DOMAIN w : w[i] \in Files(c)
  BY <1>1
<1>3. \A i \in 1..Len(w) : Open(w[i]) \in Operation /\ Open(w[i]).file = w[i]
  <2>1. \A f : Open(f).file = f BY DEF Open
  <2>2. \A f \in File : Open(f) \in Operation BY OperationTypes DEF Content
  <2> QED BY <1>1, <1>2, <2>1, <2>2
<1>4. Each(w, Open) = [i \in 1..Len(w) |-> Open(w[i])] BY <1>2 DEF Each
<1>5. Each(w, Open) \in Seq(Operation) BY <1>2, <1>3, <1>4
<1>6. \A i \in DOMAIN Each(w, Open) : Each(w, Open)[i].file = w[i] /\ i \in DOMAIN w
  BY <1>2, <1>3, <1>4
<1>7. Foreign(Each(w, Open)) BY <1>1, <1>2, <1>6 DEF Foreign
<1> QED BY <1>5, <1>7

LEMMA WritesFacts ==
    ASSUME NEW c \in Components, NEW ops, ops = Each(c.writes, Open) \o Each(c.writes, Complete)
    PROVE  /\ ops \in Seq(Operation) /\ Foreign(ops) /\ Completing(ops)
           /\ \A f \in Files(c) : \E i \in DOMAIN ops : ops[i] = Complete(f)
<1> DEFINE w == c.writes
           n == Len(w)
           opens == [i \in 1..n |-> Open(w[i])]
           closes == [i \in 1..n |-> Complete(w[i])]
<1>1. w \in Seq(Files(c)) /\ Files(c) \subseteq File /\ OwnFiles \cap Files(c) = {}
      /\ Files(c) = SetOf(w)
  BY ComponentFiles DEF Files
<1>2. n \in Nat /\ DOMAIN w = 1..n /\ \A i \in 1..n : w[i] \in Files(c) /\ w[i] \in File
  BY <1>1
<1>3. \A i \in 1..n : /\ Open(w[i]) \in Operation /\ Open(w[i]).file = w[i]
                       /\ Complete(w[i]) \in Operation /\ Complete(w[i]).file = w[i]
  <2>1. \A f : Open(f).file = f /\ Complete(f).file = f BY DEF Open, Complete, Close
  <2>2. \A f \in File : Open(f) \in Operation /\ Complete(f) \in Operation
    BY OperationTypes DEF Content
  <2> QED BY <1>2, <2>1, <2>2
<1>4. /\ opens \in Seq(Operation) /\ Len(opens) = n
      /\ closes \in Seq(Operation) /\ Len(closes) = n
  BY <1>2, <1>3
<1>5. ops = opens \o closes BY <1>2 DEF Each
<1>6. /\ ops \in Seq(Operation) /\ DOMAIN ops = 1..(n + n)
      /\ \A i \in 1..n : ops[i] = Open(w[i])
      /\ \A i \in 1..n : ops[n + i] = Complete(w[i])
  <2>1. ops \in Seq(Operation) /\ Len(ops) = n + n BY <1>4, <1>5
  <2>2. \A i \in 1..n : ops[i] = opens[i] BY <1>4, <1>5
  <2>3. \A i \in 1..n : n + i \in 1..(n + n) /\ ops[n + i] = closes[i] BY <1>2, <1>4, <1>5
  <2>4. \A i \in 1..n : opens[i] = Open(w[i]) /\ closes[i] = Complete(w[i]) OBVIOUS
  <2>5. DOMAIN ops = 1..(n + n) BY <2>1
  <2> HIDE DEF n, w, opens, closes
  <2> QED BY <2>1, <2>2, <2>3, <2>4, <2>5
<1> HIDE DEF n, w, opens, closes
<1>7. ASSUME NEW i \in DOMAIN ops
      PROVE  \E k \in 1..n : /\ ops[i].file = w[k] /\ i <= n + k
                              /\ n + k \in DOMAIN ops /\ ops[n + k] = Complete(w[k])
  <2>1. CASE i \in 1..n
    <3>1. i <= n + i /\ n + i \in 1..(n + n) BY <1>2, <2>1
    <3>2. ops[i].file = w[i] BY <1>3, <1>6, <2>1
    <3> QED BY <1>6, <2>1, <3>1, <3>2
  <2>2. CASE i \notin 1..n
    <3>1. i - n \in 1..n /\ n + (i - n) = i BY <1>2, <1>6, <2>2
    <3>2. ops[i] = Complete(w[i - n]) BY <1>6, <3>1
    <3>3. ops[i].file = w[i - n] BY <1>3, <3>1, <3>2
    <3>4. i <= n + (i - n) BY <1>2, <1>6, <3>1
    <3> QED BY <3>1, <3>2, <3>3, <3>4
  <2> QED BY <2>1, <2>2
<1>8. Foreign(ops) BY <1>1, <1>2, <1>7 DEF Foreign
<1>9. Completing(ops) BY <1>7 DEF Completing
<1>10. ASSUME NEW f \in Files(c) PROVE \E i \in DOMAIN ops : ops[i] = Complete(f)
  <2>1. PICK k \in 1..n : f = w[k] BY <1>1, <1>2 DEF SetOf
  <2>2. n + k \in 1..(n + n) BY <1>2, <2>1
  <2> QED BY <1>6, <2>1, <2>2
<1> QED BY <1>6, <1>8, <1>9, <1>10
-----------------------------------------------------------------------------
LEMMA ConfigureKeeps == IInv /\ ConfigureSimulation => IInv'
<1> SUFFICES ASSUME IInv, ConfigureSimulation PROVE IInv' OBVIOUS
<1>1. CASE Gone BY <1>1, GoneKeeps
<1>2. CASE ~ Gone
  <2>1. /\ phase = "configuring" /\ phase' = "preparing" /\ todo' = Preparation
        /\ UNCHANGED <<files, run, program, enabled, rest, simulated>>
    <3>1. /\ phase = "configuring" /\ phase' = "preparing"
          /\ UNCHANGED <<files, run, program, enabled, rest, simulated>>
      BY <1>2 DEF ConfigureSimulation
    <3>2. todo' = <<Remove(Finished), Remove(TimingTxt), Remove(TimingCsv)>>
                  \o <<Open(Finished), Close(Finished, "No")>>
      BY <1>2 DEF ConfigureSimulation, WriteFinished
    <3>3. todo' = <<Remove(Finished), Remove(TimingTxt), Remove(TimingCsv),
                    Open(Finished), Close(Finished, "No")>>
      BY ONLY <3>2, JoinThree, Zenon
    <3> QED BY <3>1, <3>3 DEF Preparation
  <2>2. TypeInv' BY <2>1, Lists DEF IInv, TypeInv, Phase
  <2>3. YesInv' BY <2>1, YesKept DEF IInv
  <2>4. PreparingInv'
    <3>1. 1 \in 1..(5 + 1) /\ 5 \in Nat /\ 1 \in 1..6 OBVIOUS
    <3>2. Preparation = Rest(Preparation, 1, 5) BY <3>1, RestFacts, Lists
    <3> QED BY <2>1, <3>1, <3>2 DEF PreparingInv
  <2>5. PhaseInv'
    BY <2>1, <2>4 DEF PhaseInv, IdleInv, ConstructingInv, RunningInv, HangingInv, WritingInv, FinalizingInv
  <2> QED BY <2>2, <2>3, <2>5 DEF IInv
<1> QED BY <1>1, <1>2

LEMMA ConstructProgramKeeps == IInv /\ ConstructProgram => IInv'
<1> SUFFICES ASSUME IInv, ConstructProgram PROVE IInv' OBVIOUS
<1>1. /\ phase = "preparing" /\ todo = <<>> /\ phase' = "constructing"
      /\ rest' = program.construct
      /\ UNCHANGED <<files, run, program, enabled, todo, simulated>>
  BY DEF ConstructProgram
<1>2. TypeInv' BY <1>1, ConstructedAreComponents DEF IInv, TypeInv, Phase
<1>3. YesInv' BY <1>1, YesKept DEF IInv
<1>4. Answer.content # "Yes"
  <2>1. PICK k \in 1..6 : todo = Rest(Preparation, k, 5) /\ (k > 1 => Answer.content # "Yes")
    BY <1>1 DEF IInv, PhaseInv, PreparingInv
  <2>2. k # 1
    <3>1. 1 \in 1..(5 + 1) /\ 5 \in Nat /\ 1 <= 5 OBVIOUS
    <3>2. Rest(Preparation, 1, 5) # <<>> BY <3>1, RestFacts, Lists
    <3> QED BY <1>1, <2>1, <3>2
  <2> QED BY <2>1, <2>2
<1>5. PhaseInv'
  BY <1>1, <1>4 DEF PhaseInv, IdleInv, PreparingInv, ConstructingInv, RunningInv, HangingInv, WritingInv,
                    FinalizingInv, Foreign, Answer
<1> QED BY <1>2, <1>3, <1>5 DEF IInv

LEMMA ConstructKeeps == IInv /\ Construct => IInv'
<1> SUFFICES ASSUME IInv, Construct PROVE IInv' OBVIOUS
<1> DEFINE c == Head(rest)
<1>1. CASE Gone BY <1>1, GoneKeeps
<1>2. CASE ~ Gone
  <2>1. /\ phase = "constructing" /\ phase' = phase /\ todo = <<>> /\ rest # <<>>
        /\ rest' = Tail(rest)
        /\ UNCHANGED <<files, run, program, simulated>>
        /\ \/ enabled' = enabled \cup {c} /\ todo' = Each(c.removes, Remove)
           \/ enabled' = enabled /\ todo' = todo
    BY <1>2 DEF Construct
  <2>2. TypeInv BY DEF IInv
  <2>3. /\ Tail(rest) \in Seq(Components) /\ c \in SetOf(program.construct) /\ c \in Components
        /\ SetOf(Tail(rest)) \subseteq SetOf(program.construct)
    <3>1. rest \in Seq(Components) /\ SetOf(rest) \subseteq SetOf(program.construct)
      BY <2>2 DEF TypeInv
    <3>2. Tail(rest) \in Seq(Components) /\ c \in Components BY <2>1, <3>1, TailFacts
    <3>3. SetOf(Tail(rest)) \subseteq SetOf(rest) /\ c \in SetOf(rest) BY <2>1, <3>1, SetOfTail
    <3> QED BY <3>1, <3>2, <3>3
  <2>4. todo' \in Seq(Operation) /\ Foreign(todo')
    <3>1. CASE todo' = Each(c.removes, Remove) BY <2>3, <3>1, RemovesFacts
    <3>2. CASE todo' = <<>> BY <3>2 DEF Foreign
    <3> QED BY <2>1, <3>1, <3>2
  <2>5. TypeInv' BY <2>1, <2>2, <2>3, <2>4 DEF TypeInv
  <2>6. YesInv' BY <2>1, YesKept DEF IInv
  <2>7. Answer.content # "Yes" BY <2>1 DEF IInv, PhaseInv, ConstructingInv
  <2>8. ConstructingInv' BY <2>1, <2>4, <2>7 DEF ConstructingInv, Answer
  <2>9. PhaseInv'
    BY <2>1, <2>8 DEF PhaseInv, IdleInv, PreparingInv, RunningInv, HangingInv, WritingInv, FinalizingInv
  <2> QED BY <2>5, <2>6, <2>9 DEF IInv
<1> QED BY <1>1, <1>2

LEMMA RunKeeps == IInv /\ Run => IInv'
<1> SUFFICES ASSUME IInv, Run PROVE IInv' OBVIOUS
<1>1. CASE Gone BY <1>1, GoneKeeps
<1>2. CASE ~ Gone
  <2>1. /\ phase = "constructing" /\ phase' \in {"running", "hanging"} /\ todo = <<>>
        /\ UNCHANGED <<files, run, program, enabled, rest, todo, simulated>>
    BY <1>2 DEF Run, StartEvents
  <2>2. TypeInv' BY <2>1 DEF IInv, TypeInv, Phase
  <2>3. YesInv' BY <2>1, YesKept DEF IInv
  <2>4. Answer.content # "Yes" BY <2>1 DEF IInv, PhaseInv, ConstructingInv
  <2>5. PhaseInv'
    BY <2>1, <2>4 DEF PhaseInv, IdleInv, PreparingInv, ConstructingInv, RunningInv, HangingInv, WritingInv,
                      FinalizingInv, Foreign, Answer
  <2> QED BY <2>2, <2>3, <2>5 DEF IInv
<1> QED BY <1>1, <1>2

(* When the run stops, every enabled component has its results to write. *)
LEMMA StopKeeps == IInv /\ Stop => IInv'
<1> SUFFICES ASSUME IInv, Stop PROVE IInv' OBVIOUS
<1>1. /\ phase = "running" /\ phase' = "writing" /\ rest' = program.results
      /\ simulated' = simulated \cup {[run |-> run, enabled |-> enabled]}
      /\ UNCHANGED <<files, run, program, enabled, todo>>
  BY DEF Stop
<1>2. program \in Programs /\ enabled \subseteq SetOf(program.construct)
  BY DEF IInv, TypeInv
<1>3. TypeInv' BY <1>1, <1>2, ConstructedAreComponents DEF IInv, TypeInv, Phase
<1>4. YesInv' BY <1>1, YesKept DEF IInv
<1>5. todo = <<>> /\ Answer.content # "Yes" BY <1>1 DEF IInv, PhaseInv, IdleInv, RunningInv
<1>6. ResultsPromised'
  <2> SUFFICES ASSUME NEW c \in enabled, c \notin SetOf(program.results) PROVE Files(c) = {}
    BY <1>1 DEF ResultsPromised
  <2>1. c.writes = <<>> BY <1>2, ProgramAssumption
  <2> QED BY <2>1 DEF Files, SetOf
<1>7. HasSimulated' BY <1>1 DEF HasSimulated
<1>8. Foreign(todo') /\ Completing(todo') BY <1>1, <1>5 DEF Foreign, Completing
<1>9. WritingInv' BY <1>1, <1>5, <1>6, <1>7, <1>8 DEF WritingInv, Answer
<1>10. PhaseInv'
  BY <1>1, <1>9 DEF PhaseInv, IdleInv, PreparingInv, ConstructingInv, RunningInv, HangingInv, FinalizingInv
<1> QED BY <1>3, <1>4, <1>10 DEF IInv

LEMMA WriteResultsKeeps == IInv /\ WriteResults => IInv'
<1> SUFFICES ASSUME IInv, WriteResults PROVE IInv' OBVIOUS
<1> DEFINE c == Head(rest)
<1>1. /\ phase = "writing" /\ phase' = phase /\ todo = <<>> /\ rest # <<>>
      /\ rest' = Tail(rest)
      /\ c \in enabled => todo' = Each(c.writes, Open) \o Each(c.writes, Complete)
      /\ c \notin enabled => todo' = <<>>
      /\ UNCHANGED <<files, run, program, enabled, simulated>>
  BY DEF WriteResults
<1>2. TypeInv BY DEF IInv
<1>3. Answer.content # "Yes" /\ ResultsPromised /\ HasSimulated
  BY <1>1 DEF IInv, PhaseInv, WritingInv
<1>4. /\ Tail(rest) \in Seq(Components) /\ c \in Components
      /\ SetOf(Tail(rest)) \subseteq SetOf(program.construct)
      /\ \A x \in SetOf(rest) : x = c \/ x \in SetOf(Tail(rest))
  <2>1. rest \in Seq(Components) /\ SetOf(rest) \subseteq SetOf(program.construct)
    BY <1>2 DEF TypeInv
  <2>2. Tail(rest) \in Seq(Components) /\ c \in Components BY <1>1, <2>1, TailFacts
  <2>3. SetOf(Tail(rest)) \subseteq SetOf(rest)
        /\ \A x \in SetOf(rest) : x = c \/ x \in SetOf(Tail(rest))
    BY <1>1, <2>1, SetOfTail
  <2> QED BY <2>1, <2>2, <2>3
<1> HIDE DEF c
<1>5. /\ todo' \in Seq(Operation) /\ Foreign(todo') /\ Completing(todo')
      /\ c \in enabled => \A f \in Files(c) : \E i \in DOMAIN todo' : todo'[i] = Complete(f)
  <2>1. CASE c \in enabled BY <1>1, <1>4, <2>1, WritesFacts
  <2>2. CASE c \notin enabled
    <3>1. todo' = <<>> BY <1>1, <2>2
    <3> QED BY <2>2, <3>1 DEF Foreign, Completing
  <2> QED BY <2>1, <2>2
<1>6. TypeInv' BY <1>1, <1>2, <1>4, <1>5 DEF TypeInv
<1>7. YesInv' BY <1>1, YesKept DEF IInv
<1>8. ResultsPromised'
  <2> SUFFICES ASSUME NEW d \in enabled', d \notin SetOf(rest'), NEW f \in Files(d)
               PROVE  Promised(f, todo)'
    BY DEF ResultsPromised
  <2>1. CASE d = c
    <3>1. c \in enabled BY <1>1, <2>1
    <3> QED BY <1>5, <2>1, <3>1 DEF Promised
  <2>2. CASE d # c
    <3>1. d \in enabled /\ d \notin SetOf(rest) BY <1>1, <1>4, <2>2
    <3>2. Promised(f, todo) BY <1>3, <3>1 DEF ResultsPromised
    <3>3. OfRun(f, run) BY <1>1, <3>2 DEF Promised
    <3> QED BY <1>1, <3>3 DEF Promised, OfRun
  <2> QED BY <2>1, <2>2
<1>9. WritingInv' BY <1>1, <1>3, <1>5, <1>8 DEF WritingInv, HasSimulated, Answer
<1>10. PhaseInv'
  BY <1>1, <1>9 DEF PhaseInv, IdleInv, PreparingInv, ConstructingInv, RunningInv, HangingInv, FinalizingInv
<1> QED BY <1>6, <1>7, <1>10 DEF IInv

LEMMA FinalizeUtilizationKeeps == IInv /\ FinalizeUtilization => IInv'
<1> SUFFICES ASSUME IInv, FinalizeUtilization PROVE IInv' OBVIOUS
<1>1. /\ phase = "writing" /\ phase' = "hanging" /\ rest # <<>>
      /\ rest' = Tail(rest) /\ todo' = Each(Head(rest).writes, Open)
      /\ UNCHANGED <<files, run, program, enabled, simulated>>
  BY DEF FinalizeUtilization
<1>2. TypeInv BY DEF IInv
<1>3. /\ Tail(rest) \in Seq(Components) /\ Head(rest) \in Components
      /\ SetOf(Tail(rest)) \subseteq SetOf(program.construct)
  <2>1. rest \in Seq(Components) /\ SetOf(rest) \subseteq SetOf(program.construct)
    BY <1>2 DEF TypeInv
  <2>2. Tail(rest) \in Seq(Components) /\ Head(rest) \in Components BY <1>1, <2>1, TailFacts
  <2>3. SetOf(Tail(rest)) \subseteq SetOf(rest) BY <1>1, <2>1, SetOfTail
  <2> QED BY <2>1, <2>2, <2>3
<1>4. todo' \in Seq(Operation) /\ Foreign(todo') BY <1>1, <1>3, OpensFacts
<1>5. TypeInv' BY <1>1, <1>2, <1>3, <1>4 DEF TypeInv, Phase
<1>6. YesInv' BY <1>1, YesKept DEF IInv
<1>7. Answer.content # "Yes" BY <1>1 DEF IInv, PhaseInv, WritingInv
<1>8. PhaseInv'
  BY <1>1, <1>4, <1>7 DEF PhaseInv, IdleInv, PreparingInv, ConstructingInv, RunningInv, HangingInv,
                          WritingInv, FinalizingInv, Foreign, Answer
<1> QED BY <1>5, <1>6, <1>8 DEF IInv

LEMMA FinalizeKeeps == IInv /\ Finalize => IInv'
<1> SUFFICES ASSUME IInv, Finalize PROVE IInv' OBVIOUS
<1>1. /\ phase = "writing" /\ phase' = "finalizing" /\ todo = <<>> /\ rest = <<>>
      /\ todo' = Finalization
      /\ UNCHANGED <<files, run, program, enabled, rest, simulated>>
  <2>1. /\ phase = "writing" /\ phase' = "finalizing" /\ todo = <<>> /\ rest = <<>>
        /\ UNCHANGED <<files, run, program, enabled, rest, simulated>>
    BY DEF Finalize
  <2>2. todo' = <<Open(TimingTxt), Open(TimingCsv), Complete(TimingTxt), Complete(TimingCsv)>>
                \o <<Open(Finished), Close(Finished, "Yes")>>
    BY DEF Finalize, WriteFinished
  <2>3. todo' = <<Open(TimingTxt), Open(TimingCsv), Complete(TimingTxt), Complete(TimingCsv),
                  Open(Finished), Close(Finished, "Yes")>>
    <3> DEFINE o1 == Open(TimingTxt)
               o2 == Open(TimingCsv)
               o3 == Complete(TimingTxt)
               o4 == Complete(TimingCsv)
               o5 == Open(Finished)
               o6 == Close(Finished, "Yes")
    <3>1. todo' = <<o1, o2, o3, o4>> \o <<o5, o6>> BY <2>2
    <3> HIDE DEF o1, o2, o3, o4, o5, o6
    <3>2. <<o1, o2, o3, o4>> \o <<o5, o6>> = <<o1, o2, o3, o4, o5, o6>> BY JoinFour
    <3>3. todo' = <<o1, o2, o3, o4, o5, o6>> BY <3>1, <3>2
    <3> QED BY <3>3 DEF o1, o2, o3, o4, o5, o6
  <2> QED BY <2>1, <2>3 DEF Finalization
<1>2. Answer.content # "Yes" /\ ResultsPromised /\ HasSimulated
  BY <1>1 DEF IInv, PhaseInv, WritingInv
<1>3. TypeInv' BY <1>1, Lists DEF IInv, TypeInv, Phase
<1>4. YesInv' BY <1>1, YesKept DEF IInv
<1>5. \A c \in enabled : \A f \in Files(c) : OfRun(f, run)
  <2>1. SetOf(rest) = {} BY <1>1 DEF SetOf
  <2> QED BY <1>1, <1>2, <2>1 DEF ResultsPromised, Promised
<1>6. FinalizingInv'
  <2>1. 1 \in 1..7 /\ 1 \in 1..(6 + 1) /\ 6 \in Nat OBVIOUS
  <2>2. Finalization = Rest(Finalization, 1, 6) BY <2>1, RestFacts, Lists
  <2> QED BY <1>1, <1>2, <1>5, <2>1, <2>2 DEF FinalizingInv, Answer, HasSimulated, OfRun
<1>7. PhaseInv'
  BY <1>1, <1>6 DEF PhaseInv, IdleInv, PreparingInv, ConstructingInv, RunningInv, HangingInv, WritingInv
<1> QED BY <1>3, <1>4, <1>7 DEF IInv

THEOREM InvariantPreserved == IInv /\ [Next]_vars => IInv'
<1> SUFFICES ASSUME IInv, [Next]_vars PROVE IInv' OBVIOUS
<1> USE DEF PhaseInv, IdleInv, PreparingInv, ConstructingInv, RunningInv, HangingInv,
            WritingInv, FinalizingInv
<1>1. CASE ConfigureRunDirectory
  <2>1. /\ phase' = "reading" /\ todo' = todo /\ todo = <<>> /\ run' = run + 1
        /\ program' \in Programs /\ enabled' = enabled /\ rest' = rest
        /\ files' = files /\ simulated' = simulated /\ phase = "none"
    BY <1>1 DEF ConfigureRunDirectory, IInv
  <2>2. enabled = {} /\ rest = <<>> BY <2>1 DEF IInv
  <2>3. TypeInv' BY <2>1, <2>2 DEF IInv, TypeInv, Phase, SetOf
  <2>4. YesInv' BY <2>1, YesKept DEF IInv
  <2> QED BY <2>1, <2>3, <2>4 DEF IInv
<1>2. CASE ReadConfig
  <2>1. CASE Gone BY <2>1, GoneKeeps
  <2>2. CASE ~ Gone
    <3>1. /\ phase' = "configuring" /\ phase = "reading"
          /\ UNCHANGED <<files, run, program, enabled, rest, todo, simulated>>
      BY <1>2, <2>2 DEF ReadConfig
    <3>2. TypeInv' BY <3>1 DEF IInv, TypeInv, Phase
    <3>3. YesInv' BY <3>1, YesKept DEF IInv
    <3> QED BY <3>1, <3>2, <3>3 DEF IInv
  <2> QED BY <2>1, <2>2
<1>3. CASE ShowSimulationProgress
  <2>1. /\ phase' = phase /\ phase = "running"
        /\ UNCHANGED <<files, run, program, enabled, rest, todo, simulated>>
    BY <1>3 DEF ShowSimulationProgress
  <2>2. TypeInv' BY <2>1 DEF IInv, TypeInv
  <2>3. YesInv' BY <2>1, YesKept DEF IInv
  <2> QED BY <2>1, <2>2, <2>3 DEF IInv, Answer
<1>4. CASE TrackUtilization
  <2>1. /\ phase' = "hanging" /\ phase = "running"
        /\ UNCHANGED <<files, run, program, enabled, rest, todo, simulated>>
    BY <1>4 DEF TrackUtilization
  <2>2. TypeInv' BY <2>1 DEF IInv, TypeInv, Phase
  <2>3. YesInv' BY <2>1, YesKept DEF IInv
  <2> QED BY <2>1, <2>2, <2>3 DEF IInv, Answer, Foreign
<1>5. CASE Gone BY <1>5, GoneKeeps
<1>6. CASE UNCHANGED vars
  BY <1>6 DEF IInv, vars, process, TypeInv, YesInv, SimulatedFiles, Answer, OfRun, Foreign,
              Completing, ResultsPromised, Promised, HasSimulated
<1> QED
  BY <1>1, <1>2, <1>3, <1>4, <1>5, <1>6, FileOperationKeeps, ConfigureKeeps,
     ConstructProgramKeeps, ConstructKeeps, RunKeeps, StopKeeps, WriteResultsKeeps,
     FinalizeUtilizationKeeps, FinalizeKeeps
  DEF Next, Proceed, Return, EventThrows, Killed
-----------------------------------------------------------------------------
(* A reader who finds Yes finds complete results of the run that wrote it, *)
(* whatever programs, configurations, exceptions and kills there were.     *)
THEOREM LifeYesMeansComplete == Spec => []YesMeansComplete
<1>1. IInv => YesMeansComplete
  BY DEF IInv, YesInv, SimulatedFiles, YesMeansComplete, OfRun, Answer
<1> QED BY <1>1, InvariantInitially, InvariantPreserved, PTL DEF Spec

(* No step touches a result before the Yes is withdrawn. *)
THEOREM LifeResultsChangeOnlyUnfinished == Spec => ResultsChangeOnlyUnfinished
<1> DEFINE Kept == \A f \in Results \cup {TimingTxt, TimingCsv} :
                       files'[f] # files[f] => Answer.content # "Yes"
<1>1. ASSUME IInv, [Next]_vars PROVE [Kept]_vars
  <2>1. CASE FileOperation
    <3>1. phase \in {"preparing", "constructing", "hanging", "writing", "finalizing"}
      <4>1. phase \in Phase /\ todo # <<>> BY <1>1, <2>1, OperationFacts DEF IInv, TypeInv
      <4> QED BY <1>1, <4>1 DEF IInv, PhaseInv, IdleInv, Phase
    <3>2. CASE phase = "preparing"
      <4>1. Answer.content = "Yes" => \A f \in File \ {Finished} : files'[f] = files[f]
        BY <1>1, <2>1, <3>2, PreparingOperation
      <4>2. Results \cup {TimingTxt, TimingCsv} \subseteq File \ {Finished}
        <5>1. \A c \in Components : Finished \notin Files(c)
          BY ComponentFiles DEF OwnFiles
        <5> QED BY <5>1, OwnFilesAreFiles DEF File, Results
      <4> QED BY <4>1, <4>2
    <3>3. CASE phase # "preparing"
      <4>1. Answer.content # "Yes"
        BY <1>1, <2>1, <3>1, <3>3, FinalizingOperation
        DEF IInv, PhaseInv, ConstructingInv, HangingInv, WritingInv
      <4> QED BY <4>1
    <3> QED BY <3>2, <3>3
  <2>2. CASE files' = files BY <2>2
  <2>3. FileOperation \/ files' = files
    BY <1>1 DEF Next, Proceed, ConfigureRunDirectory, ReadConfig, ConfigureSimulation,
                ConstructProgram, Construct, Run, StartEvents, ShowSimulationProgress,
                TrackUtilization, Stop, WriteResults, FinalizeUtilization, Finalize, Return, EventThrows, Killed, Gone, vars
  <2> QED BY <2>1, <2>2, <2>3
<1> HIDE DEF Kept
<1>2. Spec => [][Kept]_vars BY <1>1, InvariantInitially, InvariantPreserved, PTL DEF Spec
<1> QED BY <1>2 DEF Kept, ResultsChangeOnlyUnfinished
=============================================================================
