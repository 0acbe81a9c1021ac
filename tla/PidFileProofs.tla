---------------------------- MODULE PidFileProofs ----------------------------
(***************************************************************************)
(* Proofs about PidFile.tla, for any processes, labels, commands and       *)
(* invocations: however a pid file is cut short, written over or left      *)
(* behind, what is read from it is right or the command wrote it itself,   *)
(* and a daemon that runs is neither overlooked nor loses its file, but to *)
(* the reuse of a pid that the code accepts.                               *)
(***************************************************************************)
EXTENDS PidFile, SequenceTheorems, WellFoundedInduction, TLAPS

-----------------------------------------------------------------------------
(* Texts.                                                                  *)

\* Numbers have no infinite descent; as a set of pairs.
Less == {nm \in Nat \X Nat : nm[1] < nm[2]}

\* A set of lines that is not empty has a last one.
LEMMA MaxIsLast ==
    ASSUME NEW n \in Nat, NEW S \in SUBSET (1..n), S # {}
    PROVE  Max(S) \in S /\ \A i \in S : Max(S) >= i
<1> DEFINE T == {n - i : i \in S}
<1>1. T \subseteq Nat /\ T # {}
  <2>1. \A i \in S : i \in Int /\ n - i \in Nat
    OBVIOUS
  <2> QED
    BY <2>1
<1>2. IsWellFoundedOn(Less, Nat)
  BY NatLessThanWellFounded DEF OpToRel, Less
<1>3. PICK x \in T : \A y \in T : ~(<<y, x>> \in Less)
  BY <1>1, <1>2, WFMin
<1>4. PICK i \in S : x = n - i
  OBVIOUS
<1>5. ASSUME NEW j \in S PROVE i >= j
  <2>1. n - j \in T /\ n - j \in Nat /\ n - i \in Nat
    OBVIOUS
  <2>2. ~(n - j < n - i)
    BY <1>3, <1>4, <2>1 DEF Less
  <2> QED
    BY <2>2
<1> QED
  BY <1>5 DEF Max

\* The last line of a key is a line of that key (parse_entry's loop).
LEMMA ValueIs ==
    ASSUME NEW w \in Seq(Line), NEW key
    PROVE  \/ (\A i \in DOMAIN w : w[i][1] # key) /\ Value(w, key) = "none"
           \/ \E i \in DOMAIN w : w[i][1] = key /\ Value(w, key) = w[i][2]
<1> DEFINE S == {i \in DOMAIN w : w[i][1] = key}
<1>1. Value(w, key) = IF S = {} THEN "none" ELSE w[Max(S)][2]
  BY DEF Value
<1>2. S \in SUBSET (1..Len(w)) /\ Len(w) \in Nat
  OBVIOUS
<1>3. S # {} => Max(S) \in S
  BY <1>2, MaxIsLast
<1> HIDE DEF S
<1>4. S = {} \/ \E i \in S : Value(w, key) = w[i][2]
  BY <1>1, <1>3
<1> QED
  BY <1>1, <1>4 DEF S

\* Where there is one line of a key, its value is the value.
LEMMA ValueOfOne ==
    ASSUME NEW w \in Seq(Line), NEW key, NEW i \in DOMAIN w, w[i][1] = key,
           \A j \in DOMAIN w : w[j][1] = key => j = i
    PROVE  Value(w, key) = w[i][2]
BY ValueIs

\* What register writes, line by line.
LEMMA TextLines ==
    ASSUME NEW label \in Label, NEW p \in Pid, NEW k \in Seq(Extra)
    PROVE  LET t == Text(label, p, k)
           IN  /\ k \in Seq(Line)
               /\ t \in Seq(Line) /\ Len(t) = Len(k) + 4
               /\ t[1] = <<"pid", p>> /\ t[2] = <<"label", label>> /\ t[3] = <<"cmd", FirstLine(k)>>
               /\ \A i \in 4..(Len(k) + 3) : t[i][1] # "cmd"
               /\ t[Len(k) + 4] = <<"log", label>>
<1> DEFINE head == << <<"pid", p>>, <<"label", label>>, <<"cmd", FirstLine(k)>> >>
           last == << <<"log", label>> >>
           t == (head \o k) \o last
<1>1. k \in Seq(Line) /\ \A i \in DOMAIN k : k[i][1] # "cmd"
  <2>1. \A i \in 1..Len(k) : k[i] \in Extra
    OBVIOUS
  <2>2. k \in Seq(Line)
    BY SeqMonotonic DEF Extra
  <2> QED
    BY <2>1, <2>2 DEF Extra
<1>2. head \in Seq(Line) /\ Len(head) = 3 /\ last \in Seq(Line) /\ Len(last) = 1
  <2>1. <<"pid", p>> \in Line /\ <<"label", label>> \in Line /\ <<"log", label>> \in Line
    BY PidFileAssumption DEF PidFileAssumption, Line
  <2>2. <<"cmd", FirstLine(k)>> \in Line
    BY DEF FirstLine, Line
  <2> QED
    BY <2>1, <2>2
<1>3. /\ head[1] = <<"pid", p>> /\ head[2] = <<"label", label>> /\ head[3] = <<"cmd", FirstLine(k)>>
      /\ last[1] = <<"log", label>>
  OBVIOUS
<1>4. Text(label, p, k) = t
  BY DEF Text
<1> HIDE DEF head, last
<1>5. /\ head \o k \in Seq(Line) /\ Len(head \o k) = Len(k) + 3
      /\ \A i \in 1..(Len(k) + 3) : (head \o k)[i] = IF i <= 3 THEN head[i] ELSE k[i - 3]
  <2>1. /\ head \o k \in Seq(Line) /\ Len(head \o k) = Len(head) + Len(k)
        /\ \A i \in 1..(Len(head) + Len(k)) :
             (head \o k)[i] = IF i <= Len(head) THEN head[i] ELSE k[i - Len(head)]
    BY <1>1, <1>2, ConcatProperties
  <2>2. Len(k) \in Nat
    BY <1>1
  <2>3. Len(head) + Len(k) = Len(k) + 3
    BY <1>2, <2>2
  <2> QED
    BY <1>2, <2>1, <2>3
<1> DEFINE begin == head \o k
<1>6. Len(k) \in Nat
  BY <1>1
<1> HIDE DEF begin
<1>7. /\ t \in Seq(Line) /\ Len(t) = Len(k) + 4
      /\ \A i \in 1..(Len(k) + 4) : t[i] = IF i <= Len(k) + 3 THEN begin[i] ELSE last[i - (Len(k) + 3)]
  <2>1. begin \in Seq(Line) /\ Len(begin) = Len(k) + 3
    BY <1>5 DEF begin
  <2>2. /\ begin \o last \in Seq(Line) /\ Len(begin \o last) = Len(begin) + Len(last)
        /\ \A i \in 1..(Len(begin) + Len(last)) :
             (begin \o last)[i] = IF i <= Len(begin) THEN begin[i] ELSE last[i - Len(begin)]
    <3>1. ASSUME NEW a \in Seq(Line), NEW b \in Seq(Line)
          PROVE  /\ a \o b \in Seq(Line) /\ Len(a \o b) = Len(a) + Len(b)
                 /\ \A i \in 1..(Len(a) + Len(b)) :
                      (a \o b)[i] = IF i <= Len(a) THEN a[i] ELSE b[i - Len(a)]
      BY ConcatProperties
    <3> QED
      BY <1>2, <2>1, <3>1
  <2>3. Len(begin) + Len(last) = Len(k) + 4
    BY <1>2, <1>6, <2>1
  <2>4. t = begin \o last
    BY DEF begin
  <2> QED
    BY <2>1, <2>2, <2>3, <2>4
<1> HIDE DEF t
<1>8. t[1] = head[1] /\ t[2] = head[2] /\ t[3] = head[3]
  BY <1>5, <1>6, <1>7 DEF begin
<1>9. \A i \in 4..(Len(k) + 3) : t[i] = k[i - 3] /\ i - 3 \in DOMAIN k
  BY <1>1, <1>5, <1>6, <1>7 DEF begin
<1>10. t[Len(k) + 4] = last[1]
  BY <1>6, <1>7
<1> QED
  BY <1>1, <1>3, <1>4, <1>7, <1>8, <1>9, <1>10

\* What a registration has written so far: whole lines, and a last one that may be
\* cut.
LEMMA WrittenLines ==
    ASSUME NEW f \in Name, NEW k \in Command, NEW w \in Written(f, k)
    PROVE  LET t == Text(f[1], f[2], k)
           IN  /\ w \in Seq(Line) /\ Len(w) <= Len(t)
               /\ \A i \in 1..Len(w) : w[i][1] = t[i][1]
               /\ \A i \in 1..(Len(w) - 1) : w[i] = t[i]
               /\ w # Absent
<1> DEFINE t == Text(f[1], f[2], k)
<1>1. f[1] \in Label /\ f[2] \in Pid
  BY DEF Name
<1>2. k \in Seq(Extra)
  BY PidFileAssumption DEF PidFileAssumption
<1>3. /\ t \in Seq(Line) /\ Len(t) \in Nat /\ Len(t) >= 4 /\ t[1] = <<"pid", f[2]>>
  BY <1>1, <1>2, TextLines
<1> HIDE DEF t
<1>5. ASSUME NEW n \in 0..(Len(t) - 1), w = SubSeq(t, 1, n)
      PROVE  /\ w \in Seq(Line) /\ Len(w) = n
             /\ \A i \in 1..n : w[i] = t[i]
  BY <1>3, <1>5
<1>6. ASSUME NEW n \in 0..(Len(t) - 1), w = Append(SubSeq(t, 1, n), <<t[n + 1][1], "cut">>)
      PROVE  /\ w \in Seq(Line) /\ Len(w) = n + 1
             /\ \A i \in 1..n : w[i] = t[i]
             /\ w[n + 1][1] = t[n + 1][1]
  <2>1. t[n + 1] \in Line
    BY <1>3
  <2>2. <<t[n + 1][1], "cut">> \in Line
    BY <2>1 DEF Line
  <2> QED
    BY <1>3, <1>6, <2>2
<1>7. w = t \/ \E n \in 0..(Len(t) - 1) :
        w = SubSeq(t, 1, n) \/ w = Append(SubSeq(t, 1, n), <<t[n + 1][1], "cut">>)
  BY DEF Written, Parts, t
<1> DEFINE Shape == /\ w \in Seq(Line) /\ Len(w) <= Len(t)
                    /\ \A i \in 1..Len(w) : w[i][1] = t[i][1]
                    /\ \A i \in 1..(Len(w) - 1) : w[i] = t[i]
<1>8. ASSUME w = t PROVE Shape
  BY <1>3, <1>8
<1>9. ASSUME NEW n \in 0..(Len(t) - 1), w = SubSeq(t, 1, n)
      PROVE  Shape
  BY <1>3, <1>5, <1>9
<1>10. ASSUME NEW n \in 0..(Len(t) - 1), w = Append(SubSeq(t, 1, n), <<t[n + 1][1], "cut">>)
      PROVE  Shape
  <2>1. w \in Seq(Line) /\ Len(w) = n + 1 /\ (\A i \in 1..n : w[i] = t[i]) /\ w[n + 1][1] = t[n + 1][1]
    BY <1>6, <1>10
  <2>2. \A i \in 1..(n + 1) : i = n + 1 \/ i \in 1..n
    OBVIOUS
  <2> QED
    BY <1>3, <2>1, <2>2
<1> HIDE DEF Shape
<1>11. Shape
  BY <1>7, <1>8, <1>9, <1>10
<1>12. w # Absent
  <2> SUFFICES ASSUME w = << <<"no", "file">> >> PROVE FALSE
    BY DEF Absent
  <2>1. Len(w) = 1 /\ w[1][1] = "no"
    OBVIOUS
  <2>2. t[1][1] = "pid"
    BY <1>3
  <2> QED
    BY <1>11, <2>1, <2>2 DEF Shape
<1> QED
  BY <1>11, <1>12 DEF Shape, t

\* An entry that parses has the fields of one (parse_entry).
LEMMA EntryFields ==
    ASSUME NEW w \in Seq(Line), Parses(w)
    PROVE  /\ Value(w, "pid") \in Number \cup {"cut"}
           /\ Value(w, "label") \in Label \cup {"cut"}
           /\ Value(w, "cmd") \in {"whole", "begin", "cut", "none"}
<1>1. \A i \in DOMAIN w : w[i] \in Line
  OBVIOUS
<1>2. Value(w, "pid") \in Number \cup {"cut"}
  BY DEF Parses, IsNumber
<1>3. Value(w, "label") \in Label \cup {"cut"}
  <2>1. PICK i \in DOMAIN w : w[i][1] = "label" /\ Value(w, "label") = w[i][2]
    BY ValueIs DEF Parses
  <2> QED
    BY <1>1, <2>1 DEF Line
<1>4. ASSUME NEW i \in DOMAIN w, w[i][1] = "cmd" PROVE w[i][2] \in {"whole", "begin", "cut"}
  BY <1>1, <1>4 DEF Line
<1> QED
  BY <1>2, <1>3, <1>4, ValueIs

\* A text that has reached its log line has its first three lines whole: it is read
\* right, unless the command has lines of its own (register, parse_entry).
LEMMA ReadsRight ==
    ASSUME NEW f \in Name, NEW k \in Command, NEW w \in Written(f, k), Parses(w)
    PROVE  Value(w, "cmd") # "begin" => <<Value(w, "label"), Value(w, "pid")>> = f
<1> DEFINE t == Text(f[1], f[2], k)
<1>1. f[1] \in Label /\ f[2] \in Pid /\ f = <<f[1], f[2]>>
  BY DEF Name
<1>2. k \in Seq(Extra)
  BY PidFileAssumption DEF PidFileAssumption
<1>3. /\ w \in Seq(Line) /\ Len(w) <= Len(t)
      /\ \A i \in 1..Len(w) : w[i][1] = t[i][1]
      /\ \A i \in 1..(Len(w) - 1) : w[i] = t[i]
  BY WrittenLines
<1>4. /\ Len(t) = Len(k) + 4 /\ Len(k) \in Nat
      /\ t[1] = <<"pid", f[2]>> /\ t[2] = <<"label", f[1]>> /\ t[3] = <<"cmd", FirstLine(k)>>
      /\ \A i \in 4..(Len(k) + 3) : t[i][1] # "cmd"
      /\ t[Len(k) + 4] = <<"log", f[1]>>
  BY <1>1, <1>2, TextLines
<1> HIDE DEF t
<1>5. PICK last \in DOMAIN w : w[last][1] = "log"
  BY <1>3, ValueIs DEF Parses
<1>6. last >= 4
  BY <1>3, <1>4, <1>5
<1>7. w[1] = t[1] /\ w[2] = t[2] /\ w[3] = t[3] /\ 1 \in DOMAIN w /\ 2 \in DOMAIN w /\ 3 \in DOMAIN w
  BY <1>3, <1>5, <1>6
<1>8. Value(w, "cmd") = FirstLine(k)
  <2>1. \A j \in DOMAIN w : w[j][1] = "cmd" => j = 3
    BY <1>3, <1>4
  <2> QED
    BY <1>3, <1>4, <1>7, <2>1, ValueOfOne
<1>9. CASE k = <<>>
  <2>1. Len(t) = 4
    BY <1>4, <1>9
  <2>2. \A j \in DOMAIN w : j \in {1, 2, 3, 4} /\ w[j][1] = t[j][1]
    BY <1>3, <2>1
  <2>3. t[1][1] = "pid" /\ t[2][1] = "label" /\ t[3][1] = "cmd" /\ t[4][1] = "log"
    BY <1>4, <1>9
  <2>4. /\ \A j \in DOMAIN w : w[j][1] = "pid" => j = 1
        /\ \A j \in DOMAIN w : w[j][1] = "label" => j = 2
    BY <2>2, <2>3
  <2>5. w[1][1] = "pid" /\ w[1][2] = f[2] /\ w[2][1] = "label" /\ w[2][2] = f[1]
    BY <1>4, <1>7
  <2>6. Value(w, "pid") = f[2]
    BY <1>3, <1>7, <2>4, <2>5, ValueOfOne
  <2>7. Value(w, "label") = f[1]
    BY <1>3, <1>7, <2>4, <2>5, ValueOfOne
  <2> QED
    BY <1>1, <2>6, <2>7
<1>10. CASE k # <<>>
  BY <1>8, <1>10 DEF FirstLine
<1> QED
  BY <1>9, <1>10

\* A registration of a command of one line parses, and reads as what it is.
LEMMA RegisteredReads ==
    ASSUME NEW f \in Name
    PROVE  LET t == Text(f[1], f[2], <<>>)
           IN  t \in Seq(Line) /\ t # Absent /\ Parses(t) /\ Value(t, "pid") = f[2]
<1> DEFINE t == Text(f[1], f[2], <<>>)
<1>1. f[1] \in Label /\ f[2] \in Pid /\ <<>> \in Seq(Extra)
  BY DEF Name
<1>2. /\ t \in Seq(Line) /\ Len(t) = 4
      /\ t[1] = <<"pid", f[2]>> /\ t[2] = <<"label", f[1]>> /\ t[3] = <<"cmd", FirstLine(<<>>)>>
      /\ t[4] = <<"log", f[1]>>
  <2>1. PICK k \in Seq(Extra) : k = <<>> /\ Len(k) = 0
    BY <1>1
  <2>2. t = Text(f[1], f[2], k)
    BY <2>1
  <2> HIDE DEF t
  <2>3. /\ t \in Seq(Line) /\ Len(t) = Len(k) + 4
        /\ t[1] = <<"pid", f[2]>> /\ t[2] = <<"label", f[1]>> /\ t[3] = <<"cmd", FirstLine(k)>>
        /\ t[Len(k) + 4] = <<"log", f[1]>>
    BY <1>1, <2>2, TextLines
  <2> QED
    BY <2>1, <2>3
<1> HIDE DEF t
<1>3. DOMAIN t = {1, 2, 3, 4}
  BY <1>2
<1>4. Value(t, "pid") = f[2] /\ Value(t, "label") = f[1] /\ Value(t, "log") = f[1]
  <2>1. /\ \A j \in DOMAIN t : t[j][1] = "pid" => j = 1
        /\ \A j \in DOMAIN t : t[j][1] = "label" => j = 2
        /\ \A j \in DOMAIN t : t[j][1] = "log" => j = 4
    BY <1>2, <1>3
  <2>2. /\ t[1][1] = "pid" /\ t[1][2] = f[2] /\ t[2][1] = "label" /\ t[2][2] = f[1]
        /\ t[4][1] = "log" /\ t[4][2] = f[1] /\ 4 \in DOMAIN t
    BY <1>2
  <2>3. Value(t, "pid") = f[2]
    BY <1>2, <1>3, <2>1, <2>2, ValueOfOne
  <2>4. Value(t, "label") = f[1]
    BY <1>2, <1>3, <2>1, <2>2, ValueOfOne
  <2>5. Value(t, "log") = f[1]
    BY <1>2, <1>3, <2>1, <2>2, ValueOfOne
  <2> QED
    BY <2>3, <2>4, <2>5
<1>5. Parses(t)
  BY <1>1, <1>4, PidFileAssumption DEF PidFileAssumption, Parses, IsNumber
<1>6. t # Absent
  BY <1>2 DEF Absent
<1> QED
  BY <1>2, <1>4, <1>5, <1>6 DEF t

-----------------------------------------------------------------------------
(* Steps.                                                                  *)

\* A pid that comes to life has been handed out once more.
LEMMA ProcStep ==
    ASSUME TypeOK, [Next]_vars, NEW p \in Pid
    PROVE  /\ births[p] \in Nat /\ births'[p] \in Nat /\ births[p] <= births'[p]
           /\ births'[p] = births[p] => (p \in alive' => p \in alive)
           /\ births'[p] = births[p] => (task[p] = NoTask => task'[p] = NoTask)
<1>0. births[p] \in Nat
  BY PidFileAssumption DEF TypeOK, PidFileAssumption
<1>1. CASE UNCHANGED <<procs, task>>
  BY <1>0, <1>1 DEF procs
<1>2. ASSUME NEW q \in Pid, NEW label \in Label, NEW k \in Command, Spawn(q, label, k)
      PROVE  /\ births'[p] = IF p = q THEN births[p] + 1 ELSE births[p]
             /\ p # q => (p \in alive' => p \in alive) /\ task'[p] = task[p]
  BY <1>2 DEF Spawn, TypeOK
<1>3. ASSUME NEW q \in Pid, Stranger(q)
      PROVE  /\ births'[p] = IF p = q THEN births[p] + 1 ELSE births[p]
             /\ p # q => (p \in alive' => p \in alive)
             /\ task' = task
  BY <1>3 DEF Stranger, TypeOK
<1>4. ASSUME NEW q \in Pid, Exit(q)
      PROVE  births' = births /\ alive' \subseteq alive /\ task' = task
  BY <1>4 DEF Exit
<1>5. ASSUME NEW q \in Pid, CreateFile(q) \/ FillFile(q) \/ RegisterFails(q)
      PROVE  UNCHANGED procs /\ (task[p] = NoTask => task'[p] = NoTask)
  BY <1>5 DEF CreateFile, FillFile, RegisterFails, TypeOK
<1>6. ASSUME NEW c \in Cmd, Begin(c) \/ Scanned(c) \/ End(c) PROVE UNCHANGED <<procs, task>>
  BY <1>6 DEF Begin, Scanned, End
<1>7. ASSUME NEW c \in Cmd, NEW f \in Name, ReadFile(c, f) PROVE UNCHANGED <<procs, task>>
  BY <1>7 DEF ReadFile
<1>8. ASSUME NEW c \in Cmd, NEW e \in found[c], Terminated(c, e) \/ RemoveFile(c, e)
      PROVE  UNCHANGED <<procs, task>>
  BY <1>8 DEF Terminated, RemoveFile
<1>9. CASE UNCHANGED vars
  BY <1>1, <1>9 DEF vars
<1> QED
  BY <1>0, <1>1, <1>2, <1>3, <1>4, <1>5, <1>6, <1>7, <1>8, <1>9 DEF Next, procs

\* A file changes only under the registration of its pid, or where its pid was seen
\* dead (register; sweep_dead and stop).
LEMMA FileStep ==
    ASSUME TypeOK, [Next]_vars, NEW f \in Name
    PROVE  \/ files'[f] = files[f]
           \/ /\ task[f[2]] # NoTask /\ task[f[2]].label = f[1]
              /\ task[f[2]].cmd \in Command /\ files'[f] \in Written(f, task[f[2]].cmd)
           \/ /\ files'[f] = Absent
              /\ \E c \in Cmd : \E e \in found[c] : RemoveFile(c, e) /\ e.dead /\ e.file = f
<1>1. f[1] \in Label /\ f[2] \in Pid /\ f = <<f[1], f[2]>>
  BY DEF Name
<1>2. ASSUME NEW p \in Pid, CreateFile(p) \/ FillFile(p), files'[f] # files[f]
      PROVE  /\ p = f[2] /\ task[p] # NoTask /\ task[p].label = f[1] /\ task[p].cmd \in Command
             /\ \/ files'[f] = <<>>
                \/ files'[f] = Text(task[p].label, p, task[p].cmd)
                \/ files'[f] \in Parts(Text(task[p].label, p, task[p].cmd))
  <2>1. task[p] # NoTask
    BY <1>2 DEF CreateFile, FillFile
  <2>2. task[p].label \in Label /\ task[p].cmd \in Command
    BY <2>1 DEF TypeOK
  <2>3. <<task[p].label, p>> \in Name
    BY <2>2 DEF Name
  <2>4. \A g \in Name : g # <<task[p].label, p>> => files'[g] = files[g]
    BY <1>2 DEF CreateFile, FillFile, TypeOK
  <2>5. f = <<task[p].label, p>>
    BY <1>2, <2>4
  <2>6. CASE CreateFile(p)
    BY <2>1, <2>2, <2>5, <2>6 DEF CreateFile, TypeOK
  <2>7. CASE FillFile(p)
    BY <2>1, <2>2, <2>5, <2>7 DEF FillFile, TypeOK
  <2> QED
    BY <1>2, <2>6, <2>7
<1>3. \A k \in Command : <<>> \in Written(f, k)
  <2> SUFFICES ASSUME NEW k \in Command PROVE <<>> \in Written(f, k)
    OBVIOUS
  <2> DEFINE t == Text(f[1], f[2], k)
  <2>1. k \in Seq(Extra)
    BY PidFileAssumption DEF PidFileAssumption
  <2>2. t \in Seq(Line) /\ Len(t) \in Nat /\ Len(t) >= 4
    BY <1>1, <2>1, TextLines
  <2> HIDE DEF t
  <2>3. 0 \in 0..(Len(t) - 1) /\ SubSeq(t, 1, 0) = <<>>
    BY <2>2
  <2>4. <<>> \in Parts(t)
    BY <2>3 DEF Parts
  <2> QED
    BY <2>4 DEF Written, t
<1>4. ASSUME NEW p \in Pid, CreateFile(p) \/ FillFile(p), files'[f] # files[f]
      PROVE  /\ task[f[2]] # NoTask /\ task[f[2]].label = f[1] /\ task[f[2]].cmd \in Command
             /\ files'[f] \in Written(f, task[f[2]].cmd)
  <2>1. /\ p = f[2] /\ task[p] # NoTask /\ task[p].label = f[1] /\ task[p].cmd \in Command
        /\ \/ files'[f] = <<>>
           \/ files'[f] = Text(task[p].label, p, task[p].cmd)
           \/ files'[f] \in Parts(Text(task[p].label, p, task[p].cmd))
    BY <1>2, <1>4
  <2> QED
    BY <1>3, <2>1 DEF Written
<1>5. ASSUME NEW c \in Cmd, NEW e \in found[c], RemoveFile(c, e), files'[f] # files[f]
      PROVE  files'[f] = Absent /\ e.dead /\ e.file = f
  BY <1>5 DEF RemoveFile, TypeOK
<1>6. ASSUME NEW p \in Pid, NEW label \in Label, NEW k \in Command, Spawn(p, label, k)
      PROVE  files' = files
  BY <1>6 DEF Spawn
<1>7. ASSUME NEW p \in Pid, Stranger(p) \/ Exit(p) \/ RegisterFails(p) PROVE files' = files
  BY <1>7 DEF Stranger, Exit, RegisterFails
<1>8. ASSUME NEW c \in Cmd, Begin(c) \/ Scanned(c) \/ End(c) PROVE files' = files
  BY <1>8 DEF Begin, Scanned, End
<1>9. ASSUME NEW c \in Cmd, NEW g \in Name, ReadFile(c, g) PROVE files' = files
  BY <1>9 DEF ReadFile
<1>10. ASSUME NEW c \in Cmd, NEW e \in found[c], Terminated(c, e) PROVE files' = files
  BY <1>10 DEF Terminated
<1>11. CASE UNCHANGED vars
  BY <1>11 DEF vars
<1> QED
  BY <1>4, <1>5, <1>6, <1>7, <1>8, <1>9, <1>10, <1>11 DEF Next

\* An invocation knows what it knew, or has read one file, or has seen one process
\* of which it has an entry die (list; terminate).
LEMMA FoundStep ==
    ASSUME TypeOK, [Next]_vars, NEW c \in Cmd, NEW e \in found'[c]
    PROVE  \/ e \in found[c]
           \/ /\ UNCHANGED procs
              /\ \E f \in todo[c] : files[f] # Absent /\ Parses(files[f]) /\ e = EntryOf(f)
           \/ /\ UNCHANGED procs
              /\ \E g \in found[c] : ~g.dead /\ g.pid \notin alive /\ e = [g EXCEPT !.dead = TRUE]
<1>1. CASE UNCHANGED found
  BY <1>1
<1>2. ASSUME NEW d \in Cmd, NEW f \in Name, ReadFile(d, f), e \notin found[c]
      PROVE  /\ UNCHANGED procs /\ f \in todo[c] /\ files[f] # Absent /\ Parses(files[f])
             /\ e = EntryOf(f)
  BY <1>2 DEF ReadFile, TypeOK
<1>3. ASSUME NEW d \in Cmd, NEW g \in found[d], Terminated(d, g), e \notin found[c]
      PROVE  /\ UNCHANGED procs /\ g \in found[c] /\ ~g.dead /\ g.pid \notin alive
             /\ e = [g EXCEPT !.dead = TRUE]
  BY <1>3 DEF Terminated, TypeOK
<1>4. ASSUME NEW d \in Cmd, NEW g \in found[d], RemoveFile(d, g) PROVE e \in found[c]
  BY <1>4 DEF RemoveFile, TypeOK
<1>5. ASSUME NEW d \in Cmd, Begin(d) \/ End(d) PROVE e \in found[c]
  BY <1>5 DEF Begin, End, TypeOK
<1>6. ASSUME NEW d \in Cmd, Scanned(d) PROVE UNCHANGED found
  BY <1>6 DEF Scanned
<1>7. ASSUME NEW p \in Pid, NEW label \in Label, NEW k \in Command, Spawn(p, label, k)
      PROVE  UNCHANGED found
  BY <1>7 DEF Spawn, calls
<1>8. ASSUME NEW p \in Pid,
             Stranger(p) \/ Exit(p) \/ CreateFile(p) \/ FillFile(p) \/ RegisterFails(p)
      PROVE  UNCHANGED found
  BY <1>8 DEF Stranger, Exit, CreateFile, FillFile, RegisterFails, calls
<1>9. CASE UNCHANGED vars
  BY <1>9 DEF vars, calls
<1> QED
  BY <1>1, <1>2, <1>3, <1>4, <1>5, <1>6, <1>7, <1>8, <1>9 DEF Next

-----------------------------------------------------------------------------
(* The invariant.                                                          *)

\* What is read of a file that a registration wrote is an entry.
LEMMA EntryOfType ==
    ASSUME TypeOK, NEW f \in Name, files[f] # Absent, Parses(files[f])
    PROVE  EntryOf(f) \in Entry
<1>1. files[f] \in Seq(Line) /\ f[2] \in Pid
  BY DEF TypeOK, Name
<1>2. births[f[2]] \in 0..Births
  BY <1>1 DEF TypeOK
<1> QED
  BY <1>1, <1>2, EntryFields DEF EntryOf, Entry

LEMMA StepFiles ==
    ASSUME TypeOK, WrittenOnly, [Next]_vars
    PROVE  WrittenOnly' /\ files' \in [Name -> Seq(Line) \cup {Absent}]
<1>1. ASSUME NEW f \in Name
      PROVE  files'[f] = Absent \/ \E k \in Command : files'[f] \in Written(f, k)
  BY FileStep DEF WrittenOnly
<1>2. \A f \in Name : files'[f] \in Seq(Line) \cup {Absent}
  BY <1>1, WrittenLines
<1>3. DOMAIN files' = Name /\ files' = [f \in Name |-> files'[f]]
  BY DEF TypeOK, Next, Spawn, Stranger, Exit, CreateFile, FillFile, RegisterFails, Begin, ReadFile,
         Scanned, Terminated, RemoveFile, End, vars
<1> QED
  BY <1>1, <1>2, <1>3 DEF WrittenOnly, Written, Parts, Text

LEMMA StepFound ==
    ASSUME TypeOK, [Next]_vars
    PROVE  found' \in [Cmd -> SUBSET Entry]
<1>1. ASSUME NEW c \in Cmd, NEW e \in found'[c] PROVE e \in Entry
  <2>1. ASSUME NEW g \in found[c], e = [g EXCEPT !.dead = TRUE] PROVE e \in Entry
    <3>1. g \in Entry
      BY DEF TypeOK
    <3> QED
      BY <2>1, <3>1 DEF Entry
  <2>2. ASSUME NEW f \in todo[c], files[f] # Absent, Parses(files[f]), e = EntryOf(f) PROVE e \in Entry
    BY <2>2, EntryOfType DEF TypeOK
  <2>3. e \in found[c] => e \in Entry
    BY DEF TypeOK
  <2> QED
    BY <2>1, <2>2, <2>3, FoundStep
<1>2. DOMAIN found' = Cmd /\ found' = [c \in Cmd |-> found'[c]]
  BY DEF TypeOK, Next, Spawn, Stranger, Exit, CreateFile, FillFile, RegisterFails, Begin, ReadFile,
         Scanned, Terminated, RemoveFile, End, vars, calls
<1> QED
  BY <1>1, <1>2

LEMMA StepType ==
    ASSUME TypeOK, WrittenOnly, [Next]_vars
    PROVE  TypeOK'
<1>1. files' \in [Name -> Seq(Line) \cup {Absent}] /\ found' \in [Cmd -> SUBSET Entry]
  BY StepFiles, StepFound
<1> DEFINE Procs == alive \subseteq Pid /\ births \in [Pid -> 0..Births] /\ \A p \in alive : births[p] > 0
           Tasks == task \in [Pid -> [label : Label, cmd : Command] \cup {NoTask}]
           Calls == /\ pc \in [Cmd -> {"idle", "scan", "act"}]
                    /\ want \in [Cmd -> Label \cup {"ps"}]
                    /\ todo \in [Cmd -> SUBSET Name]
                    /\ known \in [Cmd -> SUBSET (Name \X (0..Births))]
<1>2. SUFFICES Procs' /\ Tasks' /\ Calls'
  BY <1>1 DEF TypeOK
<1>3. Procs /\ Tasks /\ Calls
  BY DEF TypeOK
<1>4. Births \in Nat
  BY PidFileAssumption DEF PidFileAssumption
<1>5. UNCHANGED procs => Procs'
  BY <1>3 DEF procs
<1>6. UNCHANGED task => Tasks'
  BY <1>3
<1>7. UNCHANGED <<pc, want, todo, known>> => Calls'
  BY <1>3
<1>8. ASSUME NEW p \in Pid, NEW label \in Label, NEW k \in Command, Spawn(p, label, k)
      PROVE  Procs' /\ Tasks' /\ Calls'
  <2>1. Procs'
    BY <1>3, <1>4, <1>8 DEF Spawn
  <2>2. Tasks'
    BY <1>3, <1>8 DEF Spawn
  <2> QED
    BY <1>7, <1>8, <2>1, <2>2 DEF Spawn, calls
<1>9. ASSUME NEW p \in Pid, Stranger(p) PROVE Procs' /\ Tasks' /\ Calls'
  <2>1. Procs'
    BY <1>3, <1>4, <1>9 DEF Stranger
  <2> QED
    BY <1>6, <1>7, <1>9, <2>1 DEF Stranger, calls
<1>10. ASSUME NEW p \in Pid, Exit(p) PROVE Procs' /\ Tasks' /\ Calls'
  <2>1. Procs'
    BY <1>3, <1>10 DEF Exit
  <2> QED
    BY <1>6, <1>7, <1>10, <2>1 DEF Exit, calls
<1>11. ASSUME NEW p \in Pid, CreateFile(p) \/ FillFile(p) \/ RegisterFails(p)
       PROVE  Procs' /\ Tasks' /\ Calls'
  <2>1. Tasks'
    BY <1>3, <1>11 DEF CreateFile, FillFile, RegisterFails
  <2>2. UNCHANGED <<procs, calls>>
    BY <1>11 DEF CreateFile, FillFile, RegisterFails
  <2> QED
    BY <1>5, <1>7, <2>1, <2>2 DEF calls
<1>12. ASSUME NEW c \in Cmd, Begin(c) PROVE Procs' /\ Tasks' /\ Calls'
  <2>1. known' \in [Cmd -> SUBSET (Name \X (0..Births))]
    <3>1. {<<f, births[f[2]]>> : f \in {g \in Name : Registered(g)}} \subseteq Name \X (0..Births)
      BY <1>3 DEF Name
    <3> QED
      BY <1>3, <1>12, <3>1 DEF Begin
  <2>2. Calls'
    BY <1>3, <1>12, <2>1 DEF Begin
  <2> QED
    BY <1>5, <1>6, <1>12, <2>2 DEF Begin
<1>13. ASSUME NEW c \in Cmd, Scanned(c) \/ End(c) PROVE Procs' /\ Tasks' /\ Calls'
  <2>1. Calls'
    BY <1>3, <1>13 DEF Scanned, End
  <2> QED
    BY <1>5, <1>6, <1>13, <2>1 DEF Scanned, End
<1>14. ASSUME NEW c \in Cmd, NEW f \in Name, ReadFile(c, f) PROVE Procs' /\ Tasks' /\ Calls'
  <2>1. Calls'
    BY <1>3, <1>14 DEF ReadFile
  <2> QED
    BY <1>5, <1>6, <1>14, <2>1 DEF ReadFile
<1>15. ASSUME NEW c \in Cmd, NEW e \in found[c], Terminated(c, e) \/ RemoveFile(c, e)
       PROVE  Procs' /\ Tasks' /\ Calls'
  BY <1>5, <1>6, <1>7, <1>15 DEF Terminated, RemoveFile
<1>16. CASE UNCHANGED vars
  BY <1>5, <1>6, <1>7, <1>16 DEF vars, calls
<1> QED
  BY <1>8, <1>9, <1>10, <1>11, <1>12, <1>13, <1>14, <1>15, <1>16 DEF Next

LEMMA StepReadRight ==
    ASSUME TypeOK, WrittenOnly, ReadRight, [Next]_vars
    PROVE  ReadRight'
<1> SUFFICES ASSUME NEW c \in Cmd, NEW e \in found'[c], e.cmd # "begin"
             PROVE  <<e.label, e.pid>> = e.file
  BY DEF ReadRight
<1>1. CASE e \in found[c]
  BY <1>1 DEF ReadRight
<1>2. ASSUME NEW f \in todo[c], files[f] # Absent, Parses(files[f]), e = EntryOf(f)
      PROVE  <<e.label, e.pid>> = e.file
  <2>1. f \in Name
    BY DEF TypeOK
  <2>2. PICK k \in Command : files[f] \in Written(f, k)
    BY <1>2, <2>1 DEF WrittenOnly
  <2> QED
    BY <1>2, <2>1, <2>2, ReadsRight DEF EntryOf
<1>3. ASSUME NEW g \in found[c], e = [g EXCEPT !.dead = TRUE] PROVE <<e.label, e.pid>> = e.file
  BY <1>3 DEF ReadRight, TypeOK, Entry
<1> QED
  BY <1>1, <1>2, <1>3, FoundStep

LEMMA StepDeadForGood ==
    ASSUME TypeOK, WrittenOnly, ReadRight, ReadRight', DeadForGood, [Next]_vars
    PROVE  DeadForGood'
<1> SUFFICES ASSUME NEW c \in Cmd, NEW e \in found'[c]
             PROVE  /\ e.birth <= births'[e.file[2]]
                    /\ e.dead /\ e.cmd # "begin" =>
                         e.file[2] \notin alive' \/ e.birth # births'[e.file[2]]
  BY DEF DeadForGood
<1>1. e \in Entry
  BY StepFound
<1>2. e.file \in Name /\ e.file[2] \in Pid /\ e.birth \in Int
  BY <1>1 DEF Entry, Name
<1>3. /\ births[e.file[2]] \in Nat /\ births'[e.file[2]] \in Nat
      /\ births[e.file[2]] <= births'[e.file[2]]
      /\ births'[e.file[2]] = births[e.file[2]] => (e.file[2] \in alive' => e.file[2] \in alive)
  BY <1>2, ProcStep
<1>4. e.cmd # "begin" => e.pid = e.file[2]
  BY <1>2 DEF ReadRight
<1>5. CASE e \in found[c]
  <2>1. /\ e.birth <= births[e.file[2]]
        /\ e.dead /\ e.cmd # "begin" => e.file[2] \notin alive \/ e.birth # births[e.file[2]]
    BY <1>5 DEF DeadForGood
  <2> QED
    BY <1>2, <1>3, <2>1
<1>6. ASSUME UNCHANGED procs,
             NEW f \in todo[c], files[f] # Absent, Parses(files[f]), e = EntryOf(f)
      PROVE  /\ e.birth <= births'[e.file[2]]
             /\ e.dead /\ e.cmd # "begin" => e.file[2] \notin alive' \/ e.birth # births'[e.file[2]]
  <2>1. e.birth = births[e.file[2]] /\ (e.dead => e.pid \notin alive)
    BY <1>6 DEF EntryOf
  <2> QED
    BY <1>3, <1>4, <1>6, <2>1 DEF procs
<1>7. ASSUME UNCHANGED procs,
             NEW g \in found[c], g.pid \notin alive, e = [g EXCEPT !.dead = TRUE]
      PROVE  /\ e.birth <= births'[e.file[2]]
             /\ e.dead /\ e.cmd # "begin" => e.file[2] \notin alive' \/ e.birth # births'[e.file[2]]
  <2>1. e.birth = g.birth /\ e.file = g.file /\ e.pid = g.pid
    BY <1>7 DEF TypeOK, Entry
  <2>2. g.birth <= births[g.file[2]]
    BY DEF DeadForGood
  <2> QED
    BY <1>4, <1>7, <2>1, <2>2 DEF procs
<1> QED
  BY <1>5, <1>6, <1>7, FoundStep

\* What was there when an invocation began, and still is, has been there throughout.
LEMMA StillThereBefore ==
    ASSUME TypeOK, WrittenOnly, [Next]_vars, NEW k \in Name \X (0..Births),
           k[2] <= births[k[1][2]], k[2] = births[k[1][2]] => task[k[1][2]] = NoTask,
           StillThere(k)'
    PROVE  StillThere(k) /\ k[1][2] \in alive
<1> DEFINE f == k[1]
           p == k[1][2]
<1>1. f \in Name /\ p \in Pid /\ k[2] \in Nat
  BY PidFileAssumption DEF Name, PidFileAssumption
<1>2. /\ births'[p] = k[2] /\ p \in alive' /\ files'[f] = Text(f[1], f[2], <<>>)
  BY DEF StillThere, Registered, Text, FirstLine
<1>3. births[p] = k[2] /\ task[p] = NoTask /\ p \in alive
  <2>1. /\ births[p] \in Nat /\ births'[p] \in Nat /\ births[p] <= births'[p]
        /\ births'[p] = births[p] => (p \in alive' => p \in alive)
    BY <1>1, ProcStep
  <2>2. births[p] = k[2]
    BY <1>1, <1>2, <2>1
  <2> QED
    BY <1>2, <2>1, <2>2
<1>4. files'[f] # Absent
  BY <1>1, <1>2, RegisteredReads
<1>5. files[f] = files'[f]
  BY <1>1, <1>3, <1>4, FileStep
<1> QED
  BY <1>2, <1>3, <1>5 DEF StillThere, Registered

\* An entry of a process that runs stays as it is (the loops of sweep_dead and stop).
LEMMA RunningStays ==
    ASSUME TypeOK, [Next]_vars, NEW c \in Cmd, NEW e \in found[c], ~e.dead, e.pid \in alive,
           pc'[c] # "idle", pc[c] # "idle"
    PROVE  e \in found'[c]
<1>1. ASSUME NEW d \in Cmd, Begin(d) \/ End(d) PROVE e \in found'[c]
  <2>1. d # c
    BY <1>1 DEF Begin, End, TypeOK
  <2> QED
    BY <1>1, <2>1 DEF Begin, End, TypeOK
<1>2. ASSUME NEW d \in Cmd, NEW f \in Name, ReadFile(d, f) PROVE e \in found'[c]
  BY <1>2 DEF ReadFile, TypeOK
<1>3. ASSUME NEW d \in Cmd, NEW g \in found[d], Terminated(d, g) PROVE e \in found'[c]
  BY <1>3 DEF Terminated, TypeOK
<1>4. ASSUME NEW d \in Cmd, NEW g \in found[d], RemoveFile(d, g) PROVE e \in found'[c]
  BY <1>4 DEF RemoveFile, TypeOK
<1>5. ASSUME NEW d \in Cmd, Scanned(d) PROVE e \in found'[c]
  BY <1>5 DEF Scanned
<1>6. ASSUME NEW p \in Pid, NEW label \in Label, NEW k \in Command, Spawn(p, label, k)
      PROVE  e \in found'[c]
  BY <1>6 DEF Spawn, calls
<1>7. ASSUME NEW p \in Pid,
             Stranger(p) \/ Exit(p) \/ CreateFile(p) \/ FillFile(p) \/ RegisterFails(p)
      PROVE  e \in found'[c]
  BY <1>7 DEF Stranger, Exit, CreateFile, FillFile, RegisterFails, calls
<1>8. CASE UNCHANGED vars
  BY <1>8 DEF vars, calls
<1> QED
  BY <1>1, <1>2, <1>3, <1>4, <1>5, <1>6, <1>7, <1>8 DEF Next

\* The list of files to read only gets shorter, by the one that is read, and what an
\* invocation is to know is fixed when it begins.
LEMMA ScanStep ==
    ASSUME TypeOK, [Next]_vars, NEW c \in Cmd
    PROVE  \/ Begin(c)
           \/ End(c)
           \/ /\ pc'[c] = pc[c] /\ known'[c] = known[c]
              /\ \/ todo'[c] = todo[c]
                 \/ \E f \in Name : ReadFile(c, f) /\ todo'[c] = todo[c] \ {f}
           \/ Scanned(c)
<1>1. ASSUME NEW d \in Cmd, d # c, Begin(d) \/ End(d) \/ Scanned(d)
      PROVE  UNCHANGED <<pc[c], known[c], todo[c]>>
  BY <1>1 DEF Begin, End, Scanned, TypeOK
<1>2. ASSUME NEW d \in Cmd, NEW f \in Name, ReadFile(d, f)
      PROVE  /\ UNCHANGED <<pc[c], known[c]>>
             /\ todo'[c] = todo[c] \/ (ReadFile(c, f) /\ todo'[c] = todo[c] \ {f})
  BY <1>2 DEF ReadFile, TypeOK
<1>3. ASSUME NEW d \in Cmd, NEW g \in found[d], Terminated(d, g) \/ RemoveFile(d, g)
      PROVE  UNCHANGED <<pc[c], known[c], todo[c]>>
  BY <1>3 DEF Terminated, RemoveFile
<1>4. ASSUME NEW p \in Pid, NEW label \in Label, NEW k \in Command, Spawn(p, label, k)
      PROVE  UNCHANGED <<pc[c], known[c], todo[c]>>
  BY <1>4 DEF Spawn, calls
<1>5. ASSUME NEW p \in Pid,
             Stranger(p) \/ Exit(p) \/ CreateFile(p) \/ FillFile(p) \/ RegisterFails(p)
      PROVE  UNCHANGED <<pc[c], known[c], todo[c]>>
  BY <1>5 DEF Stranger, Exit, CreateFile, FillFile, RegisterFails, calls
<1>6. CASE UNCHANGED vars
  BY <1>6 DEF vars, calls
<1> QED
  BY <1>1, <1>2, <1>3, <1>4, <1>5, <1>6 DEF Next

\* The file of a process that runs yields an entry that says so.
LEMMA ReadsRunning ==
    ASSUME TypeOK, NEW c \in Cmd, NEW f \in Name, ReadFile(c, f), Registered(f)
    PROVE  \E e \in found'[c] : e.file = f /\ ~e.dead /\ e.pid = f[2]
<1>1. files[f] = Text(f[1], f[2], <<>>) /\ f[2] \in alive
  BY DEF Registered
<1>2. files[f] # Absent /\ Parses(files[f]) /\ Value(files[f], "pid") = f[2]
  BY <1>1, RegisteredReads
<1>3. EntryOf(f) \in found'[c]
  BY <1>2 DEF ReadFile, TypeOK
<1> QED
  BY <1>1, <1>2, <1>3 DEF EntryOf

LEMMA StepFollowed ==
    ASSUME TypeOK, WrittenOnly, Followed, [Next]_vars
    PROVE  Followed'
<1> DEFINE Seen(c, k) == \E e \in found[c] : e.file = k[1] /\ ~e.dead /\ e.pid = k[1][2]
<1> SUFFICES ASSUME NEW c \in Cmd
             PROVE  /\ (pc[c] = "idle" => known[c] = {})'
                    /\ (pc[c] # "scan" => todo[c] = {})'
                    /\ \A k \in known'[c] :
                         /\ k[2] <= births'[k[1][2]]
                         /\ k[2] = births'[k[1][2]] => task'[k[1][2]] = NoTask
                         /\ StillThere(k)' => k[1] \in todo'[c] \/ Seen(c, k)'
  BY DEF Followed
<1>1. CASE Begin(c)
  <2>1. /\ pc'[c] = "scan" /\ UNCHANGED <<procs, task, files>>
        /\ todo'[c] = {f \in Name : files[f] # Absent}
        /\ known'[c] = {<<f, births[f[2]]>> : f \in {g \in Name : Registered(g)}}
    BY <1>1 DEF Begin, TypeOK
  <2>2. ASSUME NEW k \in known'[c]
        PROVE  /\ k[1] \in Name /\ Registered(k[1]) /\ k[2] = births[k[1][2]]
               /\ k[1] \in todo'[c] /\ task[k[1][2]] = NoTask
    <3>1. k[1] \in Name /\ Registered(k[1]) /\ k[2] = births[k[1][2]]
      BY <2>1
    <3>2. files[k[1]] # Absent
      BY <3>1, RegisteredReads DEF Registered
    <3> QED
      BY <2>1, <3>1, <3>2 DEF Registered
  <2>3. ASSUME NEW k \in known'[c] PROVE births[k[1][2]] \in Nat
    BY <2>2, PidFileAssumption DEF Name, TypeOK, PidFileAssumption
  <2> QED
    BY <2>1, <2>2, <2>3 DEF procs
<1>2. CASE End(c)
  BY <1>2 DEF End, TypeOK
<1>3. ASSUME pc'[c] # "idle", pc[c] # "idle", known'[c] = known[c],
             \/ todo'[c] = todo[c]
             \/ \E f \in Name : ReadFile(c, f) /\ todo'[c] = todo[c] \ {f},
             NEW k \in known'[c]
      PROVE  /\ k[2] <= births'[k[1][2]]
             /\ k[2] = births'[k[1][2]] => task'[k[1][2]] = NoTask
             /\ StillThere(k)' => k[1] \in todo'[c] \/ Seen(c, k)'
  <2>1. k \in Name \X (0..Births) /\ k[1] \in Name /\ k[1][2] \in Pid /\ k[2] \in Int
    BY <1>3 DEF TypeOK, Name
  <2>2. /\ k[2] <= births[k[1][2]]
        /\ k[2] = births[k[1][2]] => task[k[1][2]] = NoTask
        /\ StillThere(k) => k[1] \in todo[c] \/ Seen(c, k)
    BY <1>3 DEF Followed
  <2>3. /\ births[k[1][2]] \in Nat /\ births'[k[1][2]] \in Nat
        /\ births[k[1][2]] <= births'[k[1][2]]
        /\ births'[k[1][2]] = births[k[1][2]] => (task[k[1][2]] = NoTask => task'[k[1][2]] = NoTask)
    BY <2>1, ProcStep
  <2>4. /\ k[2] <= births'[k[1][2]]
        /\ k[2] = births'[k[1][2]] => task'[k[1][2]] = NoTask
    BY <2>1, <2>2, <2>3
  <2>5. ASSUME StillThere(k)' PROVE k[1] \in todo'[c] \/ Seen(c, k)'
    <3>1. StillThere(k) /\ k[1][2] \in alive
      BY <2>1, <2>2, <2>5, StillThereBefore
    <3>2. CASE Seen(c, k)
      BY <1>3, <3>1, <3>2, RunningStays
    <3>3. CASE k[1] \in todo[c]
      <4>1. CASE k[1] \in todo'[c]
        BY <4>1
      <4>2. CASE k[1] \notin todo'[c]
        <5>1. ReadFile(c, k[1])
          BY <1>3, <3>3, <4>2
        <5> QED
          BY <2>1, <3>1, <5>1, ReadsRunning DEF StillThere
      <4> QED
        BY <4>1, <4>2
    <3> QED
      BY <2>2, <3>1, <3>2, <3>3
  <2> QED
    BY <2>4, <2>5
<1>4. CASE Scanned(c)
  <2>1. /\ pc[c] = "scan" /\ pc'[c] = "act" /\ todo[c] = {}
        /\ todo'[c] = todo[c] /\ known'[c] = known[c]
    BY <1>4 DEF Scanned, TypeOK
  <2> HIDE DEF Seen
  <2> QED
    BY <1>3, <2>1
<1>5. ASSUME pc'[c] = pc[c], known'[c] = known[c],
             \/ todo'[c] = todo[c]
             \/ \E f \in Name : ReadFile(c, f) /\ todo'[c] = todo[c] \ {f}
      PROVE  /\ (pc[c] = "idle" => known[c] = {})'
             /\ (pc[c] # "scan" => todo[c] = {})'
             /\ \A k \in known'[c] :
                  /\ k[2] <= births'[k[1][2]]
                  /\ k[2] = births'[k[1][2]] => task'[k[1][2]] = NoTask
                  /\ StillThere(k)' => k[1] \in todo'[c] \/ Seen(c, k)'
  <2>1. (pc[c] = "idle" => known[c] = {}) /\ (pc[c] # "scan" => todo[c] = {})
    BY DEF Followed
  <2>2. pc'[c] = "idle" => known'[c] = {}
    BY <1>5, <2>1
  <2>3. pc'[c] # "scan" => todo'[c] = {}
    BY <1>5, <2>1
  <2> HIDE DEF Seen
  <2> QED
    BY <1>3, <1>5, <2>2, <2>3
<1> HIDE DEF Seen
<1> QED
  BY <1>1, <1>2, <1>4, <1>5, ScanStep

-----------------------------------------------------------------------------
(* The theorems.                                                           *)

LEMMA InitPidFileInv == Init => PidFileInv
<1> SUFFICES ASSUME Init PROVE PidFileInv
  OBVIOUS
<1>1. TypeOK
  BY PidFileAssumption DEF PidFileAssumption, Init, TypeOK
<1> QED
  BY <1>1 DEF Init, PidFileInv, WrittenOnly, ReadRight, DeadForGood, Followed

\* PidFileInv is inductive: half-written files and reused pids included.
THEOREM PidFileInductive == Spec => []PidFileInv
<1>1. PidFileInv /\ [Next]_vars => PidFileInv'
  BY StepType, StepFiles, StepReadRight, StepDeadForGood, StepFollowed DEF PidFileInv
<1> QED
  BY <1>1, InitPidFileInv, PTL DEF Spec

\* Every variable keeps its type.
THEOREM PidFileTypeCorrect == Spec => []TypeOK
BY PidFileInductive, PTL DEF PidFileInv

\* Whatever is read, at whatever moment of a registration, is right or was written by
\* the command itself (registry.rs:47, 55-83).
THEOREM ReadsAreRight == Spec => []ReadRight
BY PidFileInductive, PTL DEF PidFileInv

\* No running daemon is overlooked because of what else is in the directory
\* (registry.rs:185-203).
THEOREM NobodyPassedOver == Spec => []NotPassedOver
<1>1. PidFileInv => NotPassedOver
  <2> SUFFICES ASSUME PidFileInv, NEW c \in Cmd, pc[c] = "act", NEW k \in known[c],
                      births[k[1][2]] = k[2], Registered(k[1])
               PROVE  \E e \in found[c] : e.file = k[1] /\ ~e.dead
    BY DEF NotPassedOver
  <2> QED
    BY DEF PidFileInv, Followed, StillThere
<1> QED
  BY <1>1, PidFileInductive, PTL

\* A running daemon loses its file only to an invocation that read it when it was
\* another's (registry.rs:87, 110-112, 447-451).
THEOREM LostToReuseOnly == Spec => LostOnlyToReuse
<1> DEFINE Lost ==
      \A f \in Name : Registered(f) /\ files'[f] = Absent =>
        \E c \in Cmd : \E e \in found[c] :
          e.file = f /\ (e.birth # births[f[2]] \/ e.cmd = "begin")
<1>1. PidFileInv /\ [Next]_vars => [Lost]_vars
  <2> SUFFICES ASSUME PidFileInv, [Next]_vars, NEW f \in Name, Registered(f), files'[f] = Absent
               PROVE  \E c \in Cmd : \E e \in found[c] :
                        e.file = f /\ (e.birth # births[f[2]] \/ e.cmd = "begin")
    OBVIOUS
  <2>1. files'[f] # files[f] /\ task[f[2]] = NoTask /\ f[2] \in alive
    BY RegisteredReads DEF Registered
  <2>2. PICK c \in Cmd : \E e \in found[c] : e.dead /\ e.file = f
    BY <2>1, FileStep DEF PidFileInv
  <2> QED
    BY <2>1, <2>2 DEF PidFileInv, DeadForGood
<1> QED
  BY <1>1, PidFileInductive, PTL DEF Spec, LostOnlyToReuse

=============================================================================
