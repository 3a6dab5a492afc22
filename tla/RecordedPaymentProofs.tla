------------------------ MODULE RecordedPaymentProofs ------------------------
(***************************************************************************)
(* What an executed payment may rely on, for every set of payments and     *)
(* other requests and every number of faults. A verification that is valid *)
(* finds every receipt handed out so far at a durable line of its own      *)
(* (ValidIsFirm), and there it stays whatever the log does afterwards      *)
(* (FirmStays). So it is enough to know which receipts a case had when it  *)
(* asked for its last verification (Waiting). Before that, the theorems    *)
(* about the log by itself: receipts are durable, and without a fault the  *)
(* file, the memory and the receipts agree.                                *)
(***************************************************************************)
EXTENDS RecordedPayment, SequenceTheorems, TLAPS

-----------------------------------------------------------------------------
(* The audit log by itself, for every set of appends and number of faults.  *)

\* Line p stands in for entry e: it carries its hash, or it is unreadable.
Carries(p, e) == file[p].form # "entry" \/ file[p].entry.hash = e.hash

\* An entry whose own hash is right.
Sealed(e) == e.hash = Hash(e.seq, e.content, e.prev)

\* What is durable is closed by a newline, so that no later text joins it.
Closed == ended \/ durable < Len(file)

\* The append under way has put its entry at the end of the file.
Pending ==
  /\ step # "idle" => Sealed(entry)
  /\ step \in {"newline", "sync"} => (Len(file) > 0 /\ Carries(Len(file), entry))
  /\ step = "sync" => ended

\* Every receipt has a durable line of its own.
Kept == \A a \in acked : Sealed(a) /\ \E p \in 1..durable : Carries(p, a)

LogInv == TypeOK /\ Closed /\ Pending /\ Kept

-----------------------------------------------------------------------------

LEMMA HashType ==
  ASSUME NEW seq \in Nat \ {0}, NEW c \in Content, NEW prev \in Digest
  PROVE  Hash(seq, c, prev) \in Digest
<1>1. <<seq, c>> \in (Nat \ {0}) \X Content
  OBVIOUS
<1>2. QED
  BY <1>1 DEF Hash, Digest

\* A sequence and its last element can be told from their concatenation.
LEMMA SameAppend ==
  ASSUME NEW S, NEW x \in S, NEW y \in S, NEW s \in Seq(S), NEW t \in Seq(S),
         Append(s, x) = Append(t, y)
  PROVE  s = t /\ x = y
<1>1. Len(s) = Len(t)
  <2>1. Len(Append(s, x)) = Len(s) + 1 /\ Len(Append(t, y)) = Len(t) + 1
    OBVIOUS
  <2>2. Len(s) \in Nat /\ Len(t) \in Nat
    OBVIOUS
  <2>3. QED
    BY <2>1, <2>2
<1>2. Append(s, x)[Len(s) + 1] = x /\ Append(t, y)[Len(t) + 1] = y
  OBVIOUS
<1>3. \A i \in 1..Len(s) : s[i] = t[i]
  <2> TAKE i \in 1..Len(s)
  <2>1. Append(s, x)[i] = s[i]
    OBVIOUS
  <2>2. Append(t, y)[i] = t[i]
    BY <1>1
  <2>3. QED
    BY <2>1, <2>2
<1>4. s = t
  BY <1>1, <1>3, SeqEqual, Zenon
<1>5. QED
  BY <1>1, <1>2, <1>4

\* Two entries of the right hash and of one hash are one entry.
LEMMA HashInjective ==
  ASSUME NEW d \in Entry, NEW e \in Entry, Sealed(d), Sealed(e), d.hash = e.hash
  PROVE  d = e
<1> DEFINE S == (Nat \ {0}) \X Content
<1>1. PICK x \in S : x = <<d.seq, d.content>>
  BY DEF Entry
<1>2. PICK y \in S : y = <<e.seq, e.content>>
  BY DEF Entry
<1>3. PICK s \in Seq(S) : s = d.prev
  BY DEF Entry, Digest
<1>4. PICK t \in Seq(S) : t = e.prev
  BY DEF Entry, Digest
<1>5. Append(s, x) = Append(t, y)
  BY <1>1, <1>2, <1>3, <1>4 DEF Sealed, Hash
<1>6. s = t /\ x = y
  <2> HIDE DEF S
  <2> QED
    BY <1>5, SameAppend
<1>7. d.seq = e.seq /\ d.content = e.content
  BY <1>1, <1>2, <1>6
<1>8. \A f \in Entry :
        f = [seq |-> f.seq, content |-> f.content, prev |-> f.prev, hash |-> f.hash]
  BY DEF Entry
<1>9. QED
  BY <1>3, <1>4, <1>6, <1>7, <1>8

LEMMA NewEntryType ==
  ASSUME TypeOK, NEW r \in Request
  PROVE  NewEntry(r) \in Entry /\ Sealed(NewEntry(r))
<1> DEFINE prev == IF entries = <<>> THEN GenesisHash ELSE entries[Len(entries)].hash
<1>1. prev \in Digest
  <2>1. CASE entries = <<>>
    BY <2>1 DEF GenesisHash, Digest
  <2>2. CASE entries # <<>>
    <3>1. entries[Len(entries)] \in Entry
      BY <2>2 DEF TypeOK
    <3>2. QED
      BY <2>2, <3>1 DEF Entry
  <2>3. QED
    BY <2>1, <2>2
<1>2. Len(entries) + 1 \in Nat \ {0} /\ r \in Content
  BY DEF TypeOK, Content
<1>3. Hash(Len(entries) + 1, r, prev) \in Digest
  BY <1>1, <1>2, HashType
<1>4. QED
  BY <1>1, <1>2, <1>3 DEF NewEntry, Entry, Sealed

LEMMA LineTypes ==
  /\ NoEntry \in Entry
  /\ \A e \in Entry : Whole(e) \in Line
  /\ \A f \in Form : Broken(f) \in Line
  /\ \A l \in Line : l.form \in Form /\ l.entry \in Entry
<1>1. NoEntry \in Entry
  BY DEF NoEntry, Entry, Digest, Content
<1>2. QED
  BY <1>1 DEF Whole, Broken, Line, Form

\* Text written at the end of the file leaves the durable lines alone.
LEMMA Writing ==
  ASSUME TypeOK, Closed, NEW text \in Line
  PROVE  /\ Written(text) \in Seq(Line)
         /\ Len(Written(text)) \in Nat
         /\ durable < Len(Written(text)) /\ durable \in 0..Len(Written(text))
         /\ \A p \in 1..durable : Written(text)[p] = file[p]
         /\ \/ Written(text)[Len(Written(text))] = text
            \/ Written(text)[Len(Written(text))].form # "entry"
<1>a. file \in Seq(Line) /\ durable \in 0..Len(file) /\ Len(file) \in Nat
  BY DEF TypeOK
<1>1. CASE file = <<>> \/ ended
  <2>1. Written(text) = Append(file, text)
    BY <1>1 DEF Written
  <2>2. QED
    BY <1>a, <2>1
<1>2. CASE ~(file = <<>> \/ ended)
  <2>1. durable < Len(file)
    BY <1>2 DEF Closed
  <2>2. PICK f \in {"mangled", "torn"} :
          Written(text) = [file EXCEPT ![Len(file)] = Broken(f)]
    BY <1>2 DEF Written
  <2>3. Broken(f) \in Line /\ Broken(f).form # "entry"
    BY LineTypes DEF Form, Broken
  <2>4. /\ Written(text) \in Seq(Line) /\ Len(Written(text)) = Len(file)
        /\ \A p \in 1..durable : Written(text)[p] = file[p]
        /\ Written(text)[Len(file)] = Broken(f)
    BY <1>a, <2>1, <2>2, <2>3
  <2>5. QED
    BY <1>a, <2>1, <2>3, <2>4
<1>3. QED
  BY <1>1, <1>2

\* Receipts stay kept while the durable lines carry the hashes they carried.
LEMMA KeptStays ==
  ASSUME TypeOK, Kept, acked' = acked, durable' = durable,
         \A p \in 1..durable : \/ file'[p].form # "entry"
                               \/ /\ file'[p].form = file[p].form
                                  /\ file'[p].entry.hash = file[p].entry.hash
  PROVE  Kept'
  BY DEF Kept, Carries

-----------------------------------------------------------------------------

LEMMA InitLog == Init => LogInv
  BY LineTypes, AuditAssumption
  DEF Init, LogInv, TypeOK, Closed, Pending, Kept, Step

LEMMA NextLog ==
  ASSUME LogInv, Next
  PROVE  LogInv'
<1> USE DEF NoFault, Fault
<1>a. TypeOK /\ Closed /\ Pending /\ Kept
  BY DEF LogInv
<1>b. /\ file \in Seq(Line) /\ Len(file) \in Nat /\ durable \in 0..Len(file)
      /\ entry \in Entry /\ faults \in 0..MaxFaults /\ MaxFaults \in Nat
  BY <1>a, AuditAssumption DEF TypeOK
<1>1. ASSUME NEW r \in Request, Receive(r)
      PROVE  LogInv'
  <2>1. entry' \in Entry /\ Sealed(entry)'
    BY <1>a, <1>1, NewEntryType DEF Receive, Sealed
  <2>2. TypeOK'
    BY <1>a, <1>1, <2>1 DEF Receive, TypeOK, Step
  <2>3. Closed' /\ Pending' /\ Kept'
    BY <1>a, <1>1, <2>1 DEF Receive, Closed, Pending, Kept, Carries
  <2>4. QED
    BY <2>2, <2>3 DEF LogInv
\* Text at the end of the file, and the end of the append or of the process.
<1>c. ASSUME \/ UNCHANGED <<file, ended>>
             \/ \E f \in {"torn", "mangled"} : file' = Written(Broken(f)) /\ ended' = FALSE,
             UNCHANGED <<durable, acked>>, step' = "idle"
      PROVE  /\ file' \in Seq(Line) /\ ended' \in BOOLEAN /\ durable' \in 0..Len(file')
             /\ Closed' /\ Pending' /\ Kept'
  <2>1. CASE UNCHANGED <<file, ended>>
    BY <1>a, <1>c, <2>1 DEF TypeOK, Closed, Pending, Kept, Carries
  <2>2. CASE \E f \in {"torn", "mangled"} : file' = Written(Broken(f)) /\ ended' = FALSE
    <3>1. PICK f \in {"torn", "mangled"} : file' = Written(Broken(f)) /\ ended' = FALSE
      BY <2>2
    <3>2. Broken(f) \in Line
      BY LineTypes DEF Form
    <3>3. /\ file' \in Seq(Line)
          /\ durable < Len(file') /\ durable \in 0..Len(file')
          /\ \A p \in 1..durable : file'[p] = file[p]
      BY <1>a, <3>1, <3>2, Writing
    <3>4. Kept'
      BY <1>a, <1>c, <3>3, KeptStays
    <3>5. QED
      BY <1>b, <1>c, <3>1, <3>3, <3>4 DEF Closed, Pending
  <2>3. QED
    BY <1>c, <2>1, <2>2
<1>2. CASE RecordFails \/ NewlineFails \/ SyncFails
  <2>1. /\ file' \in Seq(Line) /\ ended' \in BOOLEAN /\ durable' \in 0..Len(file')
        /\ Closed' /\ Pending' /\ Kept'
    BY <1>2, <1>c DEF RecordFails, NewlineFails, SyncFails, Refuse
  <2>2. TypeOK'
    BY <1>a, <1>b, <1>2, <2>1
    DEF RecordFails, NewlineFails, SyncFails, Refuse, TypeOK, Step
  <2>3. QED
    BY <2>1, <2>2 DEF LogInv
<1>3. CASE WriteRecord
  <2>1. Whole(entry) \in Line
    BY <1>b, LineTypes
  <2>2. /\ file' \in Seq(Line) /\ Len(file') \in Nat
        /\ durable < Len(file') /\ durable \in 0..Len(file')
        /\ \A p \in 1..durable : file'[p] = file[p]
        /\ file'[Len(file')] = Whole(entry) \/ file'[Len(file')].form # "entry"
    BY <1>a, <1>3, <2>1, Writing DEF WriteRecord
  <2>3. Kept'
    BY <1>a, <1>3, <2>2, KeptStays DEF WriteRecord
  <2>4. Pending'
    BY <1>a, <1>b, <1>3, <2>2 DEF WriteRecord, Pending, Carries, Sealed, Whole
  <2>5. TypeOK' /\ Closed'
    BY <1>a, <1>b, <1>3, <2>2 DEF WriteRecord, TypeOK, Closed, Step
  <2>6. QED
    BY <2>3, <2>4, <2>5 DEF LogInv
<1>4. CASE WriteNewline
  BY <1>a, <1>4
  DEF WriteNewline, LogInv, TypeOK, Closed, Pending, Kept, Carries, Sealed, Step
<1>5. CASE Sync
  <2>1. /\ Len(file) > 0 /\ Carries(Len(file), entry) /\ Sealed(entry) /\ ended
    BY <1>a, <1>5 DEF Sync, Pending
  <2>2. file' = file /\ ended' = ended /\ durable' = Len(file) /\ acked' = acked \cup {entry}
    BY <1>5 DEF Sync
  <2>3. ASSUME NEW a \in acked'
        PROVE  Sealed(a) /\ \E p \in 1..durable' : Carries(p, a)'
    <3>1. CASE a \in acked
      <4>1. PICK p \in 1..durable : Carries(p, a)
        BY <1>a, <3>1 DEF Kept
      <4>2. p \in 1..durable' /\ Carries(p, a)'
        BY <1>b, <2>2, <4>1 DEF Carries
      <4>3. QED
        BY <1>a, <3>1, <4>2 DEF Kept
    <3>2. CASE a = entry
      <4>1. PICK p \in 1..durable' : p = Len(file)
        BY <1>b, <2>1, <2>2
      <4>2. Carries(p, a)'
        BY <2>1, <2>2, <3>2, <4>1 DEF Carries
      <4>3. QED
        BY <2>1, <3>2, <4>2
    <3>3. QED
      BY <2>2, <2>3, <3>1, <3>2
  <2>4. Kept'
    BY <2>3 DEF Kept, Sealed
  <2>5. TypeOK' /\ Closed' /\ Pending'
    BY <1>a, <1>b, <1>5, <2>1 DEF Sync, TypeOK, Closed, Pending, Step
  <2>6. QED
    BY <2>4, <2>5 DEF LogInv
<1>6. CASE Crash
  <2>1. /\ file' \in Seq(Line) /\ ended' \in BOOLEAN /\ durable' \in 0..Len(file')
        /\ Closed' /\ Pending' /\ Kept'
    BY <1>6, <1>c DEF Crash
  <2>2. entries' \in Seq(Entry) /\ faults' \in 0..MaxFaults
    BY <1>b, <1>6 DEF Crash
  <2>3. up' = FALSE /\ step' = "idle"
    BY <1>6 DEF Crash
  <2>4. UNCHANGED <<entry, asked, acked, refused>>
    BY <1>6 DEF Crash
  <2>5. TypeOK'
    <3>1. up' \in BOOLEAN /\ step' \in Step
      BY <2>3 DEF Step
    <3>2. entry' \in Entry /\ asked' \subseteq Request /\ acked' \subseteq Entry
          /\ refused' \subseteq Entry
      BY <1>a, <2>4 DEF TypeOK
    <3>3. QED
      BY <2>1, <2>2, <3>1, <3>2 DEF TypeOK
  <2>6. QED
    BY <2>1, <2>5 DEF LogInv
<1>7. CASE PowerLoss
  <2>1. PICK n \in durable..(Len(file) - 1) :
          \/ file' = SubSeq(file, 1, n) /\ ended' = TRUE
          \/ \E text \in {file[n + 1], Broken("torn"), Broken("mangled")} :
               file' = Append(SubSeq(file, 1, n), text) /\ ended' = FALSE
    BY <1>7 DEF PowerLoss
  <2>2. /\ n \in Nat /\ n + 1 \in 1..Len(file) /\ durable <= n
        /\ SubSeq(file, 1, n) \in Seq(Line) /\ Len(SubSeq(file, 1, n)) = n
        /\ \A p \in 1..n : SubSeq(file, 1, n)[p] = file[p]
    BY <1>b
  <2>3. \A text \in {file[n + 1], Broken("torn"), Broken("mangled")} : text \in Line
    BY <1>b, <2>2, LineTypes DEF Form
  <2>4. /\ file' \in Seq(Line) /\ ended' \in BOOLEAN
        /\ durable \in 0..Len(file') /\ (ended' \/ durable < Len(file'))
        /\ \A p \in 1..durable : file'[p] = file[p]
    <3>1. CASE file' = SubSeq(file, 1, n) /\ ended' = TRUE
      BY <1>b, <2>2, <3>1
    <3>2. ASSUME NEW text \in Line, file' = Append(SubSeq(file, 1, n), text), ended' = FALSE
          PROVE  /\ file' \in Seq(Line) /\ ended' \in BOOLEAN
                 /\ durable \in 0..Len(file') /\ (ended' \/ durable < Len(file'))
                 /\ \A p \in 1..durable : file'[p] = file[p]
      <4>1. file' \in Seq(Line) /\ Len(file') = n + 1
        BY <2>2, <3>2
      <4>2. \A p \in 1..durable : file'[p] = file[p]
        BY <1>b, <2>2, <3>2
      <4>3. durable \in 0..(n + 1) /\ durable < n + 1
        BY <1>b, <2>2
      <4>4. QED
        BY <3>2, <4>1, <4>2, <4>3
    <3>3. QED
      BY <2>1, <2>3, <3>1, <3>2
  <2>5. durable' = durable /\ acked' = acked /\ step' = "idle"
    BY <1>7 DEF PowerLoss
  <2>6. Kept'
    BY <1>a, <2>4, <2>5, KeptStays
  <2>7. Closed' /\ Pending'
    BY <2>4, <2>5 DEF Closed, Pending
  <2>8. entries' \in Seq(Entry) /\ faults' \in 0..MaxFaults
    BY <1>b, <1>7 DEF PowerLoss
  <2>9. TypeOK'
    BY <1>a, <1>7, <2>4, <2>5, <2>8 DEF PowerLoss, TypeOK, Step
  <2>10. QED
    BY <2>6, <2>7, <2>9 DEF LogInv
<1>8. CASE Open
  <2>1. entries' \in Seq(Entry)
    <3>1. PICK n \in 0..Len(file) : entries' = [i \in 1..n |-> file[i].entry]
      BY <1>8 DEF Open
    <3>2. \A i \in 1..n : file[i] \in Line
      BY <1>b
    <3>3. QED
      BY <1>b, <3>1, <3>2, LineTypes
  <2>2. QED
    BY <1>a, <1>8, <2>1
    DEF Open, LogInv, TypeOK, Closed, Pending, Kept, Carries, Sealed
<1>9. ASSUME NEW i \in 1..Len(file), NEW c \in Content, Edit(i, c)
      PROVE  LogInv'
  <2>1. file[i] \in Line /\ file[i].entry \in Entry
    BY <1>b, LineTypes
  <2>2. file' = [file EXCEPT ![i].entry.content = c]
    BY <1>9 DEF Edit
  <2>3. [file[i].entry EXCEPT !.content = c] \in Entry
    BY <2>1 DEF Entry
  <2>4. [file[i] EXCEPT !.entry = [file[i].entry EXCEPT !.content = c]] \in Line
    BY <2>1, <2>3 DEF Line
  <2>5. file' = [file EXCEPT ![i] = [file[i] EXCEPT !.entry =
                                      [file[i].entry EXCEPT !.content = c]]]
    BY <2>2
  <2>6. file' \in Seq(Line) /\ Len(file') = Len(file)
    BY <1>b, <2>4, <2>5
  <2>7. \A p \in 1..Len(file) : /\ file'[p].form = file[p].form
                                /\ file'[p].entry.hash = file[p].entry.hash
    BY <1>b, <2>1, <2>5 DEF Line, Entry
  <2>8. UNCHANGED <<ended, durable, acked, step, entry>>
    BY <1>9 DEF Edit
  <2>9. Kept'
    BY <1>a, <1>b, <2>7, <2>8, KeptStays
  <2>10. Closed' /\ Pending'
    BY <1>a, <1>b, <2>6, <2>7, <2>8 DEF Closed, Pending, Carries, Sealed
  <2>11. TypeOK'
    BY <1>a, <1>b, <1>9, <2>6, <2>8 DEF Edit, TypeOK
  <2>12. QED
    BY <2>9, <2>10, <2>11 DEF LogInv
<1>10. QED
  BY <1>1, <1>2, <1>3, <1>4, <1>5, <1>6, <1>7, <1>8, <1>9 DEF Next

LEMMA LogInvariance == Spec => []LogInv
<1>1. LogInv /\ UNCHANGED vars => LogInv'
  BY DEF vars, LogInv, TypeOK, Closed, Pending, Kept, Carries, Sealed
<1>2. QED
  BY <1>1, InitLog, NextLog, PTL DEF Spec

\* Every variable of the audit log keeps its type; no line is counted durable
\* that the file does not hold.
THEOREM LogTypes == Spec => []TypeOK
  BY LogInvariance, PTL DEF LogInv

\* A valid verification has found the line of every receipt among the durable ones,
\* under its number and unchanged.
LEMMA ValidIsWhole ==
  ASSUME LogInv, Verdict.valid, NEW a \in acked
  PROVE  a.seq <= durable /\ a.seq <= Len(file) /\ file[a.seq] = Whole(a)
<1>1. /\ \A i \in 1..Len(file) : file[i].form = "entry" /\ ~Breaks(i)
      /\ file \in Seq(Line) /\ durable \in 0..Len(file) /\ acked \subseteq Entry
  BY DEF Verdict, LogInv, TypeOK
<1>2. PICK p \in 1..durable : Carries(p, a)
  BY DEF LogInv, Kept
<1>3. p \in 1..Len(file) /\ file[p] \in Line /\ file[p].entry \in Entry
  BY <1>1, LineTypes
<1>4. file[p].form = "entry" /\ file[p].entry.hash = a.hash
  BY <1>1, <1>2, <1>3 DEF Carries
<1>5. file[p].entry.seq = p /\ Sealed(file[p].entry)
  BY <1>1, <1>3 DEF Breaks, Sealed
<1>6. Sealed(a) /\ a \in Entry
  BY <1>1 DEF LogInv, Kept
<1>7. file[p].entry = a
  BY <1>3, <1>4, <1>5, <1>6, HashInjective
<1>8. file[p] = Whole(a)
  BY <1>3, <1>4, <1>7 DEF Line, Whole
<1>9. QED
  BY <1>2, <1>3, <1>5, <1>7, <1>8

\* When verify answers valid, every receipt ever handed out is in the file
\* under its own number and unchanged, whatever failed, was edited or was lost.
THEOREM ReceiptsAreDurable == Spec => []ValidMeansDurable
<1>1. LogInv => ValidMeansDurable
  BY ValidIsWhole DEF ValidMeansDurable
<1>2. QED
  BY <1>1, LogInvariance, PTL

-----------------------------------------------------------------------------
(* Without a fault the file, the memory and the receipts agree.             *)

HashBefore(i) == IF i = 1 THEN GenesisHash ELSE file[i - 1].entry.hash

\* Line i is an entry that continues the chain.
Continues(i) ==
  /\ file[i].form = "entry"
  /\ file[i].entry.seq = i /\ file[i].entry.prev = HashBefore(i)
  /\ Sealed(file[i].entry)

\* How many lines of the file are not in memory yet: that of the append under way.
Ahead == IF step \in {"newline", "sync"} THEN 1 ELSE 0

\* The entry being persisted is the next line of the file, or its last one.
InPlace ==
  /\ entry.seq = Len(entries) + 1
  /\ entry.prev = HashBefore(Len(entries) + 1) /\ Sealed(entry)
  /\ Ahead = 1 => file[Len(file)] = Whole(entry)

Clean ==
  /\ \A i \in 1..Len(file) : Continues(i)
  /\ \A a \in acked : a.seq \in 1..Len(file) /\ file[a.seq].entry = a
  /\ ended \/ step = "newline"
  /\ up \/ step = "idle"
  /\ up => /\ Len(file) = Len(entries) + Ahead
           /\ \A i \in 1..Len(entries) : file[i].entry = entries[i]
           /\ \A a \in acked : a.seq <= Len(entries)
           /\ step # "idle" => InPlace

CleanInv == LogInv /\ (faults = 0 => Clean)

LEMMA InitClean == Init => Clean
  BY DEF Init, Clean, Ahead

LEMMA NextClean ==
  ASSUME CleanInv, Next, faults' = 0
  PROVE  Clean'
<1>a. /\ file \in Seq(Line) /\ Len(file) \in Nat /\ durable \in 0..Len(file)
      /\ entries \in Seq(Entry) /\ Len(entries) \in Nat /\ entry \in Entry
      /\ faults \in Nat
  BY AuditAssumption DEF CleanInv, LogInv, TypeOK
<1>b. /\ faults = 0
      /\ ~RecordFails /\ ~NewlineFails /\ ~SyncFails /\ ~PowerLoss
      /\ \A i \in 1..Len(file), c \in Content : ~Edit(i, c)
  <2>1. ~Fault
    BY <1>a DEF Fault
  <2>2. ~RecordFails /\ ~NewlineFails /\ ~SyncFails /\ ~PowerLoss
    BY <2>1 DEF RecordFails, NewlineFails, SyncFails, PowerLoss, Refuse
  <2>3. \A i \in 1..Len(file), c \in Content : ~Edit(i, c)
    BY <2>1 DEF Edit
  <2>4. NoFault
    BY <2>1, <2>2, <2>3
    DEF Next, Receive, WriteRecord, WriteNewline, Sync, Crash, Open
  <2>5. QED
    BY <2>2, <2>3, <2>4 DEF NoFault
<1>c. Clean
  BY <1>b DEF CleanInv
<1>d. ASSUME file' = file
      PROVE  \A i \in Int : HashBefore(i)' = HashBefore(i) /\ (Continues(i)' <=> Continues(i))
  BY <1>d DEF HashBefore, Continues
<1>1. CASE \E r \in Request : Receive(r)
  <2>1. PICK r \in Request : Receive(r)
    BY <1>1
  <2>2. /\ up /\ step = "idle" /\ step' = "record" /\ entry' = NewEntry(r)
        /\ UNCHANGED <<file, ended, up, entries, acked>>
    BY <2>1 DEF Receive
  <2>3. Len(file) = Len(entries) /\ \A i \in 1..Len(entries) : file[i].entry = entries[i]
    BY <1>a, <1>c, <2>2 DEF Clean, Ahead
  <2>4. InPlace'
    <3>1. Sealed(NewEntry(r))
      BY NewEntryType DEF CleanInv, LogInv
    <3>2. /\ NewEntry(r).seq = Len(entries) + 1
          /\ NewEntry(r).prev = IF entries = <<>> THEN GenesisHash ELSE entries[Len(entries)].hash
      BY DEF NewEntry
    <3>3. NewEntry(r).prev = HashBefore(Len(entries) + 1)
      <4>1. CASE entries = <<>>
        BY <3>2, <4>1 DEF HashBefore
      <4>2. CASE entries # <<>>
        <5>1. Len(entries) \in 1..Len(entries) /\ (Len(entries) + 1) - 1 = Len(entries)
              /\ Len(entries) + 1 # 1
          BY <1>a, <4>2
        <5>2. QED
          BY <2>3, <3>2, <4>2, <5>1 DEF HashBefore
      <4>3. QED
        BY <4>1, <4>2
    <3>4. QED
      BY <2>2, <3>1, <3>2, <3>3 DEF InPlace, Ahead, HashBefore, Sealed
  <2>5. QED
    BY <1>a, <1>c, <1>d, <2>2, <2>3, <2>4 DEF Clean, Ahead
<1>2. CASE WriteRecord
  <2>1. /\ step = "record" /\ step' = "newline" /\ up /\ ended
        /\ UNCHANGED <<up, entries, entry, acked>>
    BY <1>2, <1>c DEF WriteRecord, Clean
  <2>2. Len(file) = Len(entries) /\ InPlace
    BY <1>a, <1>c, <2>1 DEF Clean, Ahead
  <2>3. Whole(entry) \in Line /\ Whole(entry).form = "entry" /\ Whole(entry).entry = entry
    BY <1>a, LineTypes DEF Whole
  <2>4. file' = Append(file, Whole(entry))
    BY <1>2, <2>1 DEF WriteRecord, Written
  <2>5. /\ Len(file') = Len(file) + 1 /\ file'[Len(file) + 1] = Whole(entry)
        /\ \A i \in 1..Len(file) : file'[i] = file[i]
    BY <1>a, <2>3, <2>4
  <2>6. ASSUME NEW i \in 1..(Len(file) + 1) PROVE HashBefore(i)' = HashBefore(i)
    <3>1. i = 1 \/ i - 1 \in 1..Len(file)
      BY <1>a
    <3>2. QED
      BY <2>5, <3>1 DEF HashBefore
  <2>7. ASSUME NEW i \in 1..Len(file') PROVE Continues(i)'
    <3>1. CASE i \in 1..Len(file)
      <4>1. file'[i] = file[i] /\ HashBefore(i)' = HashBefore(i)
        BY <1>a, <2>5, <2>6, <3>1
      <4>2. Continues(i)
        BY <1>c, <3>1 DEF Clean
      <4>3. QED
        BY <4>1, <4>2 DEF Continues
    <3>2. CASE i = Len(file) + 1
      <4>1. file'[i] = Whole(entry) /\ HashBefore(i)' = HashBefore(i)
        BY <1>a, <2>5, <2>6, <3>2
      <4>2. entry.seq = i /\ entry.prev = HashBefore(i) /\ Sealed(entry)
        BY <2>2, <3>2 DEF InPlace
      <4>3. QED
        BY <2>3, <4>1, <4>2 DEF Continues
    <3>3. QED
      BY <1>a, <2>5, <3>1, <3>2
  <2>8. InPlace'
    <3>1. Len(entries) + 1 \in 1..(Len(file) + 1)
      BY <1>a, <2>2
    <3>2. HashBefore(Len(entries) + 1)' = HashBefore(Len(entries) + 1)
      BY <2>6, <3>1, <2>1 DEF HashBefore
    <3>3. QED
      BY <2>1, <2>2, <2>5, <3>2 DEF InPlace, Sealed
  <2>9. \A i \in 1..Len(file) : i \in 1..Len(file')
    BY <1>a, <2>5
  <2>10. \A a \in acked : a.seq \in 1..Len(file') /\ file'[a.seq].entry = a
    BY <1>c, <2>5, <2>9 DEF Clean
  <2>11. \A i \in 1..Len(entries) : file'[i].entry = entries[i]
    BY <1>c, <2>1, <2>2, <2>5 DEF Clean
  <2>12. QED
    BY <1>a, <1>c, <2>1, <2>2, <2>5, <2>7, <2>8, <2>10, <2>11 DEF Clean, Ahead
<1>3. CASE WriteNewline
  <2>1. /\ step = "newline" /\ step' = "sync" /\ ended'
        /\ UNCHANGED <<file, up, entries, entry, acked>>
    BY <1>3 DEF WriteNewline
  <2>2. InPlace => InPlace'
    BY <2>1 DEF InPlace, Ahead, HashBefore, Sealed
  <2>3. QED
    BY <1>a, <1>c, <1>d, <2>1, <2>2 DEF Clean, Ahead
<1>4. CASE Sync
  <2>1. /\ step = "sync" /\ step' = "idle" /\ up /\ ended
        /\ entries' = Append(entries, entry) /\ acked' = acked \cup {entry}
        /\ UNCHANGED <<file, ended, up, entry>>
    BY <1>4, <1>c DEF Sync, Clean
  <2>2. /\ Len(file) = Len(entries) + 1 /\ entry.seq = Len(entries) + 1
        /\ file[Len(file)].entry = entry
    BY <1>a, <1>c, <2>1 DEF Clean, Ahead, InPlace, Whole
  <2>3. /\ Len(entries') = Len(file) /\ entries'[Len(file)] = entry
        /\ \A i \in 1..Len(entries) : entries'[i] = entries[i]
    BY <1>a, <2>1, <2>2
  <2>4. ASSUME NEW i \in 1..Len(entries') PROVE file[i].entry = entries'[i]
    <3>1. i \in 1..Len(entries) \/ i = Len(file)
      BY <1>a, <2>2, <2>3
    <3>2. QED
      BY <1>c, <2>1, <2>2, <2>3, <3>1 DEF Clean
  <2>5. ASSUME NEW a \in acked'
        PROVE  a.seq \in 1..Len(file) /\ file[a.seq].entry = a
    <3>1. CASE a \in acked
      BY <1>c, <3>1 DEF Clean
    <3>2. CASE a = entry
      BY <1>a, <2>2, <3>2
    <3>3. QED
      BY <2>1, <2>5, <3>1, <3>2
  <2>6. \A i \in 1..Len(file) : Continues(i)'
    BY <1>a, <1>c, <1>d, <2>1 DEF Clean
  <2>7. \A a \in acked' : a.seq <= Len(entries')
    BY <1>a, <2>3, <2>5
  <2>8. QED
    BY <1>a, <2>1, <2>3, <2>4, <2>5, <2>6, <2>7 DEF Clean, Ahead
<1>5. CASE Crash
  <2>1. step # "newline" /\ UNCHANGED <<file, ended>>
    BY <1>5, <1>a, <1>b DEF Crash, Fault
  <2>2. up' = FALSE /\ step' = "idle" /\ acked' = acked
    BY <1>5 DEF Crash
  <2>3. QED
    BY <1>a, <1>c, <1>d, <2>1, <2>2 DEF Clean
<1>6. CASE Open
  <2>1. PICK n \in 0..Len(file) :
          Readable(n) /\ ReadTo(n) /\ entries' = [i \in 1..n |-> file[i].entry]
    BY <1>6 DEF Open
  <2>2. /\ ~up /\ step = "idle" /\ step' = "idle"
        /\ UNCHANGED <<file, ended, acked>>
    BY <1>6, <1>c DEF Open, Clean
  <2>3. n = Len(file)
    <3>1. SUFFICES ASSUME n < Len(file) PROVE FALSE
      BY <1>a
    <3>2. n + 1 \in 1..Len(file)
      BY <1>a, <3>1
    <3>3. file[n + 1].form = "entry"
      BY <1>c, <3>2 DEF Clean, Continues
    <3>4. QED
      BY <2>1, <3>1, <3>3 DEF ReadTo
  <2>4. Len(entries') = Len(file) /\ \A i \in 1..Len(entries') : file[i].entry = entries'[i]
    BY <1>a, <2>1, <2>3
  <2>5. QED
    BY <1>a, <1>c, <1>d, <2>2, <2>4 DEF Clean, Ahead
<1>7. QED
  BY <1>1, <1>2, <1>3, <1>4, <1>5, <1>6, <1>b DEF Next

\* Without a fault verify raises no false alarm and every receipt is in memory: a
\* process may end before, between or after appends, and in an append anywhere but
\* between the text and its newline.
THEOREM HealthyIsValid == Spec => []NoFalseAlarm
<1>1. Init => CleanInv
  BY InitLog, InitClean DEF CleanInv
<1>2. CleanInv /\ LogInv' /\ [Next]_vars => CleanInv'
  <2> SUFFICES ASSUME CleanInv, LogInv', [Next]_vars PROVE CleanInv'
    OBVIOUS
  <2>1. CASE Next
    BY <2>1, NextClean DEF CleanInv
  <2>2. CASE UNCHANGED vars
    BY <2>2 DEF vars, CleanInv, Clean, Continues, HashBefore, Ahead, InPlace, Sealed
  <2>3. QED
    BY <2>1, <2>2
<1>3. CleanInv => NoFalseAlarm
  <2> SUFFICES ASSUME CleanInv, faults = 0, Verifiable
               PROVE  /\ Verdict.valid
                      /\ \A a \in acked : a.seq <= Len(entries) /\ entries[a.seq] = a
    BY DEF NoFalseAlarm
  <2>1. /\ Clean /\ Len(file) = Len(entries)
        /\ \A i \in 1..Len(entries) : file[i].entry = entries[i]
    BY DEF CleanInv, LogInv, TypeOK, Verifiable, Clean, Ahead
  <2>2. ASSUME NEW i \in 1..Len(file) PROVE file[i].form = "entry" /\ ~Breaks(i)
    <3>1. Continues(i) /\ file[i].entry = entries[i]
      BY <2>1 DEF Clean
    <3>2. QED
      BY <3>1 DEF Continues, Breaks, HashBefore, Sealed
  <2>3. Verdict.valid
    BY <2>1, <2>2 DEF Verdict
  <2>4. ASSUME NEW a \in acked PROVE a.seq <= Len(entries) /\ entries[a.seq] = a
    BY <2>1 DEF Clean, Verifiable
  <2>5. QED
    BY <2>3, <2>4
<1>4. QED
  BY <1>1, <1>2, <1>3, LogInvariance, PTL DEF Spec

-----------------------------------------------------------------------------
(* The log and the payments together.                                       *)

\* Entry e is at a durable line of its own number.
Firm(e) ==
  /\ e.seq <= durable
  /\ file[e.seq].form = "entry" /\ file[e.seq].entry.hash = e.hash

Received(r) == \E e \in acked : e.content = r

InFinish == {"verify", "answered", "policy", "verifyAgain", "answeredAgain"}

\* What a case that is still at it has received, and what its answer was about.
Waiting(t) ==
  /\ case[t].at \in InFinish /\ ~case[t].errors => Received(Receipt(t, "completed"))
  /\ case[t].at \in {"verifyAgain", "answeredAgain"} => Received(Receipt(t, "policy"))
  /\ case[t].at = "answeredAgain" /\ case[t].answer /\ ~case[t].errors =>
       OnDisk(Receipt(t, "completed")) /\ OnDisk(Receipt(t, "policy"))

RecordInv ==
  /\ LogInv
  /\ case \in [Payment -> Case]
  /\ \A t \in Payment : Waiting(t)
  /\ RecordIsKept

-----------------------------------------------------------------------------
(* The log *)

LEMMA ValidIsFirm ==
  ASSUME LogInv, Verdict.valid, NEW a \in acked
  PROVE  Firm(a)
<1>1. a.seq <= durable /\ file[a.seq] = [form |-> "entry", entry |-> a]
  BY ValidIsWhole DEF Whole
<1>2. QED
  BY <1>1 DEF Firm

\* No step of the log takes a durable line, its form or its hash.
LEMMA DurableStays ==
  ASSUME LogInv, Next
  PROVE  /\ durable <= durable' /\ acked \subseteq acked'
         /\ \A p \in 1..durable : /\ file'[p].form = file[p].form
                                  /\ file'[p].entry.hash = file[p].entry.hash
<1>a. TypeOK /\ Closed
  BY DEF LogInv
<1>b. /\ file \in Seq(Line) /\ Len(file) \in Nat /\ durable \in 0..Len(file)
      /\ entry \in Entry
  BY <1>a DEF TypeOK
<1>1. ASSUME UNCHANGED file
      PROVE  \A p \in 1..durable : file'[p] = file[p]
  BY <1>1
<1>2. ASSUME NEW text \in Line, file' = Written(text)
      PROVE  \A p \in 1..durable : file'[p] = file[p]
  BY <1>a, <1>2, Writing
<1>3. ASSUME \E f \in {"torn", "mangled"} : file' = Written(Broken(f))
      PROVE  \A p \in 1..durable : file'[p] = file[p]
  BY <1>2, <1>3, LineTypes DEF Form
<1>4. CASE \E r \in Request : Receive(r)
  BY <1>b, <1>4 DEF Receive
<1>5. CASE RecordFails \/ NewlineFails \/ SyncFails
  <2>1. \A p \in 1..durable : file'[p] = file[p]
    BY <1>1, <1>3, <1>5 DEF RecordFails, NewlineFails, SyncFails, Refuse
  <2>2. UNCHANGED <<durable, acked>>
    BY <1>5 DEF RecordFails, NewlineFails, SyncFails, Refuse
  <2>3. QED
    BY <1>b, <2>1, <2>2
<1>6. CASE WriteRecord
  <2>1. \A p \in 1..durable : file'[p] = file[p]
    BY <1>b, <1>2, <1>6, LineTypes DEF WriteRecord
  <2>2. QED
    BY <1>b, <1>6, <2>1 DEF WriteRecord
<1>7. CASE WriteNewline \/ Sync
  BY <1>b, <1>7 DEF WriteNewline, Sync
<1>8. CASE Crash
  <2>1. \A p \in 1..durable : file'[p] = file[p]
    BY <1>1, <1>3, <1>8 DEF Crash
  <2>2. QED
    BY <1>b, <1>8, <2>1 DEF Crash
<1>9. CASE PowerLoss
  <2>1. PICK n \in durable..(Len(file) - 1) :
          \/ file' = SubSeq(file, 1, n)
          \/ \E text \in {file[n + 1], Broken("torn"), Broken("mangled")} :
               file' = Append(SubSeq(file, 1, n), text)
    BY <1>9 DEF PowerLoss
  <2>2. /\ n \in Nat /\ durable <= n
        /\ SubSeq(file, 1, n) \in Seq(Line) /\ Len(SubSeq(file, 1, n)) = n
        /\ \A p \in 1..n : SubSeq(file, 1, n)[p] = file[p]
    BY <1>b
  <2>3. \A text \in {file[n + 1], Broken("torn"), Broken("mangled")} : text \in Line
    BY <1>b, LineTypes DEF Form
  <2>4. \A p \in 1..durable : file'[p] = file[p]
    BY <1>b, <2>1, <2>2, <2>3
  <2>5. QED
    BY <1>b, <1>9, <2>4 DEF PowerLoss
<1>10. CASE Open
  BY <1>b, <1>10 DEF Open
<1>11. ASSUME NEW i \in 1..Len(file), NEW c \in Content, Edit(i, c)
       PROVE  /\ durable <= durable' /\ acked \subseteq acked'
              /\ \A p \in 1..durable : /\ file'[p].form = file[p].form
                                       /\ file'[p].entry.hash = file[p].entry.hash
  <2>1. file[i] \in Line /\ file[i].entry \in Entry
    BY <1>b, LineTypes
  <2>2. file' = [file EXCEPT ![i] = [file[i] EXCEPT !.entry =
                                      [file[i].entry EXCEPT !.content = c]]]
    BY <1>11 DEF Edit
  <2>3. \A p \in 1..Len(file) : /\ file'[p].form = file[p].form
                                /\ file'[p].entry.hash = file[p].entry.hash
    BY <1>b, <2>1, <2>2 DEF Line, Entry
  <2>4. QED
    BY <1>b, <1>11, <2>3 DEF Edit
<1>12. QED
  BY <1>4, <1>5, <1>6, <1>7, <1>8, <1>9, <1>10, <1>11 DEF Next

LEMMA FirmStays ==
  ASSUME LogInv, Next, NEW a \in acked, Firm(a)
  PROVE  a \in acked' /\ Firm(a)'
<1>1. a \in Entry /\ durable \in Nat
  BY DEF LogInv, TypeOK
<1>2. a.seq \in 1..durable
  BY <1>1 DEF Firm, Entry
<1>3. durable' \in Nat
  BY NextLog DEF LogInv, TypeOK
<1>4. QED
  BY <1>1, <1>2, <1>3, DurableStays DEF Firm

\* A receipt on the disk, or at hand, remains so.
LEMMA LogKeeps ==
  ASSUME LogInv, Next, NEW r
  PROVE  /\ Received(r) => Received(r)'
         /\ OnDisk(r) => OnDisk(r)'
<1>1. ASSUME Received(r)
      PROVE  Received(r)'
  BY <1>1, DurableStays DEF Received
<1>2. ASSUME OnDisk(r)
      PROVE  OnDisk(r)'
  <2>1. PICK e \in acked : e.content = r /\ Firm(e)
    BY <1>2 DEF OnDisk, Firm
  <2>2. e \in acked' /\ Firm(e)'
    BY <2>1, FirmStays
  <2>3. QED
    BY <2>1, <2>2 DEF OnDisk, Firm
<1>3. QED
  BY <1>1, <1>2

\* A valid verification puts all receipts at hand on the disk.
LEMMA ValidIsOnDisk ==
  ASSUME LogInv, Verdict.valid, NEW r, Received(r)
  PROVE  OnDisk(r)
<1>1. PICK e \in acked : e.content = r
  BY DEF Received
<1>2. Firm(e)
  BY ValidIsFirm
<1>3. QED
  BY <1>1, <1>2 DEF OnDisk, Firm

-----------------------------------------------------------------------------
(* The case *)

\* What RecordIsKept says of one payment.
Backed(t) ==
  (case[t].at = "executed" \/ (case[t].at = "withheld" /\ case[t].status = "verified")) =>
     OnDisk(Receipt(t, "completed")) /\ OnDisk(Receipt(t, "policy"))

LEMMA InitRecord == RecordInit => RecordInv
<1> SUFFICES ASSUME RecordInit PROVE RecordInv
  OBVIOUS
<1>1. LogInv
  BY InitLog DEF RecordInit
<1>2. PICK E \in SUBSET Payment :
        case = [t \in Payment |-> [at |-> "completed", answer |-> FALSE, errors |-> t \in E,
                                   status |-> "pending", policy |-> "none"]]
  BY DEF RecordInit
<1>3. \A t \in Payment : case[t].at = "completed"
  BY <1>2
<1>4. case \in [Payment -> Case]
  BY <1>2 DEF Case
<1>5. QED
  BY <1>1, <1>3, <1>4 DEF RecordInv, Waiting, RecordIsKept, InFinish

\* A step of the log leaves the cases as they are.
LEMMA LogStepKeeps ==
  ASSUME RecordInv, Next, UNCHANGED case
  PROVE  RecordInv'
<1>1. LogInv'
  BY NextLog DEF RecordInv
<1>2. ASSUME NEW t \in Payment
      PROVE  Waiting(t)' /\ Backed(t)'
  <2>1. Waiting(t) /\ Backed(t)
    BY DEF RecordInv, RecordIsKept, Backed
  <2>2. \A r : (Received(r) => Received(r)') /\ (OnDisk(r) => OnDisk(r)')
    BY LogKeeps DEF RecordInv
  <2>3. Waiting(t)'
    BY <2>1, <2>2 DEF Waiting
  <2>4. Backed(t)'
    BY <2>1, <2>2 DEF Backed
  <2>5. QED
    BY <2>3, <2>4
<1>3. QED
  BY <1>1, <1>2 DEF RecordInv, RecordIsKept, Backed

\* A step of one case leaves the log and the other cases as they are: it is enough
\* to look at that case.
LEMMA CaseStepKeeps ==
  ASSUME RecordInv, UNCHANGED logVars, NEW t \in Payment, NEW c \in Case,
         case' = [case EXCEPT ![t] = c],
         Waiting(t)', Backed(t)'
  PROVE  RecordInv'
<1>1. LogInv'
  BY DEF RecordInv, logVars, vars, LogInv, TypeOK, Closed, Pending, Kept, Carries, Sealed
<1>2. case' \in [Payment -> Case]
  BY DEF RecordInv
<1>3. ASSUME NEW u \in Payment, u # t
      PROVE  Waiting(u)' /\ Backed(u)'
  <2>1. case'[u] = case[u]
    BY <1>3 DEF RecordInv
  <2>2. Waiting(u) /\ Backed(u)
    BY DEF RecordInv, RecordIsKept, Backed
  <2>3. QED
    BY <2>1, <2>2 DEF Waiting, Backed, Received, OnDisk, logVars, vars
<1>4. QED
  BY <1>1, <1>2, <1>3 DEF RecordInv, RecordIsKept, Backed

\* A step of one case by its parts: what it receives, asks and decides.
LEMMA CaseStep ==
  ASSUME RecordInv, UNCHANGED logVars, NEW t \in Payment,
         \/ Recorded(t) \/ Verify(t) \/ Verified(t)
         \/ PolicyRecorded(t) \/ VerifyAgain(t) \/ Decide(t)
  PROVE  RecordInv'
<1> DEFINE first == Receipt(t, "completed")
           second == Receipt(t, "policy")
<1>a. /\ LogInv /\ Waiting(t) /\ Backed(t)
      /\ case \in [Payment -> Case] /\ case[t] \in Case
  BY DEF RecordInv, RecordIsKept, Backed
<1>b. \A r : (Received(r)' <=> Received(r)) /\ (OnDisk(r)' <=> OnDisk(r))
  BY DEF Received, OnDisk, logVars, vars
\* It is enough that the case as it is afterwards has what it needs.
<1>c. ASSUME NEW c \in Case, case' = [case EXCEPT ![t] = c],
             c.at \in InFinish /\ ~c.errors => Received(first),
             c.at \in {"verifyAgain", "answeredAgain"} => Received(second),
             \/ c.at = "answeredAgain" /\ c.answer /\ ~c.errors
             \/ c.at = "executed"
             \/ c.at = "withheld" /\ c.status = "verified"
             => OnDisk(first) /\ OnDisk(second)
      PROVE  RecordInv'
  <2>1. case'[t] = c
    BY <1>a, <1>c
  <2>2. Waiting(t)' /\ Backed(t)'
    BY <1>b, <1>c, <2>1 DEF Waiting, Backed
  <2>3. QED
    BY <1>c, <2>2, CaseStepKeeps
\* The policy is asked, or its append or verification raises.
<1>d. ASSUME NEW c \in Case, c.errors \/ Received(first), AskPolicy(t, c)
      PROVE  RecordInv'
  <2>1. PICK p \in {"allow", "hold"} :
          case' = [case EXCEPT ![t] = [c EXCEPT !.at = "policy", !.policy = p]]
    BY <1>d DEF AskPolicy
  <2>2. [c EXCEPT !.at = "policy", !.policy = p] \in Case
    BY DEF Case
  <2>3. QED
    BY <1>c, <1>d, <2>1, <2>2 DEF Case
<1>e. ASSUME PolicyFails(t)
      PROVE  RecordInv'
  <2> DEFINE c == [case[t] EXCEPT !.at = "withheld", !.errors = TRUE,
                     !.status = IF case[t].status = "failed" THEN case[t].status
                                ELSE "unavailable"]
  <2>1. case' = [case EXCEPT ![t] = c]
    BY <1>a, <1>e DEF PolicyFails
  <2>2. c \in Case /\ c.at = "withheld" /\ c.status # "verified"
    BY <1>a DEF Case
  <2> HIDE DEF c
  <2>3. QED
    BY <1>c, <2>1, <2>2 DEF InFinish
<1>1. CASE Recorded(t)
  <2>1. case[t].at = "completed"
    BY <1>1 DEF Recorded
  <2>2. CASE Acknowledged(t) /\ case' = [case EXCEPT ![t].at = "verify"]
    <3> DEFINE c == [case[t] EXCEPT !.at = "verify"]
    <3>1. Received(first)
      BY <2>1, <2>2 DEF Acknowledged, Received
    <3>2. c \in Case /\ c.at = "verify" /\ case' = [case EXCEPT ![t] = c]
      BY <1>a, <2>2 DEF Case
    <3> HIDE DEF c
    <3>3. QED
      BY <1>c, <3>1, <3>2
  <2>3. CASE case' = [case EXCEPT ![t].at = "verify", ![t].errors = TRUE]
    <3> DEFINE c == [case[t] EXCEPT !.at = "verify", !.errors = TRUE]
    <3>1. c \in Case /\ c.at = "verify" /\ c.errors /\ case' = [case EXCEPT ![t] = c]
      BY <1>a, <2>3 DEF Case
    <3> HIDE DEF c
    <3>2. QED
      BY <1>c, <3>1
  <2>4. QED
    BY <1>1, <2>2, <2>3 DEF Recorded
<1>2. CASE Verify(t)
  <2>1. case[t].at = "verify"
    BY <1>2 DEF Verify
  <2>2. CASE case' = [case EXCEPT ![t].at = "answered", ![t].answer = Verdict.valid]
    <3> DEFINE c == [case[t] EXCEPT !.at = "answered", !.answer = Verdict.valid]
    <3>1. Verdict.valid \in BOOLEAN
      BY DEF Verdict
    <3>2. c \in Case /\ c.at = "answered" /\ c.errors = case[t].errors
          /\ case' = [case EXCEPT ![t] = c]
      BY <1>a, <2>2, <3>1 DEF Case
    <3>3. c.errors \/ Received(first)
      BY <1>a, <2>1, <3>2 DEF Waiting, InFinish
    <3> HIDE DEF c
    <3>4. QED
      BY <1>c, <3>2, <3>3
  <2>3. CASE AskPolicy(t, [case[t] EXCEPT !.errors = TRUE, !.status = "unavailable"])
    <3>1. /\ [case[t] EXCEPT !.errors = TRUE, !.status = "unavailable"] \in Case
          /\ [case[t] EXCEPT !.errors = TRUE, !.status = "unavailable"].errors
      BY <1>a DEF Case
    <3>2. QED
      BY <1>d, <2>3, <3>1
  <2>4. QED
    BY <1>2, <2>2, <2>3 DEF Verify
<1>3. CASE Verified(t)
  <2>1. case[t].at = "answered" /\ AskPolicy(t, [case[t] EXCEPT !.status = StatusOf(case[t])])
    BY <1>3 DEF Verified
  <2>2. /\ [case[t] EXCEPT !.status = StatusOf(case[t])] \in Case
        /\ [case[t] EXCEPT !.status = StatusOf(case[t])].errors = case[t].errors
    BY <1>a DEF Case, StatusOf
  <2>3. case[t].errors \/ Received(first)
    BY <1>a, <2>1 DEF Waiting, InFinish
  <2>4. QED
    BY <1>d, <2>1, <2>2, <2>3
<1>4. CASE PolicyRecorded(t)
  <2>1. case[t].at = "policy"
    BY <1>4 DEF PolicyRecorded
  <2>2. CASE Acknowledged(t) /\ case' = [case EXCEPT ![t].at = "verifyAgain"]
    <3> DEFINE c == [case[t] EXCEPT !.at = "verifyAgain"]
    <3>1. Received(second)
      BY <2>1, <2>2 DEF Acknowledged, Received
    <3>2. c \in Case /\ c.at = "verifyAgain" /\ c.errors = case[t].errors
          /\ case' = [case EXCEPT ![t] = c]
      BY <1>a, <2>2 DEF Case
    <3>3. c.errors \/ Received(first)
      BY <1>a, <2>1, <3>2 DEF Waiting, InFinish
    <3> HIDE DEF c
    <3>4. QED
      BY <1>c, <3>1, <3>2, <3>3
  <2>3. QED
    BY <1>4, <1>e, <2>2 DEF PolicyRecorded
<1>5. CASE VerifyAgain(t)
  <2>1. case[t].at = "verifyAgain"
    BY <1>5 DEF VerifyAgain
  <2>2. CASE case' = [case EXCEPT ![t].at = "answeredAgain", ![t].answer = Verdict.valid]
    <3> DEFINE c == [case[t] EXCEPT !.at = "answeredAgain", !.answer = Verdict.valid]
    <3>1. Verdict.valid \in BOOLEAN
      BY DEF Verdict
    <3>2. c \in Case /\ c.at = "answeredAgain" /\ c.errors = case[t].errors
          /\ c.answer = Verdict.valid /\ case' = [case EXCEPT ![t] = c]
      BY <1>a, <2>2, <3>1 DEF Case
    <3>3. (c.errors \/ Received(first)) /\ Received(second)
      BY <1>a, <2>1, <3>2 DEF Waiting, InFinish
    <3>4. c.answer /\ ~c.errors => OnDisk(first) /\ OnDisk(second)
      BY <1>a, <3>2, <3>3, ValidIsOnDisk
    <3> HIDE DEF c
    <3>5. QED
      BY <1>c, <3>2, <3>3, <3>4
  <2>3. QED
    BY <1>5, <1>e, <2>2 DEF VerifyAgain
<1>6. CASE Decide(t)
  <2> DEFINE status == StatusOf(case[t])
             c == [case[t] EXCEPT !.status = status,
                     !.at = IF case[t].policy = "allow" /\ status = "verified"
                            THEN "executed" ELSE "withheld"]
  <2>1. case[t].at = "answeredAgain" /\ case' = [case EXCEPT ![t] = c]
    BY <1>a, <1>6 DEF Decide
  <2>2. status \in {"verified", "failed"}
        /\ (status = "verified" => case[t].answer /\ ~case[t].errors)
    BY DEF StatusOf
  <2>3. c \in Case /\ c.at \in {"executed", "withheld"} /\ c.status = status
        /\ (c.at = "executed" => status = "verified")
    BY <1>a, <2>2 DEF Case
  <2>4. status = "verified" => OnDisk(first) /\ OnDisk(second)
    BY <1>a, <2>1, <2>2 DEF Waiting
  <2> HIDE DEF c, status
  <2>5. QED
    BY <1>c, <2>1, <2>3, <2>4 DEF InFinish
<1>7. QED
  BY <1>1, <1>2, <1>3, <1>4, <1>5, <1>6

LEMMA PythonEndsKeeps ==
  ASSUME RecordInv, PythonEnds
  PROVE  RecordInv'
<1>1. UNCHANGED logVars
  BY DEF PythonEnds
<1>2. /\ LogInv /\ case \in [Payment -> Case]
      /\ \A t \in Payment : Waiting(t) /\ Backed(t)
  BY DEF RecordInv, RecordIsKept, Backed
<1>3. LogInv'
  BY <1>1, <1>2 DEF logVars, vars, LogInv, TypeOK, Closed, Pending, Kept, Carries, Sealed
<1>4. case' = [t \in Payment |-> IF case[t].at \in Over THEN case[t]
                                 ELSE [case[t] EXCEPT !.at = "lost"]]
  BY DEF PythonEnds
<1>5. case' \in [Payment -> Case]
  <2>1. \A t \in Payment : case[t] \in Case /\ [case[t] EXCEPT !.at = "lost"] \in Case
    BY <1>2 DEF Case
  <2>2. QED
    BY <1>4, <2>1
<1>6. ASSUME NEW t \in Payment
      PROVE  Waiting(t)' /\ Backed(t)'
  <2>1. CASE case'[t] = case[t]
    BY <1>1, <1>2, <2>1 DEF Waiting, Backed, Received, OnDisk, logVars, vars
  <2>2. CASE case'[t] = [case[t] EXCEPT !.at = "lost"]
    <3>1. case'[t].at = "lost"
      BY <1>2, <2>2 DEF Case
    <3>2. QED
      BY <3>1 DEF Waiting, Backed, InFinish
  <2>3. QED
    BY <1>4, <2>1, <2>2
<1>7. QED
  BY <1>3, <1>5, <1>6 DEF RecordInv, RecordIsKept, Backed

LEMMA NextRecord ==
  ASSUME RecordInv, [RecordNext]_allVars
  PROVE  RecordInv'
<1>1. ASSUME NEW r \in Request, Receives(r)
      PROVE  RecordInv'
  BY <1>1, LogStepKeeps DEF Receives, Next
<1>2. CASE LogStep /\ UNCHANGED <<case, late>>
  BY <1>2, LogStepKeeps DEF LogStep, Next
<1>3. ASSUME NEW t \in Payment,
             \/ Recorded(t) \/ Verify(t) \/ Verified(t)
             \/ PolicyRecorded(t) \/ VerifyAgain(t) \/ Decide(t)
      PROVE  RecordInv'
  <2>1. UNCHANGED logVars
    BY <1>3 DEF Recorded, Verify, Verified, PolicyRecorded, VerifyAgain, Decide
  <2>2. QED
    BY <1>3, <2>1, CaseStep
<1>4. CASE PythonEnds
  BY <1>4, PythonEndsKeeps
<1>5. CASE UNCHANGED allVars
  <2>1. UNCHANGED logVars /\ UNCHANGED case
    BY <1>5 DEF allVars
  <2>2. LogInv'
    BY <2>1 DEF RecordInv, logVars, vars, LogInv, TypeOK, Closed, Pending, Kept, Carries, Sealed
  <2>3. QED
    BY <2>1, <2>2 DEF RecordInv, Waiting, RecordIsKept, Received, OnDisk, logVars, vars
<1>6. QED
  BY <1>1, <1>2, <1>3, <1>4, <1>5 DEF RecordNext

LEMMA RecordInvariance == RecordSpec => []RecordInv
<1>1. QED
  BY InitRecord, NextRecord, PTL DEF RecordSpec

\* An executed payment, and a case saved as verified, have both receipts on the disk
\* for good, whatever failed, was late, was lost or was edited on the way and after.
THEOREM PaymentsAreRecorded == RecordSpec => []RecordIsKept
  BY RecordInvariance, PTL DEF RecordInv

\* The log keeps its promise under the clients it has.
THEOREM ReceiptsStayDurable == RecordSpec => []ValidMeansDurable
<1>1. RecordInv => ValidMeansDurable
  BY ValidIsWhole DEF RecordInv, ValidMeansDurable
<1>2. QED
  BY <1>1, RecordInvariance, PTL
=============================================================================
