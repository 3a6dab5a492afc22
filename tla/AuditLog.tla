------------------------------ MODULE AuditLog ------------------------------
(***************************************************************************)
(* The Rust audit log (engine-rust/src/audit.rs): a hash chain of entries  *)
(* in memory and the file of JSON lines behind it.                         *)
(*                                                                         *)
(* One append runs at a time, under a mutex that verify also takes. What   *)
(* can come between its steps is the operating system: a write that fails  *)
(* or stops half way, a sync that fails, the end of the process, a loss of *)
(* power. persist() writes with writeln! to an unbuffered File, so the     *)
(* JSON text and its newline are two writes.                               *)
(***************************************************************************)
EXTENDS Integers, Sequences, FiniteSets

CONSTANTS
  Request,    \* appends that may be asked for; each happens at its own time
  Altered,    \* what an edit of the file may turn the content of an entry into
  MaxFaults   \* bound: faults of the file system, edits, ill-timed crashes

ASSUME AuditAssumption ==
  /\ Altered \notin Request
  /\ MaxFaults \in Nat

\* Everything of an entry that its hash covers beside seq and prev_hash.
Content == Request \cup {Altered}

\* A hash tells the content and the number of every entry up to its own.
Digest == Seq((Nat \ {0}) \X Content)
GenesisHash == <<>>
Hash(seq, content, prev) == Append(prev, <<seq, content>>)

Entry == [seq : Nat \ {0}, content : Content, prev : Digest, hash : Digest]

\* A line of the file: an entry, text that is no JSON, bytes that are no UTF-8.
Form == {"entry", "torn", "mangled"}
NoEntry == [seq |-> 1, content |-> Altered, prev |-> <<>>, hash |-> <<>>]
Line == [form : Form, entry : Entry]
Whole(e) == [form |-> "entry", entry |-> e]
Broken(f) == [form |-> f, entry |-> NoEntry]

VARIABLES
  file,      \* the lines of the file, as a reader finds them
  ended,     \* the last line is closed by its newline
  durable,   \* how many lines a loss of power cannot take away
  up,        \* the process runs and has the log open
  entries,   \* AuditLog.entries
  step,      \* what the append holding the mutex does next
  entry,     \* the entry it is persisting
  asked,     \* requests that have been received
  acked,     \* history: the receipts of the appends that returned Ok
  refused,   \* history: the entries of the appends that returned Err
  faults     \* bound

vars == <<file, ended, durable, up, entries, step, entry, asked, acked,
          refused, faults>>

Step == {"idle", "record", "newline", "sync"}

Fault == faults < MaxFaults /\ faults' = faults + 1
NoFault == faults' = faults

-----------------------------------------------------------------------------
(* append and persist *)

NewEntry(r) ==
  LET seq == Len(entries) + 1
      prev == IF entries = <<>> THEN GenesisHash ELSE entries[Len(entries)].hash
  IN  [seq |-> seq, content |-> r, prev |-> prev, hash |-> Hash(seq, r, prev)]

\* The file after text has been written at its end: a line of its own after a
\* newline, and otherwise more of the last line, which then is no entry.
Written(text) ==
  IF file = <<>> \/ ended THEN Append(file, text)
  ELSE [file EXCEPT ![Len(file)] =
          Broken(IF @.form = "mangled" \/ text.form = "mangled"
                 THEN "mangled" ELSE "torn")]

Receive(r) ==
  /\ up /\ step = "idle" /\ r \notin asked
  /\ asked' = asked \cup {r}
  /\ entry' = NewEntry(r)
  /\ step' = "record"
  /\ UNCHANGED <<file, ended, durable, up, entries, acked, refused>>
  /\ NoFault

\* The append returns Err; memory is as before.
Refuse ==
  /\ step' = "idle"
  /\ refused' = refused \cup {entry}
  /\ UNCHANGED <<durable, up, entries, entry, asked, acked>>
  /\ Fault

\* The file cannot be opened or takes none of the text, or only part of it.
RecordFails ==
  /\ step = "record"
  /\ \/ UNCHANGED <<file, ended>>
     \/ \E f \in {"torn", "mangled"} : file' = Written(Broken(f)) /\ ended' = FALSE
  /\ Refuse

WriteRecord ==
  /\ step = "record"
  /\ file' = Written(Whole(entry))
  /\ ended' = FALSE
  /\ step' = "newline"
  /\ UNCHANGED <<durable, up, entries, entry, asked, acked, refused>>
  /\ NoFault

NewlineFails ==
  /\ step = "newline"
  /\ UNCHANGED <<file, ended>>
  /\ Refuse

WriteNewline ==
  /\ step = "newline"
  /\ ended' = TRUE
  /\ step' = "sync"
  /\ UNCHANGED <<file, durable, up, entries, entry, asked, acked, refused>>
  /\ NoFault

SyncFails ==
  /\ step = "sync"
  /\ UNCHANGED <<file, ended>>
  /\ Refuse

\* Mutant: the receipt is handed out without waiting for the disk.
Sync_NotAwaited ==
  /\ step = "sync"
  /\ entries' = Append(entries, entry)
  /\ acked' = acked \cup {entry}
  /\ step' = "idle"
  /\ UNCHANGED <<file, ended, durable, up, entry, asked, refused>>
  /\ NoFault

\* sync_data returns; the entry joins the chain and is the caller's receipt.
Sync ==
  /\ step = "sync"
  /\ durable' = Len(file)
  /\ entries' = Append(entries, entry)
  /\ acked' = acked \cup {entry}
  /\ step' = "idle"
  /\ UNCHANGED <<file, ended, up, entry, asked, refused>>
  /\ NoFault

-----------------------------------------------------------------------------
(* verify *)

\* A line that does not continue the chain, or is not the one in memory.
Breaks(i) ==
  LET e == file[i].entry IN
  \/ e.seq # i
  \/ e.prev # (IF i = 1 THEN GenesisHash ELSE file[i - 1].entry.hash)
  \/ e.hash # Hash(e.seq, e.content, e.prev)
  \/ e.hash # entries[i].hash

Least(S) == CHOOSE i \in S : \A j \in S : i <= j

\* VerifyResponse: valid, and first_broken_seq (0 for None).
Verdict ==
  LET bad == {i \in 1..Len(file) : Breaks(i)} IN
  IF \E i \in 1..Len(file) : file[i].form # "entry"
    THEN [valid |-> FALSE, first |-> 1]
  ELSE IF Len(file) # Len(entries)
    THEN [valid |-> FALSE,
          first |-> (IF Len(file) < Len(entries) THEN Len(file) ELSE Len(entries)) + 1]
  ELSE IF bad # {}
    THEN [valid |-> FALSE, first |-> file[Least(bad)].entry.seq]
  ELSE [valid |-> TRUE, first |-> 0]

-----------------------------------------------------------------------------
(* The end of the process, and open *)

\* A process that dies in the middle of a line leaves what it has written.
Crash ==
  /\ up
  /\ up' = FALSE
  /\ step' = "idle"
  /\ entries' = <<>>
  /\ \/ step # "newline" /\ UNCHANGED <<file, ended>> /\ NoFault
     \/ step = "newline" /\ UNCHANGED <<file, ended>> /\ Fault
     \/ /\ step = "record"
        /\ \E f \in {"torn", "mangled"} : file' = Written(Broken(f))
        /\ ended' = FALSE
        /\ Fault
  /\ UNCHANGED <<durable, entry, asked, acked, refused>>

\* A loss of power takes lines that were not synced, or cuts one of them.
PowerLoss ==
  /\ up' = FALSE
  /\ step' = "idle"
  /\ entries' = <<>>
  /\ \E n \in durable..(Len(file) - 1) :
       \/ /\ file' = SubSeq(file, 1, n)
          /\ ended' = TRUE
       \/ \E text \in {file[n + 1], Broken("torn"), Broken("mangled")} :
            /\ file' = Append(SubSeq(file, 1, n), text)
            /\ ended' = FALSE
  /\ UNCHANGED <<durable, entry, asked, acked, refused>>
  /\ Fault

\* Reading stops without an error at the first line that is not UTF-8, and
\* fails at a line before it that is not JSON.
Readable(n) == \A i \in 1..n : file[i].form = "entry"
ReadTo(n) == n < Len(file) => file[n + 1].form = "mangled"

\* Mutant: a restart begins a new chain behind the old one.
Open_Afresh ==
  /\ ~up
  /\ entries' = <<>>
  /\ up' = TRUE
  /\ UNCHANGED <<file, ended, durable, step, entry, asked, acked, refused>>
  /\ NoFault

\* Mutant: a line that is not UTF-8 is an error too.
Open_Strict ==
  /\ ~up
  /\ \A i \in 1..Len(file) : file[i].form = "entry"
  /\ entries' = [i \in 1..Len(file) |-> file[i].entry]
  /\ up' = TRUE
  /\ UNCHANGED <<file, ended, durable, step, entry, asked, acked, refused>>
  /\ NoFault

\* A start whose open fails ends the process; the next one finds the same file.
Open ==
  /\ ~up
  /\ \E n \in 0..Len(file) :
       /\ Readable(n) /\ ReadTo(n)
       /\ entries' = [i \in 1..n |-> file[i].entry]
  /\ up' = TRUE
  /\ UNCHANGED <<file, ended, durable, step, entry, asked, acked, refused>>
  /\ NoFault

\* Somebody edits the content of an entry in the file.
Edit(i, c) ==
  /\ i \in 1..Len(file) /\ file[i].form = "entry"
  /\ file' = [file EXCEPT ![i].entry.content = c]
  /\ UNCHANGED <<ended, durable, up, entries, step, entry, asked, acked, refused>>
  /\ Fault

-----------------------------------------------------------------------------

Init ==
  /\ file = <<>> /\ ended = TRUE /\ durable = 0
  /\ up = TRUE /\ entries = <<>>
  /\ step = "idle" /\ entry = NoEntry
  /\ asked = {} /\ acked = {} /\ refused = {}
  /\ faults = 0

Next ==
  \/ \E r \in Request : Receive(r)
  \/ WriteRecord \/ RecordFails
  \/ WriteNewline \/ NewlineFails
  \/ Sync \/ SyncFails
  \/ Crash \/ PowerLoss \/ Open
  \/ \E i \in 1..Len(file), c \in Content : Edit(i, c)

Spec == Init /\ [][Next]_vars

-----------------------------------------------------------------------------
(* Properties *)

TypeOK ==
  /\ file \in Seq(Line)
  /\ ended \in BOOLEAN
  /\ durable \in 0..Len(file)
  /\ up \in BOOLEAN
  /\ entries \in Seq(Entry)
  /\ step \in Step
  /\ entry \in Entry
  /\ asked \subseteq Request
  /\ acked \subseteq Entry /\ refused \subseteq Entry
  /\ faults \in 0..MaxFaults

\* verify runs under the mutex of append.
Verifiable == up /\ step = "idle"

\* When verify answers that the chain is valid, every receipt ever handed out
\* is in the file under its own number, unchanged: through failed writes, torn
\* lines, lost power, restarts and edits.
ValidMeansDurable ==
  (Verifiable /\ Verdict.valid) =>
     \A a \in acked : a.seq <= Len(file) /\ file[a.seq] = Whole(a)

\* Without a fault there is no false alarm, and no receipt is missing from
\* memory: a process may die before, between or after appends, and in an append
\* at any point but between the text and its newline.
NoFalseAlarm ==
  (faults = 0 /\ Verifiable) =>
     /\ Verdict.valid
     /\ \A a \in acked : a.seq <= Len(entries) /\ entries[a.seq] = a

\* Reading the file again meets text that is no JSON before anything else wrong.
TornFirst ==
  \E i \in 1..Len(file) : file[i].form = "torn" /\ Readable(i - 1)

\* A log that is down comes back, after whatever loss of power, failed write, edit or
\* run of crashes, unless a torn line is the first thing wrong with its file
\* (audit.rs:46-50); bytes that are no UTF-8 do not keep it down.
RestartRecovers == ~up ~> (up \/ TornFirst)

\* "write_failure_is_reported_without_advancing_chain" (audit.rs:293): an append
\* that was reported as not persisted is not in the chain.
RefusedStaysOut ==
  \A i \in 1..Len(entries) : entries[i] \notin refused

=============================================================================
