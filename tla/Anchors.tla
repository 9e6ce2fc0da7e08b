------------------------------ MODULE Anchors ------------------------------
(***************************************************************************)
(* The scheduled receipt anchor (receipt_anchor_job.go, internal/state/     *)
(* receipt_anchor.go): the engine puts the terminal link of the receipt     *)
(* chain (internal/state/receipt_chain.go) where the host cannot rewrite    *)
(* it, in a file and in the operator's channel; and the check of the stored *)
(* history against such an anchor (receipt_anchor.go).                      *)
(*                                                                          *)
(* A receipt is an id and a version of its content.  The chain's hash is    *)
(* taken for what it stands for: a link is the sequence of receipts it      *)
(* covers.  Whatever alters the stored history is external.                 *)
(***************************************************************************)
EXTENDS Naturals, Sequences, FiniteSets, SequencesExt

CONSTANTS
    Ids,        \* receipt ids
    Torn,       \* a line that was cut off
    MaxRows,    \* bound: receipts
    MaxAlter,   \* bound: alterations of the history
    MaxLines,   \* bound: lines of the anchor file and messages
    MaxFaults   \* bound: crashes and calls that fail

Receipt == Ids \X {1, 2}
Link == UNION {[1 .. n -> Receipt] : n \in 0 .. MaxRows}
NoLink == {}

AnchorsAssumption ==
    /\ Torn \notin Link
    /\ {MaxRows, MaxAlter, MaxLines, MaxFaults} \subseteq Nat

VARIABLES
    rows,       \* action_approvals in stored order
    altered,    \* how often it was altered
    file,       \* the anchor file, line by line
    messages,   \* history: anchors the operator got, and the warning with each
    stored,     \* receipt_anchor_state
    loaded,     \* the job has read it
    last,       \* the job's copy
    step,       \* where the job is in its tick
    anchor,     \* the anchor it places
    extends,    \* the history still reproduces the last one
    rewritten,  \* history: slots recorded on a history that did not
    faults

placed == <<file, messages>>
job == <<loaded, last, step, anchor, extends>>
vars == <<rows, altered, placed, stored, job, rewritten, faults>>

-----------------------------------------------------------------------------
\* The links of a history, from the genesis on.
ReceiptChainLinks(history) == {SubSeq(history, 1, n) : n \in 0 .. Len(history)}

\* chainReaches
Reaches(history, link) == link \in ReceiptChainLinks(history)

\* Mutant of SamePrefix: only the receipt ids are compared.
SameReceipt(history, a, p) == p <= Len(history) /\ history[p][1] = a[p][1]

\* The trail names a position by its receipt and the link up to it.
SamePrefix(history, a, p) ==
    /\ p <= Len(history)
    /\ history[p][1] = a[p][1]
    /\ SubSeq(history, 1, p) = SubSeq(a, 1, p)

IdsOf(history) == {history[i][1] : i \in DOMAIN history}

\* classifyDivergence: what became of the receipt at the first divergence.
Classify(history, a, p) ==
    IF p > Len(history) \/ a[p][1] \notin IdsOf(history) THEN "deleted"
    ELSE IF history[p][1] = a[p][1] THEN "changed"
    ELSE IF history[p][1] \notin IdsOf(a) THEN "inserted"
    ELSE "reordered"

Result(status, position, kind) == [status |-> status, position |-> position, kind |-> kind]

\* checkReceiptAnchor of a bare link: any prefix of the store may reproduce it.
CheckLink(history, link) ==
    Result(IF Reaches(history, link) THEN "match" ELSE "mismatch", 0, "none")

\* ... and of an anchor with the trail of its links.
Check(history, a) ==
    LET Off == {p \in DOMAIN a : ~SamePrefix(history, a, p)}
        p == CHOOSE q \in Off : \A r \in Off : q <= r
    IN  IF Off = {} THEN Result("match", 0, "none")
        ELSE Result("mismatch", p, Classify(history, a, p))

\* A line, whole or torn, is an anchor or it is none.
ParseAnchorDocument(line) == line # Torn

\* readAnchorLog, checkAnchorLog: a log that holds no anchor, or a line that is
\* none, cannot be read; otherwise the first line the history fails, or the newest.
CheckLog(history, log) ==
    LET Failing == {i \in DOMAIN log : Check(history, log[i]).status = "mismatch"}
    IN  IF log = <<>> \/ \E i \in DOMAIN log : ~ParseAnchorDocument(log[i])
        THEN [status |-> "unreadable", line |-> 0]
        ELSE IF Failing = {} THEN [status |-> "match", line |-> Len(log)]
        ELSE [status |-> "mismatch", line |-> CHOOSE i \in Failing : \A k \in Failing : i <= k]

\* parseReceiptAnchor: the forms an anchor is given in, all of them or the link
\* of it, and the result of the check; a torn line is an error.
ParseReceiptAnchor(history, form, line) ==
    IF ~ParseAnchorDocument(line) THEN Result("unreadable", 0, "none")
    ELSE IF form = "link" THEN CheckLink(history, line)
    ELSE Check(history, line)

\* The exit status of `receipts verify-anchor`.
VerifyAnchor(result) ==
    CASE result.status = "match" -> 0
      [] result.status = "mismatch" -> 1
      [] result.status = "unreadable" -> 2

-----------------------------------------------------------------------------
Fault == faults < MaxFaults /\ faults' = faults + 1
Idle == step' = "idle"

\* The destination holds this anchor, or there never was anything to anchor.
Unchanged(had) == had = {anchor} \/ (had = NoLink /\ anchor = <<>>)

Append1(i) ==
    /\ Len(rows) < MaxRows /\ i \notin IdsOf(rows)
    /\ rows' = Append(rows, <<i, 1>>)
    /\ UNCHANGED <<altered, placed, stored, job, rewritten, faults>>

\* External: a receipt is changed, removed or inserted.
Alter ==
    /\ altered < MaxAlter /\ altered' = altered + 1
    /\ \/ \E p \in DOMAIN rows : rows' = [rows EXCEPT ![p][2] = 3 - @]
       \/ \E p \in DOMAIN rows : rows' = RemoveAt(rows, p)
       \/ /\ Len(rows) < MaxRows
          /\ \E p \in DOMAIN rows, i \in Ids \ IdsOf(rows) : rows' = InsertAt(rows, p, <<i, 1>>)
    /\ UNCHANGED <<placed, stored, job, rewritten, faults>>

\* tick, when a slot is due: the state is read once, the anchor taken.
Tick ==
    /\ step = "idle"
    /\ LET now == IF loaded THEN last ELSE stored
       IN  /\ loaded' = TRUE /\ last' = now
           /\ extends' = (\A l \in now.link : Reaches(rows, l))
    /\ anchor' = rows /\ step' = "file"
    /\ UNCHANGED <<rows, altered, placed, stored, rewritten, faults>>

\* Mutant of AppendLine: a failed write is logged and passed over.
AppendOnce ==
    /\ step = "file"
    /\ \/ /\ Unchanged(last.fileLink)
          /\ step' = "notify" /\ UNCHANGED <<file, last, faults>>
       \/ /\ ~Unchanged(last.fileLink) /\ Len(file) < MaxLines
          /\ file' = Append(file, anchor)
          /\ last' = [last EXCEPT !.fileLink = {anchor}]
          /\ step' = "save" /\ UNCHANGED faults
       \/ /\ ~Unchanged(last.fileLink) /\ Len(file) < MaxLines
          /\ Fault
          /\ file' \in {file, Append(file, anchor), Append(file, Torn)}
          /\ step' = "notify" /\ UNCHANGED last
    /\ UNCHANGED <<rows, altered, messages, stored, loaded, anchor, extends, rewritten>>

\* appendAnchorLine, or nothing to append.  When it fails the line is there,
\* or a part of it, or nothing; the tick is tried again in a minute.
AppendLine ==
    /\ step = "file"
    /\ \/ /\ Unchanged(last.fileLink)
          /\ step' = "notify" /\ UNCHANGED <<file, last, faults>>
       \/ /\ ~Unchanged(last.fileLink) /\ Len(file) < MaxLines
          /\ file' = Append(file, anchor)
          /\ last' = [last EXCEPT !.fileLink = {anchor}]
          /\ step' = "save" /\ UNCHANGED faults
       \/ /\ ~Unchanged(last.fileLink) /\ Len(file) < MaxLines
          /\ Fault
          /\ file' \in {file, Append(file, anchor), Append(file, Torn)}
          /\ Idle /\ UNCHANGED last
    /\ UNCHANGED <<rows, altered, messages, stored, loaded, anchor, extends, rewritten>>

\* save; the tick goes on if it fails.
Stores(copy) ==
    \/ stored' = copy /\ UNCHANGED faults
    \/ UNCHANGED stored /\ Fault

Save ==
    /\ step = "save"
    /\ Stores(last)
    /\ step' = "notify"
    /\ UNCHANGED <<rows, altered, placed, loaded, last, anchor, extends, rewritten>>

\* The operator's message, with a warning when the history was rewritten.  A
\* send that fails may have been delivered.
Deliver == messages' = Append(messages, [anchor |-> anchor, warns |-> IF extends THEN NoLink ELSE last.link])

\* Mutant of Notify: a failed send is logged and passed over.
NotifyOnce ==
    /\ step = "notify"
    /\ \/ /\ Unchanged(last.notifyLink)
          /\ step' = "slot" /\ UNCHANGED <<messages, last, stored, faults>>
       \/ /\ ~Unchanged(last.notifyLink) /\ Len(messages) < MaxLines
          /\ Deliver
          /\ last' = [last EXCEPT !.notifyLink = {anchor}]
          /\ step' = "slot"
          /\ Stores(last')
       \/ /\ ~Unchanged(last.notifyLink) /\ Len(messages) < MaxLines
          /\ Fault
          /\ (Deliver \/ UNCHANGED messages)
          /\ step' = "slot" /\ UNCHANGED <<last, stored>>
    /\ UNCHANGED <<rows, altered, file, loaded, anchor, extends, rewritten>>

Notify ==
    /\ step = "notify"
    /\ \/ /\ Unchanged(last.notifyLink)
          /\ step' = "slot" /\ UNCHANGED <<messages, last, stored, faults>>
       \/ /\ ~Unchanged(last.notifyLink) /\ Len(messages) < MaxLines
          /\ Deliver
          /\ last' = [last EXCEPT !.notifyLink = {anchor}]
          /\ step' = "slot"
          /\ Stores(last')
       \/ /\ ~Unchanged(last.notifyLink) /\ Len(messages) < MaxLines
          /\ Fault
          /\ (Deliver \/ UNCHANGED messages)
          /\ Idle /\ UNCHANGED <<last, stored>>
    /\ UNCHANGED <<rows, altered, file, loaded, anchor, extends, rewritten>>

\* The slot is done.
Slot ==
    /\ step = "slot"
    /\ last' = [last EXCEPT !.link = {anchor}]
    /\ rewritten' = IF extends THEN rewritten ELSE rewritten \cup {last.link}
    /\ Stores(last')
    /\ Idle
    /\ UNCHANGED <<rows, altered, placed, loaded, anchor, extends>>

Crash ==
    /\ Fault
    /\ loaded' = FALSE /\ Idle
    /\ IF step = "file" /\ ~Unchanged(last.fileLink) /\ Len(file) < MaxLines
       THEN file' \in {file, Append(file, anchor), Append(file, Torn)}
       ELSE UNCHANGED file
    /\ UNCHANGED <<rows, altered, messages, stored, last, anchor, extends, rewritten>>

-----------------------------------------------------------------------------
Init ==
    /\ rows = <<>> /\ altered = 0 /\ file = <<>> /\ messages = <<>>
    /\ stored = [link |-> NoLink, fileLink |-> NoLink, notifyLink |-> NoLink]
    /\ loaded = FALSE /\ last = stored /\ step = "idle"
    /\ anchor = <<>> /\ extends = TRUE /\ rewritten = {} /\ faults = 0

Next ==
    \/ \E i \in Ids : Append1(i)
    \/ Alter \/ Tick \/ AppendLine \/ Save \/ Notify \/ Slot \/ Crash

Spec == Init /\ [][Next]_vars

-----------------------------------------------------------------------------
\* The check of a line tells the truth about the stored history: it matches
\* exactly when the history still begins with what was anchored, and else names
\* the first receipt that is not where and what it was, and what became of it,
\* as the table of docs/action-receipts.md says (checkReceiptAnchor).  The
\* command exits with 0 then and only then, whether it is given the line or
\* its link alone, and the check of the log finds the oldest line that fails.
CheckTellsTheTruth ==
    LET Lines == {i \in DOMAIN file : file[i] # Torn}
        Truth(a) ==
            LET r == Check(rows, a)
                was == a[r.position]
            IN  IF IsPrefix(a, rows) THEN r.status = "match"
                ELSE /\ r.status = "mismatch"
                     /\ IsPrefix(SubSeq(a, 1, r.position - 1), rows)
                     /\ ~IsPrefix(SubSeq(a, 1, r.position), rows)
                     /\ (r.kind = "deleted") <=> was[1] \notin IdsOf(rows)
                     /\ (r.kind = "changed") => was \notin Range(rows)
                     /\ (r.kind = "inserted") => rows[r.position][1] \notin IdsOf(a)
                     /\ (r.kind = "reordered") =>
                            {was[1], rows[r.position][1]} \subseteq IdsOf(rows) \cap IdsOf(a)
        Exit(line) == IF line = Torn THEN 2 ELSE IF IsPrefix(line, rows) THEN 0 ELSE 1
        log == CheckLog(rows, file)
    IN  /\ \A i \in Lines : Truth(file[i])
        /\ \A i \in DOMAIN file, form \in {"document", "link"} :
              VerifyAnchor(ParseReceiptAnchor(rows, form, file[i])) = Exit(file[i])
        /\ VerifyAnchor(log) = 0 => file # <<>> /\ Lines = DOMAIN file
        /\ log.status = "match" => \A i \in Lines : IsPrefix(file[i], rows)
        /\ log.status = "mismatch" =>
              /\ ~IsPrefix(file[log.line], rows)
              /\ \A i \in 1 .. log.line - 1 : IsPrefix(file[i], rows)

\* A slot is recorded only when its anchor is in both places, whatever failed,
\* was tried again or crashed on the way (tick).
RecordedIsPlaced ==
    \A l \in stored.link \ {<<>>} :
        /\ \E i \in DOMAIN file : file[i] = l
        /\ \E i \in DOMAIN messages : messages[i].anchor = l

\* Whenever a slot is recorded on a history that no longer reproduces the
\* previous anchor, the operator was told so, also when the message only got
\* through on a later try (docs/action-receipts.md:214).
RewriteIsTold ==
    \A w \in rewritten : \E i \in DOMAIN messages : messages[i].warns = w

=============================================================================
