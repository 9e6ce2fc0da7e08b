---------------------------- MODULE HookSettings ----------------------------
(***************************************************************************)
(* `draftcat gate install` (gate_install.go): draftcat's hook entry put     *)
(* into, or taken out of, an agent harness's settings file, while another   *)
(* install, or the person whose file it is, changes the same file.          *)
(*                                                                          *)
(* Of a settings document the hooks of the harness's event are kept: a list *)
(* of items, each a hook of its own or a group of hooks, and whether other  *)
(* events have hooks too.  A hook is the person's, or draftcat's, told by   *)
(* its command (isDraftcatHook).                                            *)
(***************************************************************************)
EXTENDS Integers, Sequences, SequencesExt, FiniteSets

CONSTANTS
    Installers,     \* runs of the command
    Paths,          \* the project's settings file and the user's
    Options,        \* [path, remove, dryRun, hook: the command it installs]
    Ours,           \* draftcat's hooks, one for each command line it writes
    Theirs,         \* other hooks
    Grouped,        \* the harness keeps hooks in matcher groups (all but Copilot)
    Documents,      \* what the person leaves in a file
    MaxEdits        \* bound

Hook == Ours \cup Theirs
Item == [group : BOOLEAN, hooks : Seq(Hook)]

\* What is at a path: no file, something the command cannot update (not an
\* object, or one whose hooks are of another shape), or a document; has: the
\* event has a list.
Contents == [kind : {"nofile", "broken", "document"}, has : BOOLEAN,
             list : Seq(Item), others : BOOLEAN]
NoFile == [kind |-> "nofile", has |-> FALSE, list |-> <<>>, others |-> FALSE]
Broken == [NoFile EXCEPT !.kind = "broken"]

HookSettingsAssumption ==
    /\ Ours \cap Theirs = {} /\ MaxEdits \in Nat /\ Grouped \in BOOLEAN
    /\ Options \subseteq [path : Paths, remove : BOOLEAN, dryRun : BOOLEAN, hook : Ours]
    /\ \A doc \in Documents :
          doc \in Contents /\ doc.kind = "document" /\ (doc.has \/ doc.list = <<>>)

VARIABLES
    file,           \* file[p]
    stage,          \* stage[i]: idle, read, replacing, done
    opt,            \* its options
    read,           \* the file it read
    last,           \* history: [opt, read] of the command that last replaced a file,
                    \* and nothing has touched the file since
    edits

vars == <<file, stage, opt, read, last, edits>>

-----------------------------------------------------------------------------
IsOurs(h) == h \in Ours

Entry(hook) == [group |-> Grouped, hooks |-> <<hook>>]

\* What the members of a sequence leave behind, one after the other.
Gather(s, leaves) == FlattenSeq([k \in DOMAIN s |-> leaves[s[k]]])

Others(hooks) == Gather(hooks, [h \in Hook |-> IF IsOurs(h) THEN <<>> ELSE <<h>>])

\* An item that goes: an entry of draftcat's, or a group with nothing else in it.
Goes(it) == it.hooks # <<>> /\ Others(it.hooks) = <<>>

Kept(list) ==
    Gather(list, [it \in Item |->
                    IF Goes(it) THEN <<>> ELSE <<[it EXCEPT !.hooks = Others(@)]>>])

Found(list) == \E k \in DOMAIN list : \E h \in ToSet(list[k].hooks) : IsOurs(h)

\* The place of the first item that went, or the end.
Place(list) ==
    IF \E k \in DOMAIN list : Goes(list[k])
    THEN SelectInSeq(list, Goes)
    ELSE Len(list) + 1

\* upsertHookEntry with an entry.
PutIn(doc, hook) ==
    [doc EXCEPT !.has = TRUE,
                !.list = InsertAt(Kept(doc.list), Place(doc.list), Entry(hook))]

\* Mutant: a group that holds one of draftcat's hooks goes with all it holds.
TakeOutGroups(doc) ==
    LET stay == SelectSeq(doc.list, LAMBDA it : \A h \in ToSet(it.hooks) : ~IsOurs(h))
    IN  IF ~Found(doc.list) THEN doc
        ELSE [doc EXCEPT !.has = stay # <<>>, !.list = stay]

\* upsertHookEntry without one: a list left empty goes with its key.
TakeOut(doc) ==
    LET kept == Kept(doc.list)
    IN  IF ~Found(doc.list) THEN doc
        ELSE [doc EXCEPT !.has = kept # <<>>, !.list = kept]

Result(doc, o) == IF o.remove THEN TakeOut(doc) ELSE PutIn(doc, o.hook)

-----------------------------------------------------------------------------
Go(i, s) == stage' = [stage EXCEPT ![i] = s]

\* gateInstallCmd: the options, and the file they name.
Start(i, o) ==
    /\ stage[i] = "idle"
    /\ opt' = [opt EXCEPT ![i] = o]
    /\ Go(i, "read")
    /\ UNCHANGED <<file, read, last, edits>>

Root(contents) == [contents EXCEPT !.kind = "document"]

Changed(contents, o) ==
    \/ Result(Root(contents), o) # Root(contents)
    \/ contents.kind = "nofile" /\ ~o.remove

\* installHook: it refuses what it cannot read, and writes what has changed.
Read(i) ==
    LET o == opt[i]
        contents == file[o.path]
    IN  /\ stage[i] = "read"
        /\ read' = [read EXCEPT ![i] = contents]
        /\ Go(i, IF contents.kind # "broken" /\ ~o.dryRun /\ Changed(contents, o)
                 THEN "replacing" ELSE "done")
        /\ UNCHANGED <<file, opt, last, edits>>

\* writeFileAtomic: the temporary file is written beside it and renamed to it.
Rename(i) ==
    LET p == opt[i].path
    IN  /\ stage[i] = "replacing"
        /\ file' = [file EXCEPT ![p] = Result(Root(read[i]), opt[i])]
        /\ last' = [last EXCEPT ![p] = {[opt |-> opt[i], read |-> Root(read[i])]}]
        /\ Go(i, "done")
        /\ UNCHANGED <<opt, read, edits>>

\* The write fails, or the command dies before the rename.
GivesUp(i) ==
    /\ stage[i] = "replacing"
    /\ Go(i, "done")
    /\ UNCHANGED <<file, opt, read, last, edits>>

\* The person edits a file.
Edit(p, contents) ==
    /\ edits < MaxEdits
    /\ file' = [file EXCEPT ![p] = contents]
    /\ last' = [last EXCEPT ![p] = {}]
    /\ edits' = edits + 1
    /\ UNCHANGED <<stage, opt, read>>

Init ==
    /\ file \in [Paths -> Documents \cup {NoFile}]
    /\ stage = [i \in Installers |-> "idle"]
    /\ opt \in [Installers -> {CHOOSE o \in Options : TRUE}]
    /\ read = [i \in Installers |-> NoFile]
    /\ last = [p \in Paths |-> {}]
    /\ edits = 0

Next ==
    \/ \E i \in Installers :
          \/ \E o \in Options : Start(i, o)
          \/ Read(i) \/ Rename(i) \/ GivesUp(i)
    \/ \E p \in Paths, c \in Documents \cup {NoFile, Broken} : Edit(p, c)

Spec == Init /\ [][Next]_vars

-----------------------------------------------------------------------------
\* The hooks of a document in their order, and with the items they are in.
AllHooks(doc) == Gather(doc.list, [it \in Item |-> it.hooks])
Mine(doc) == Gather(AllHooks(doc), [h \in Hook |-> IF IsOurs(h) THEN <<h>> ELSE <<>>])
Foreign(doc) == Others(AllHooks(doc))

\* A file draftcat was the last to touch holds one entry of draftcat's, that of
\* the command that replaced it, or none after --remove; the person's hooks are
\* those the command read, in their order (gate_install.go:6, installHook).
EntryIsUpserted ==
    \A p \in Paths : \A w \in last[p] :
       /\ Mine(file[p]) = (IF w.opt.remove THEN <<>> ELSE <<w.opt.hook>>)
       /\ Foreign(file[p]) = Foreign(w.read)
       /\ file[p].others = w.read.others

\* The same command run again finds nothing to change, and --remove takes out
\* all that an install put in, whatever the file held of draftcat's before; only
\* a list for the event that was there and empty goes too (upsertHookEntry).
UpsertSettles ==
    \A p \in Paths : file[p].kind = "document" =>
       \A o \in Options :
          LET after == Result(file[p], o)
          IN  /\ Result(after, o) = after
              /\ (file[p].has => file[p].list # <<>>) => TakeOut(after) = TakeOut(file[p])

=============================================================================
