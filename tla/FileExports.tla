---------------------------- MODULE FileExports ----------------------------
(***************************************************************************)
(* The tools that write files for the caller, into one dest_dir under the  *)
(* root: export_photo through a staging directory and a link (files.py,    *)
(* adapters/photos.py), export_mail by exclusive creation (MailAdapter.    *)
(* export), save_mail_attachment by Mail itself (adapters/                 *)
(* mail_attachments.py).                                                   *)
(*                                                                         *)
(* Several server processes run them, processes are killed and their pids  *)
(* used again, and the user puts files there and takes them away.  An      *)
(* entry is a name as the volume sees it: names that differ in case or in  *)
(* the form of an accent are one entry.                                    *)
(***************************************************************************)
EXTENDS Naturals, FiniteSets

CONSTANTS
    Calls,          \* calls of the three tools
    Pids,
    Entries,        \* names in dest_dir, as the volume compares them
    Messages,       \* the messages export_mail may be asked for
    EntryOf,        \* the entry of each message's file name
    User, Nobody,   \* makers of entries that no call made; nothing is there
    MaxChanges      \* bound: deeds of the user, deaths and births of processes

ASSUME ExportsAssumption ==
    /\ User \notin Calls /\ Nobody \notin Calls /\ User # Nobody /\ Nobody \notin Pids
    /\ EntryOf \in [Messages -> Entries]

VARIABLES
    entry,          \* what dest_dir holds under each name: its maker and its size
    stage,          \* per call, its staging directory
    pids,           \* what runs under each pid
    call,           \* per call: where it is and what it remembers
    changes,
    lost            \* history: calls and entries of theirs that another changed or removed

exportVars == <<entry, stage, pids, call, changes, lost>>

Nothing == [by |-> Nobody, size |-> "none"]
\* zero: made and still short, or saved empty; link: a symbolic link to nothing.
File == [by : Calls \cup {User}, size : {"zero", "whole", "link"}]
Tools == {"photo", "mail", "save"}
Over == {"done", "late", "killed"}

\* plan: the entries to be written; wrote: those written; open: the one in hand;
\* listed: the staging directories a sweep has seen; told: the answer's paths; pending: a
\* save event is with Mail; free (history): what was free when the plan was made.
Fresh == [tool |-> Nobody, step |-> "idle", pid |-> Nobody, plan |-> {}, wrote |-> {},
          open |-> Nobody, listed |-> {}, told |-> {}, pending |-> FALSE, free |-> {}]

ExportsTypeOK ==
    /\ entry \in [Entries -> File \cup {Nothing}]
    /\ stage \in [Calls -> {"none", "dir", "zero", "whole"}]
    /\ pids \in [Pids -> {"server", "stranger", "none"}]
    /\ changes \in 0..MaxChanges
    /\ lost \subseteq Calls \X Entries
    /\ \A c \in Calls : call[c].wrote \subseteq call[c].plan /\ call[c].plan \subseteq Entries

ExportsInit ==
    /\ entry \in [Entries -> {Nothing, [by |-> User, size |-> "link"]}]
    /\ stage = [c \in Calls |-> "none"]
    /\ pids = [p \in Pids |-> "server"]
    /\ call = [c \in Calls |-> Fresh]
    /\ changes = 0 /\ lost = {}

-----------------------------------------------------------------------------
(* Entries. *)

\* As os.path.exists answers: it follows a link.
ExistsThere(e) == entry[e].size \in {"zero", "whole"}

\* os.path.lexists: a link to nothing counts.
Taken(e) == entry[e] # Nothing

Put(e, by, what) ==
    /\ entry' = [entry EXCEPT ![e] = what]
    /\ lost' = IF entry[e].by \in Calls \ {by} THEN lost \cup {<<entry[e].by, e>>} ELSE lost

At(c, step) == call[c].step = step
Goto(c, step) == call' = [call EXCEPT ![c].step = step]
End(c, told) == call' = [call EXCEPT ![c].step = "done", ![c].told = told]
Refuse(c) == End(c, {})
SameFiles == UNCHANGED <<entry, lost>>
InOneCall == UNCHANGED <<pids, changes>>
Entry(c) == CHOOSE e \in call[c].plan : TRUE

\* Photos run on the one native worker of their process.
WorkerFree(p) ==
    \A d \in Calls : call[d].pid = p /\ call[d].tool = "photo" => call[d].step \in Over

-----------------------------------------------------------------------------
(* The plan: all that a call checks before it writes. *)

\* In target_path's order: the directory resolves inside the root and exists or is made,
\* and the name is free.  Any other reason to refuse comes before or here.
Planned(c, p, tool, step, plan) ==
    call' = [call EXCEPT ![c] = [Fresh EXCEPT
        !.tool = tool, !.pid = p, !.step = step, !.plan = plan,
        !.free = {e \in Entries : entry[e] = Nothing}]]

Begin(c, p, tool, step, plan) ==
    /\ At(c, "idle") /\ pids[p] = "server"
    /\ \/ Planned(c, p, tool, "done", {})
       \/ (\A e \in plan : ~Taken(e)) /\ Planned(c, p, tool, step, plan)
    /\ SameFiles /\ InOneCall /\ UNCHANGED stage

PlanPhoto(c, p, e) == WorkerFree(p) /\ Begin(c, p, "photo", "sweep", {e})

PlanSave(c, p, e) == Begin(c, p, "save", "save", {e})

\* No file, no bytes: the message is absent and the others go on.  Two that derive one
\* name refuse the batch.
PlanMail(c, p, located) ==
    /\ \A a, b \in located : a # b => EntryOf[a] # EntryOf[b]
    /\ Begin(c, p, "mail", "write", {EntryOf[m] : m \in located})

-----------------------------------------------------------------------------
(* export_photo. *)

SweepLists(c) ==
    /\ At(c, "sweep")
    /\ call' = [call EXCEPT ![c].step = "sweeping",
                            ![c].listed = {d \in Calls : stage[d] # "none"}]
    /\ SameFiles /\ InOneCall /\ UNCHANGED stage

\* A pid that another program has taken over counts as alive.
PidAlive(p) == pids[p] # "none"

\* The pid of each name is asked about in turn, and a removal may fail.
SweepTakes(c, d) ==
    /\ At(c, "sweeping") /\ d \in call[c].listed
    /\ call' = [call EXCEPT ![c].listed = @ \ {d}]
    /\ \/ call[d].pid # call[c].pid /\ ~PidAlive(call[d].pid)
          /\ stage' = [stage EXCEPT ![d] = "none"]
       \/ UNCHANGED stage
    /\ SameFiles /\ InOneCall

MakeStage(c) ==
    /\ At(c, "sweeping") /\ call[c].listed = {}
    /\ \/ Goto(c, "export") /\ stage' = [stage EXCEPT ![c] = "dir"]
       \/ Refuse(c) /\ UNCHANGED stage
    /\ SameFiles /\ InOneCall

\* osxphotos copies into the directory of the call, raises, or reports another file.
ExportPhoto(c) ==
    /\ At(c, "export")
    /\ \/ Goto(c, "leave") /\ UNCHANGED stage
       \/ /\ stage[c] # "none"
          /\ Goto(c, "publish")
          /\ \E size \in {"zero", "whole"} : stage' = [stage EXCEPT ![c] = size]
    /\ SameFiles /\ InOneCall

\* confirm_written of the staged file, then the link: it fails on any entry there.
Publish(c) ==
    /\ At(c, "publish")
    /\ \/ Goto(c, "leave") /\ SameFiles
       \/ /\ stage[c] = "whole" /\ entry[Entry(c)] = Nothing
          /\ Put(Entry(c), c, [by |-> c, size |-> "whole"])
          /\ call' = [call EXCEPT ![c].step = "leave", ![c].wrote = call[c].plan]
    /\ InOneCall /\ UNCHANGED stage

\* A cleanup that fails is logged, and the outcome stands.
LeaveStage(c) ==
    /\ At(c, "leave")
    /\ stage' \in {stage, [stage EXCEPT ![c] = "none"]}
    /\ End(c, call[c].wrote)
    /\ SameFiles /\ InOneCall

-----------------------------------------------------------------------------
(* export_mail. *)

\* open(path, "xb") of the next message; a refusal lists what was written.
OpenNext(c) ==
    /\ At(c, "write") /\ call[c].wrote # call[c].plan
    /\ \E e \in call[c].plan \ call[c].wrote :
         \/ /\ entry[e] = Nothing
            /\ Put(e, c, [by |-> c, size |-> "zero"])
            /\ call' = [call EXCEPT ![c].step = "writing", ![c].open = e]
         \/ SameFiles /\ End(c, call[c].wrote)
    /\ InOneCall /\ UNCHANGED stage

\* A refusal that leaves what it could write.
WriteKeepsPart(c) ==
    /\ At(c, "writing")
    /\ SameFiles
    /\ End(c, call[c].wrote)
    /\ InOneCall /\ UNCHANGED stage

\* The bytes go to the file that was opened, whatever stands at its name by now; an error
\* removes what stands at the name.
WriteOpened(c) ==
    /\ At(c, "writing")
    /\ LET e == call[c].open
       IN \/ /\ IF entry[e].by = c THEN Put(e, c, [by |-> c, size |-> "whole"]) ELSE SameFiles
             /\ call' = [call EXCEPT ![c].step = "write", ![c].wrote = @ \cup {e}]
          \/ Put(e, c, Nothing) /\ End(c, call[c].wrote)
    /\ InOneCall /\ UNCHANGED stage

AnswerExport(c) ==
    /\ At(c, "write") /\ call[c].wrote = call[c].plan
    /\ End(c, call[c].wrote)
    /\ SameFiles /\ InOneCall /\ UNCHANGED stage

-----------------------------------------------------------------------------
(* save_mail_attachment. *)

SendSave(c) ==
    /\ At(c, "save")
    /\ call' = [call EXCEPT ![c].step = "saving", ![c].pending = TRUE]
    /\ SameFiles /\ InOneCall /\ UNCHANGED stage

\* Mail saves over whatever is at the path, maybe after the host has stopped waiting.
MailSaves(c) ==
    /\ call[c].pending
    /\ \E size \in {"zero", "whole"} : Put(Entry(c), c, [by |-> c, size |-> size])
    /\ call' = [call EXCEPT ![c].pending = FALSE,
                            ![c].step = IF @ = "saving" THEN "confirm" ELSE @]
    /\ InOneCall /\ UNCHANGED stage

\* No such message or attachment, an ambiguous name, one over the cap.
MailDeclines(c) ==
    /\ call[c].pending
    /\ call' = [call EXCEPT ![c].pending = FALSE,
                            ![c].step = IF @ = "saving" THEN "done" ELSE @]
    /\ SameFiles /\ InOneCall /\ UNCHANGED stage

SaveTimesOut(c) == At(c, "saving") /\ Goto(c, "late") /\ SameFiles /\ InOneCall /\ UNCHANGED stage

\* confirm_written at the path: an empty file is removed, one that is gone raises.
ConfirmSaved(c) ==
    /\ At(c, "confirm")
    /\ LET e == Entry(c)
       IN \/ entry[e].size = "zero" /\ Put(e, c, Nothing) /\ Refuse(c)
          \/ entry[e].size \in {"none", "link"} /\ SameFiles /\ Refuse(c)
          \/ entry[e].size = "whole" /\ SameFiles /\ End(c, {e})
    /\ InOneCall /\ UNCHANGED stage

-----------------------------------------------------------------------------
(* The user, and the processes. *)

Changes == changes < MaxChanges /\ changes' = changes + 1

UserPuts(e) ==
    /\ Changes /\ entry[e] = Nothing
    /\ \E size \in {"whole", "link"} : Put(e, User, [by |-> User, size |-> size])
    /\ UNCHANGED <<stage, pids, call>>

UserTakes(e) ==
    /\ Changes /\ entry[e] # Nothing
    /\ Put(e, User, Nothing)
    /\ UNCHANGED <<stage, pids, call>>

Dies(p) ==
    /\ Changes /\ pids[p] # "none"
    /\ pids' = [pids EXCEPT ![p] = "none"]
    /\ call' = [c \in Calls |->
                  IF call[c].pid = p /\ call[c].step \notin Over
                  THEN [call[c] EXCEPT !.step = "killed"] ELSE call[c]]
    /\ SameFiles /\ UNCHANGED stage

ServerStarts(p) ==
    /\ Changes /\ pids[p] = "none"
    /\ \E what \in {"server", "stranger"} : pids' = [pids EXCEPT ![p] = what]
    /\ SameFiles /\ UNCHANGED <<stage, call>>

PlanFile(c) ==
    \E p \in Pids :
        \/ \E e \in Entries : PlanPhoto(c, p, e) \/ PlanSave(c, p, e)
        \/ \E located \in SUBSET Messages : PlanMail(c, p, located)

PhotoStep(c) ==
    \/ SweepLists(c) \/ MakeStage(c) \/ ExportPhoto(c) \/ Publish(c) \/ LeaveStage(c)
    \/ \E d \in Calls : SweepTakes(c, d)

MailStep(c) == OpenNext(c) \/ WriteOpened(c) \/ AnswerExport(c)

SaveStep(c) ==
    SendSave(c) \/ MailSaves(c) \/ MailDeclines(c) \/ SaveTimesOut(c) \/ ConfirmSaved(c)

ExportsNext ==
    \/ \E c \in Calls : PlanFile(c) \/ PhotoStep(c) \/ MailStep(c) \/ SaveStep(c)
    \/ \E e \in Entries : UserPuts(e) \/ UserTakes(e)
    \/ \E p \in Pids : Dies(p) \/ ServerStarts(p)

ExportsSpec == ExportsInit /\ [][ExportsNext]_exportVars

-----------------------------------------------------------------------------
(* Properties. *)

\* Its own, nothing, or the two windows the code accepts: Mail's save into a name that
\* was free when the call checked, and the removal of the file the call has open.
MayChange(c, e) ==
    \/ entry[e] = Nothing \/ entry[e].by = c
    \/ call[c].tool = "save" /\ e \in call[c].free
    \/ call[c].tool = "mail" /\ e = call[c].open

\* A call never overwrites or removes what it did not make, a link to nothing included,
\* apart from the two windows above, and a sweep removes no staging directory of a call
\* that still runs (files.target_path, publish, _sweep_dead_staging, MailAdapter.export).
NothingIsOverwritten ==
    [][\A c \in Calls : call'[c] # call[c] =>
         /\ \A e \in Entries : entry'[e] # entry[e] => MayChange(c, e)
         /\ \A d \in Calls \ {c} : stage'[d] # stage[d] => call[d].step \in Over]_exportVars

\* The paths an answer or a refusal names hold the call's whole file, and nothing else of
\* the call stays, unless someone changed it since or the host stopped waiting for Mail.
AnswersMatchFiles ==
    \A c \in Calls : At(c, "done") =>
        \A e \in Entries :
            /\ e \in call[c].told =>
                 entry[e] = [by |-> c, size |-> "whole"] \/ <<c, e>> \in lost
            /\ entry[e].by = c => e \in call[c].told

\* A photo is at its name whole or not at all, also after a kill.
PhotosArriveWhole ==
    \A c \in Calls, e \in Entries :
        call[c].tool = "photo" /\ entry[e].by = c => entry[e].size = "whole"

\* Files are as the answers tell, and never a part of a photo (photos.export,
\* MailAdapter.export, files.confirm_written).
FilesAreAsTold == AnswersMatchFiles /\ PhotosArriveWhole
=============================================================================
