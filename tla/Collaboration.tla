--------------------------- MODULE Collaboration ----------------------------
(* What members add to the messages of a channel: images and attachments,   *)
(* which are a row and a file, and reactions, read marks, mentions and the  *)
(* workflow of a message. The hourly sweep removes files without a row.     *)
(* Threads are in Messages; here a message is erased alone.                 *)
EXTENDS Naturals, FiniteSets

CONSTANTS
    Authors, Supers,   \* users; the administrators among them
    ChannelOwner,
    Posters,           \* users whose role allows posting
    Nobody,
    Works,             \* requests under way at the same time
    MaxImages,         \* images in one message
    MaxSends, MaxFiles, MaxTouches, MaxFaults   \* bounds: messages, files, requests, failures

ASSUME CollaborationAssumption ==
    /\ Supers \cup Posters \cup {ChannelOwner} \subseteq Authors /\ Nobody \notin Authors
    /\ {MaxImages, MaxSends, MaxFiles, MaxTouches, MaxFaults} \subseteq Nat

VARIABLES
    texts,       \* messages that exist, with their sender
    sends, named,          \* identifiers and storage names given so far
    disk,        \* files of the attachment directory
    attached,    \* message_attachments: storage name -> message
    flow,        \* message_workflows: message -> assigned user, status, who resolved it
    notes,       \* rows <<kind, user, message>> of the other tables
    work,        \* per request: where it is
    sweep,       \* the sweep: where it is, names with a row, files it will remove
    delivered,   \* messages handed to their recipients
    touches, faults,
    swept,       \* history: files the sweep removed
    botched,     \* history: messages whose removal after a failed send failed
    overlapped   \* history: messages written to after they were gone

collaborationVars == <<texts, sends, named, disk, attached, flow, notes, work, sweep, delivered,
                       touches, faults, swept, botched, overlapped>>
requestVars == <<sends, named, sweep, delivered, faults, swept, botched>>

Texts == 1..MaxSends
NoFlow == [assigned |-> Nobody, status |-> "none", by |-> Nobody]
Resting == [at |-> "none"]
NoSweep == [at |-> "none", keep |-> {}, doomed |-> {}]

CollaborationInit ==
    /\ texts = <<>> /\ sends = 0 /\ named = 0
    /\ disk = {} /\ attached = <<>>
    /\ flow = [m \in Texts |-> NoFlow] /\ notes = {}
    /\ work = [w \in Works |-> Resting] /\ sweep = NoSweep
    /\ delivered = {} /\ touches = 0 /\ faults = 0
    /\ swept = {} /\ botched = {} /\ overlapped = {}

written == DOMAIN texts
rowNames == DOMAIN attached
RowsOf(m) == {f \in rowNames : attached[f] = m}
WithoutRows(fs) == attached' = [f \in rowNames \ fs |-> attached[f]]

Touch == touches < MaxTouches /\ touches' = touches + 1
Rests(w) == work' = [work EXCEPT ![w] = Resting]
Starts(w, job) == work[w] = Resting /\ work' = [work EXCEPT ![w] = job]
Late(m) == overlapped' = IF m \in written THEN overlapped ELSE overlapped \cup {m}

\* Every member may look at a message; the channel has all users as members here.
messageAccess(m) == m \in written

canManageMessage(u, m) == u \in Supers \/ u \in {ChannelOwner, texts[m]}

-----------------------------------------------------------------------------
(* A message with images: the message is stored, the images are saved one   *)
(* after the other, then it is delivered.                                   *)

SendChatMessage(u, images, w) ==
    /\ u \in Supers \cup Posters \cup {ChannelOwner}
    /\ sends < MaxSends
    /\ sends' = sends + 1
    /\ texts' = [m \in written \cup {sends'} |-> IF m = sends' THEN u ELSE texts[m]]
    /\ Starts(w, [at |-> "file", op |-> "send", msg |-> sends', left |-> images, file |-> 0, mine |-> {}])
    /\ UNCHANGED <<named, disk, attached, flow, notes, sweep, delivered, touches, faults,
                   swept, botched, overlapped>>

\* persistChatImage and UploadAttachment write the file, then the row.
WriteFile(w) ==
    /\ work[w].at = "file" /\ work[w].left > 0
    /\ named < MaxFiles
    /\ named' = named + 1
    /\ disk' = disk \cup {named'}
    /\ work' = [work EXCEPT ![w].at = "row", ![w].file = named']
    /\ UNCHANGED <<texts, sends, attached, flow, notes, sweep, delivered, touches, faults,
                   swept, botched, overlapped>>

CreateMessageAttachment(w) ==
    /\ work[w].at = "row"
    /\ attached' = [f \in rowNames \cup {work[w].file} |->
                      IF f = work[w].file THEN work[w].msg ELSE attached[f]]
    /\ Late(work[w].msg)
    /\ work' = [work EXCEPT ![w].at = "file", ![w].left = @ - 1,
                              ![w].mine = @ \cup {work[w].file}]
    /\ UNCHANGED <<texts, disk, flow, notes, touches, requestVars>>

\* The row cannot be stored: the file goes, and a message being sent is given up.
RowFails(w) ==
    /\ work[w].at = "row" /\ faults < MaxFaults
    /\ faults' = faults + 1
    /\ disk' = disk \ {work[w].file}
    /\ work' = [work EXCEPT ![w] = IF @.op = "send" THEN [@ EXCEPT !.at = "undo"] ELSE Resting]
    /\ UNCHANGED <<texts, sends, named, attached, flow, notes, sweep, delivered, touches,
                   swept, botched, overlapped>>

\* An image is refused or cannot be written, or the mentions cannot be stored.
PrepareFails(w) ==
    /\ work[w].at = "file" /\ work[w].op = "send" /\ faults < MaxFaults
    /\ faults' = faults + 1
    /\ work' = [work EXCEPT ![w].at = "undo"]
    /\ UNCHANGED <<texts, sends, named, disk, attached, flow, notes, sweep, delivered, touches,
                   swept, botched, overlapped>>

\* The mentions are stored last, and the message is delivered.
StorePreparedAndDeliver(w, mentions) ==
    /\ work[w].at = "file" /\ work[w].op = "send" /\ work[w].left = 0
    /\ notes' = notes \cup ({"mention"} \X mentions \X {work[w].msg})
    /\ Late(work[w].msg)
    /\ delivered' = delivered \cup {work[w].msg}
    /\ Rests(w)
    /\ UNCHANGED <<texts, sends, named, disk, attached, flow, sweep, touches, faults, swept, botched>>

UploadDone(w) ==
    /\ work[w].at = "file" /\ work[w].op = "upload" /\ work[w].left = 0
    /\ Rests(w)
    /\ UNCHANGED <<texts, disk, attached, flow, notes, touches, overlapped, requestVars>>

\* Deleting a message takes the rows of all tables with it.
Deletion(ms) ==
    /\ texts' = [m \in written \ ms |-> texts[m]]
    /\ WithoutRows({f \in rowNames : attached[f] \in ms})
    /\ flow' = [m \in Texts |-> IF m \in ms THEN NoFlow ELSE flow[m]]
    /\ notes' = {n \in notes : n[3] \notin ms}

\* Mutant: a deletion leaves the read marks behind.
LeavesReads(ms) ==
    /\ texts' = [m \in written \ ms |-> texts[m]]
    /\ WithoutRows({f \in rowNames : attached[f] \in ms})
    /\ flow' = [m \in Texts |-> IF m \in ms THEN NoFlow ELSE flow[m]]
    /\ notes' = {n \in notes : n[1] = "read" \/ n[3] \notin ms}

EraseMessageRows(ms) == Deletion(ms)

\* A failed send deletes the message, whose rows go with it; the error is ignored.
UndoSend(w) ==
    /\ work[w].at = "undo"
    /\ \/ EraseMessageRows({work[w].msg}) /\ UNCHANGED <<faults, botched>>
       \/ /\ faults < MaxFaults /\ faults' = faults + 1
          /\ botched' = botched \cup {work[w].msg}
          /\ UNCHANGED <<texts, attached, flow, notes>>
    /\ work' = [work EXCEPT ![w] = [at |-> "remove", op |-> "send", mine |-> @.mine]]
    /\ UNCHANGED <<sends, named, disk, sweep, delivered, touches, swept, overlapped>>

-----------------------------------------------------------------------------
(* Attachments of a message that exists.                                    *)

UploadAttachment(m, w) ==
    /\ messageAccess(m)
    /\ Touch
    /\ Starts(w, [at |-> "file", op |-> "upload", msg |-> m, left |-> 1, file |-> 0, mine |-> {}])
    /\ UNCHANGED <<texts, disk, attached, flow, notes, overlapped, requestVars>>

\* The row is read, deleted, and the file removed.
DeleteAttachment(u, f, w) ==
    /\ f \in rowNames /\ messageAccess(attached[f]) /\ canManageMessage(u, attached[f])
    /\ Touch
    /\ Starts(w, [at |-> "unlink", op |-> "detach", mine |-> {f}])
    /\ UNCHANGED <<texts, disk, attached, flow, notes, overlapped, requestVars>>

DeleteMessageAttachment(w) ==
    /\ work[w].at = "unlink"
    /\ WithoutRows(work[w].mine)
    /\ work' = [work EXCEPT ![w].at = "remove"]
    /\ UNCHANGED <<texts, disk, flow, notes, touches, overlapped, requestVars>>

RemoveFiles(w) ==
    /\ work[w].at = "remove"
    /\ disk' = disk \ work[w].mine
    /\ Rests(w)
    /\ UNCHANGED <<texts, attached, flow, notes, touches, overlapped, requestVars>>

\* deleteMessageCompletely: the names are read, then the message goes, then the files.
deleteMessageCompletely(u, m, w) ==
    /\ messageAccess(m) /\ u \in Supers
    /\ Touch
    /\ Starts(w, [at |-> "message", op |-> "delete", msg |-> m, mine |-> RowsOf(m)])
    /\ UNCHANGED <<texts, disk, attached, flow, notes, overlapped, requestVars>>

EraseMessage(w) ==
    /\ work[w].at = "message"
    /\ EraseMessageRows({work[w].msg})
    /\ work' = [work EXCEPT ![w].at = "remove"]
    /\ UNCHANGED <<disk, touches, overlapped, requestVars>>

\* Clearing the channel removes the rows; the files are left to the sweep.
EraseChannelMessages(u) ==
    /\ u \in Supers \cup {ChannelOwner} /\ written # {}
    /\ Touch
    /\ EraseMessageRows(written)
    /\ UNCHANGED <<disk, work, overlapped, requestVars>>

-----------------------------------------------------------------------------
(* Reactions, read marks and the workflow: the message is looked up, the    *)
(* row written later. A workflow is read, changed and saved as a whole.     *)

Annotate(kind, u, m, add, w) ==
    /\ messageAccess(m)
    /\ Touch
    /\ Starts(w, [at |-> "note", op |-> kind, who |-> u, msg |-> m, add |-> add])
    /\ UNCHANGED <<texts, disk, attached, flow, notes, overlapped, requestVars>>

AddReaction(u, m, w) == Annotate("reaction", u, m, TRUE, w)
DeleteReaction(u, m, w) == Annotate("reaction", u, m, FALSE, w)
MarkRead(u, m, w) == Annotate("read", u, m, TRUE, w)
MarkUnread(u, m, w) == Annotate("read", u, m, FALSE, w)

SaveNote(w) ==
    /\ work[w].at = "note"
    /\ LET row == <<work[w].op, work[w].who, work[w].msg>>
       IN  IF work[w].add THEN notes' = notes \cup {row} /\ Late(work[w].msg)
           ELSE notes' = notes \ {row} /\ UNCHANGED overlapped
    /\ Rests(w)
    /\ UNCHANGED <<texts, disk, attached, flow, touches, requestVars>>

Opened(f) == IF f = NoFlow THEN [f EXCEPT !.status = "open"] ELSE f

Assign(u, to, m, w) ==
    /\ messageAccess(m)
    /\ to \in {Nobody, u} \/ canManageMessage(u, m)
    /\ Touch
    /\ Starts(w, [at |-> "flow", op |-> "assign", msg |-> m, new |-> [Opened(flow[m]) EXCEPT !.assigned = to]])
    /\ UNCHANGED <<texts, disk, attached, flow, notes, overlapped, requestVars>>

SetStatus(u, status, m, w) ==
    /\ messageAccess(m)
    /\ Touch
    /\ Starts(w, [at |-> "flow", op |-> "status", msg |-> m,
                  new |-> [flow[m] EXCEPT !.status = status,
                                          !.by = IF status = "resolved" THEN u ELSE Nobody]])
    /\ UNCHANGED <<texts, disk, attached, flow, notes, overlapped, requestVars>>

SaveMessageWorkflow(w) ==
    /\ work[w].at = "flow"
    /\ flow' = [flow EXCEPT ![work[w].msg] = work[w].new]
    /\ Late(work[w].msg)
    /\ Rests(w)
    /\ UNCHANGED <<texts, disk, attached, notes, touches, requestVars>>

-----------------------------------------------------------------------------
(* cleanupOrphanAttachments: the names are read, the directory is listed,   *)
(* and files without a name are removed one by one.                         *)

SweepStep(next, files) ==
    /\ sweep' = next /\ disk' = disk \ files /\ swept' = swept \cup files
    /\ UNCHANGED <<texts, sends, named, attached, flow, notes, work, delivered, faults, botched, overlapped>>

GetAttachmentStorageNames ==
    /\ sweep.at = "none" /\ Touch
    /\ SweepStep([NoSweep EXCEPT !.at = "names", !.keep = rowNames], {})

ReadDir ==
    /\ sweep.at = "names"
    /\ SweepStep([sweep EXCEPT !.at = "list", !.doomed = disk \ sweep.keep], {})
    /\ UNCHANGED touches

RemoveEntry ==
    /\ sweep.at = "list"
    /\ IF sweep.doomed = {} THEN SweepStep(NoSweep, {})
       ELSE LET f == CHOOSE g \in sweep.doomed : TRUE
            IN  SweepStep([sweep EXCEPT !.doomed = @ \ {f}], {f})
    /\ UNCHANGED touches

\* The process dies: every request and the sweep stop where they are.
Stop ==
    /\ faults < MaxFaults /\ faults' = faults + 1
    /\ work' = [w \in Works |-> Resting] /\ sweep' = NoSweep
    /\ UNCHANGED <<texts, sends, named, disk, attached, flow, notes, delivered, touches,
                   swept, botched, overlapped>>

-----------------------------------------------------------------------------
CollaborationNext ==
    \/ \E w \in Works :
          \/ \E u \in Authors, n \in 0..MaxImages : SendChatMessage(u, n, w)
          \/ WriteFile(w) \/ CreateMessageAttachment(w) \/ RowFails(w) \/ PrepareFails(w)
          \/ UndoSend(w) \/ UploadDone(w)
          \/ \E mentions \in {{}, {ChannelOwner}} : StorePreparedAndDeliver(w, mentions)
          \/ DeleteMessageAttachment(w) \/ RemoveFiles(w) \/ EraseMessage(w)
          \/ SaveNote(w) \/ SaveMessageWorkflow(w)
          \/ \E u \in Authors, f \in rowNames : DeleteAttachment(u, f, w)
          \/ \E u \in Authors, m \in written :
                \/ UploadAttachment(m, w) \/ deleteMessageCompletely(u, m, w)
                \/ AddReaction(u, m, w) \/ DeleteReaction(u, m, w)
                \/ MarkRead(u, m, w) \/ MarkUnread(u, m, w)
                \/ \E to \in Authors \cup {Nobody} : Assign(u, to, m, w)
                \/ \E status \in {"open", "resolved"} : SetStatus(u, status, m, w)
    \/ \E u \in Authors : EraseChannelMessages(u)
    \/ GetAttachmentStorageNames \/ ReadDir \/ RemoveEntry \/ Stop

CollaborationSpec == CollaborationInit /\ [][CollaborationNext]_collaborationVars

\* An attachment that members can see has its file, whatever requests fail, overlap or stop
\* half way: a row is written after its file and deleted before it. It may only be missing when
\* the sweep took it, or when the removal of a message that could not be sent failed.
RowsBacked ==
    \A f \in rowNames : f \in disk \cup swept \/ attached[f] \in botched

\* A message that is gone leaves no row behind in any table, so it cannot come back as a
\* mention, a read mark or an attachment; only a request that had looked it up before it was
\* deleted may have written one (EraseMessageRows).
NothingLeftBehind ==
    \A m \in Texts \ (written \cup overlapped) :
       RowsOf(m) = {} /\ flow[m] = NoFlow /\ \A n \in notes : n[3] # m

\* The comment of SendChatMessage: a message that is delivered has all the images it was sent
\* with, so recipients see a complete message.
DeliveredComplete ==
    \A m \in delivered : RowsOf(m) \subseteq disk

\* The rows of the collaboration tables fit the files and the messages
\* (api/collaboration.go, database/message.go).
RowsConsistent == RowsBacked /\ NothingLeftBehind
=============================================================================
