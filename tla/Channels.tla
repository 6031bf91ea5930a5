------------------------------ MODULE Channels ------------------------------
(* The row of a channel and its picture. A request reads the row, changes   *)
(* some columns and saves all of them; the pictures are files beside it.    *)
(* Owner, automatic assignment and members are in module Membership.        *)
EXTENDS Naturals

CONSTANTS
    Editors,     \* requests under way at the same time
    MaxEdits,    \* requests
    MaxBreaks    \* failed saves and crashes

ASSUME ChannelAssumption == MaxEdits \in Nat /\ MaxBreaks \in Nat

VARIABLES
    app,         \* the row: exists, name, token, image; 0 is no image
    pictures,    \* files in the image directory
    edit,        \* per request: operation, step and the row it works on
    titles, minted, drawn,  \* names, tokens and file names given so far
    told,        \* the token and the name the last answered requests reported
    edits, breaks,
    crossed,     \* history: a request saved a row that another had changed meanwhile
    cut,         \* history: a request ended between the file and the row
    inherited    \* history: the picture the channel had when its owner's account was deleted

channelVars == <<app, pictures, edit, titles, minted, drawn, told, edits, breaks, crossed, cut, inherited>>

NoEdit == [op |-> "none"]

ChannelInit ==
    /\ app = [exists |-> TRUE, name |-> 0, token |-> 1, image |-> 0]
    /\ pictures = {} /\ edit = [e \in Editors |-> NoEdit]
    /\ titles = 0 /\ minted = 1 /\ drawn = 0
    /\ told = [name |-> 0, token |-> 1]
    /\ edits = 0 /\ breaks = 0 /\ crossed = FALSE /\ cut = FALSE /\ inherited = {}

\* The request is allowed (see Membership) and finds the row.
BeginEdit(e, op, step) ==
    /\ edit[e] = NoEdit /\ edits < MaxEdits /\ app.exists
    /\ edits' = edits + 1
    /\ edit' = [edit EXCEPT ![e] = [op |-> op, step |-> step, row |-> app, read |-> app, file |-> 0]]
    /\ UNCHANGED <<app, pictures, titles, minted, drawn, told, breaks, crossed, cut, inherited>>

UpdateName(e) == BeginEdit(e, "update", "change")

UpdateApplicationSecurity(e) == BeginEdit(e, "security", "change")

UploadApplicationImage(e) == BeginEdit(e, "upload", "store")

\* A channel without a picture has none to remove.
RemoveApplicationImage(e) == app.image # 0 /\ BeginEdit(e, "unset", "change")

RequestDeletion(e) == BeginEdit(e, "delete", "delete")

Doing(e, step) == edit[e] # NoEdit /\ edit[e].step = step
GoOn(e, step, row, file) ==
    edit' = [edit EXCEPT ![e] = [op |-> @.op, step |-> step, row |-> row, read |-> @.read, file |-> file]]
GoTo(e, step) == GoOn(e, step, edit[e].row, edit[e].file)

\* generateNonExistingImageName, SaveUploadedFile.
StoreImage(e) ==
    /\ Doing(e, "store")
    /\ drawn' = drawn + 1 /\ pictures' = pictures \cup {drawn + 1}
    /\ GoOn(e, "unlink", edit[e].row, drawn + 1)
    /\ UNCHANGED <<app, titles, minted, told, edits, breaks, crossed, cut, inherited>>

\* The file cannot be written, or only a part of it: it stays as it is.
StoreFails(e) ==
    /\ Doing(e, "store")
    /\ breaks < MaxBreaks /\ breaks' = breaks + 1
    /\ drawn' = drawn + 1 /\ pictures' \in {pictures, pictures \cup {drawn + 1}}
    /\ cut' = (cut \/ pictures' # pictures)
    /\ edit' = [edit EXCEPT ![e] = NoEdit]
    /\ UNCHANGED <<app, titles, minted, told, edits, crossed, inherited>>

Replaced(e) == edit[e].row.image # 0

\* os.Remove of the picture the row had when it was read, before the row is saved.
RemoveOldImage(e) ==
    /\ Doing(e, "unlink")
    /\ pictures' = IF Replaced(e) THEN pictures \ {edit[e].row.image} ELSE pictures
    /\ GoOn(e, "save", [edit[e].row EXCEPT !.image = edit[e].file], edit[e].file)
    /\ UNCHANGED <<app, titles, minted, drawn, told, edits, breaks, crossed, cut, inherited>>

\* The columns the request changes.
Changed(e) ==
    LET row == edit[e].row
        op == edit[e].op
    IN  [exists |-> row.exists,
         name |-> IF op = "update" THEN titles + 1 ELSE row.name,
         token |-> IF op = "security" THEN minted + 1 ELSE row.token,
         image |-> IF op = "unset" THEN 0 ELSE row.image]

ChangeRow(e) ==
    /\ Doing(e, "change")
    /\ titles' = IF edit[e].op = "update" THEN titles + 1 ELSE titles
    /\ minted' = IF edit[e].op = "security" THEN minted + 1 ELSE minted
    /\ GoOn(e, "save", Changed(e), edit[e].file)
    /\ UNCHANGED <<app, pictures, drawn, told, edits, breaks, crossed, cut, inherited>>

\* gorm's Save: all columns, and a row that is gone is inserted again.
UpdateApplicationRow(e) ==
    /\ Doing(e, "save")
    /\ app' = edit[e].row
    /\ crossed' = (crossed \/ app # edit[e].read)
    /\ told' = [name |-> IF edit[e].op = "update" THEN edit[e].row.name ELSE told.name,
                token |-> IF edit[e].op = "security" THEN edit[e].row.token ELSE told.token]
    /\ IF edit[e].op = "unset" THEN GoTo(e, "remove") ELSE edit' = [edit EXCEPT ![e] = NoEdit]
    /\ UNCHANGED <<pictures, titles, minted, drawn, edits, breaks, cut, inherited>>

\* Mutant: a deletion leaves the picture.
LeavesImage(e) == edit[e].op = "unset"

RemovesImage(e) == edit[e].read.image # 0

\* os.Remove after the row was saved without the picture, or deleted.
RemoveImage(e) ==
    /\ Doing(e, "remove")
    /\ pictures' = IF RemovesImage(e) THEN pictures \ {edit[e].read.image} ELSE pictures
    /\ edit' = [edit EXCEPT ![e] = NoEdit]
    /\ UNCHANGED <<app, titles, minted, drawn, told, edits, breaks, crossed, cut, inherited>>

DeleteRow(e) ==
    /\ Doing(e, "delete")
    /\ app' = [app EXCEPT !.exists = FALSE]
    /\ crossed' = (crossed \/ app # edit[e].read)
    /\ GoTo(e, "remove")
    /\ UNCHANGED <<pictures, titles, minted, drawn, told, edits, breaks, cut, inherited>>

\* DeleteUserByID: the channels of a deleted user go with the account; only the
\* request above looks for the picture.
DeleteOwner ==
    /\ app.exists /\ edits < MaxEdits
    /\ edits' = edits + 1
    /\ app' = [app EXCEPT !.exists = FALSE]
    /\ inherited' = {app.image} \ {0}
    /\ UNCHANGED <<pictures, edit, titles, minted, drawn, told, breaks, crossed, cut>>

\* An error of the database.
SaveFails(e) ==
    /\ Doing(e, "save") \/ Doing(e, "delete")
    /\ breaks < MaxBreaks /\ breaks' = breaks + 1
    /\ cut' = (cut \/ edit[e].op = "upload")
    /\ edit' = [edit EXCEPT ![e] = NoEdit]
    /\ UNCHANGED <<app, pictures, titles, minted, drawn, told, edits, crossed, inherited>>

ServerDies ==
    /\ breaks < MaxBreaks /\ breaks' = breaks + 1
    /\ cut' = (cut \/ \E e \in Editors : Doing(e, "remove") \/ Doing(e, "unlink")
                                         \/ (Doing(e, "save") /\ edit[e].op = "upload"))
    /\ edit' = [e \in Editors |-> NoEdit]
    /\ UNCHANGED <<app, pictures, titles, minted, drawn, told, edits, crossed, inherited>>

ChannelNext ==
    \/ ServerDies \/ DeleteOwner
    \/ \E e \in Editors :
          \/ UpdateName(e) \/ UpdateApplicationSecurity(e) \/ UploadApplicationImage(e)
          \/ RemoveApplicationImage(e) \/ RequestDeletion(e)
          \/ StoreImage(e) \/ StoreFails(e) \/ RemoveOldImage(e) \/ ChangeRow(e) \/ UpdateApplicationRow(e)
          \/ RemoveImage(e) \/ DeleteRow(e) \/ SaveFails(e)

ChannelSpec == ChannelInit /\ [][ChannelNext]_channelVars

-----------------------------------------------------------------------------
\* Between requests the row names the token and the name that were answered
\* last, its picture is on disk, and no picture is left behind but the one of a
\* channel that was deleted with its owner's account. The exceptions: a request
\* saved or deleted a row that another request had changed after it was read; a
\* failed save or a crash between the file and the row
\* (api/application.go UpdateApplication, UploadApplicationImage).
ChannelIntact ==
    (~crossed /\ ~cut /\ \A e \in Editors : edit[e] = NoEdit)
    => IF app.exists
       THEN /\ app.token = told.token /\ app.name = told.name
            /\ pictures = IF app.image = 0 THEN {} ELSE {app.image}
       ELSE pictures \subseteq inherited
=============================================================================
