---------------------------- MODULE ChannelProofs ----------------------------
(* Proofs about channels, for any users, groups and requests: the row of a  *)
(* channel and its pictures stay together, the owner stays a member, groups *)
(* give exactly the access they are assigned, and the keys that order a     *)
(* user's channels keep their order.                                        *)
EXTENDS Integers, Membership, Channels, SortKeys, FiniteSetTheorems,
        SequenceTheorems, WellFoundedInduction, TLAPS

-----------------------------------------------------------------------------
(* The row of a channel and its pictures.                                  *)

AppRows == [exists : BOOLEAN, name : Nat, token : Nat, image : Nat]
Edits == [op : {"update", "security", "upload", "unset", "delete"},
          step : {"change", "store", "unlink", "save", "delete", "remove"},
          row : AppRows, read : AppRows, file : Nat]

Working(e) == edit[e] # NoEdit
HasFile(e) == Working(e) /\ edit[e].op = "upload" /\ edit[e].step \in {"unlink", "save"}
Removes(e) == Working(e) /\ edit[e].step = "remove"

\* A request works on the row it read; at its save, with the columns it changes.
EditOK(e) ==
    /\ edit[e].read.exists /\ edit[e].read.image \in 0..drawn /\ edit[e].row.image \in 0..drawn
    /\ edit[e].file \in 0..drawn
    /\ edit[e].step = "delete" => edit[e].op = "delete"
    /\ edit[e].step = "remove" => edit[e].op \in {"unset", "delete"}
    /\ edit[e].step \in {"store", "unlink"} => edit[e].op = "upload"
    /\ edit[e].step = "change" => edit[e].op \in {"update", "security", "unset"}
    /\ edit[e].step = "save" => edit[e].op # "delete"
    /\ edit[e].step \in {"change", "store", "unlink"} => edit[e].row = edit[e].read
    /\ edit[e].step = "save" =>
         /\ edit[e].row.exists
         /\ edit[e].op # "update" => edit[e].row.name = edit[e].read.name
         /\ edit[e].op # "security" => edit[e].row.token = edit[e].read.token
         /\ edit[e].row.image = CASE edit[e].op = "upload" -> edit[e].file
                                  [] edit[e].op = "unset" -> 0
                                  [] OTHER -> edit[e].read.image

\* Nobody else knows the file of an upload before it is saved.
FileFresh(e) ==
    /\ edit[e].file # 0 /\ edit[e].file # app.image /\ edit[e].file \in pictures
    /\ \A d \in Editors : Working(d) => /\ edit[d].read.image # edit[e].file
                                        /\ d # e => edit[d].row.image # edit[e].file
                                        /\ d # e => edit[d].file # edit[e].file

ChannelTyped ==
    /\ app \in AppRows /\ drawn \in Nat /\ titles \in Nat /\ minted \in Nat
    /\ app.image \in 0..drawn /\ pictures \subseteq 1..drawn
    /\ crossed \in BOOLEAN /\ cut \in BOOLEAN
    /\ edit \in [Editors -> Edits \cup {NoEdit}]
    /\ \A e \in Editors : Working(e) => EditOK(e)
    /\ \A e \in Editors : HasFile(e) => FileFresh(e)

\* While no request has overwritten another, or was cut off.
Answered == app.exists => app.token = told.token /\ app.name = told.name
PictureThere ==
    app.exists /\ app.image # 0 =>
        \/ app.image \in pictures
        \/ \E e \in Editors : HasFile(e) /\ edit[e].step = "save" /\ edit[e].read.image = app.image
PicturesNeeded ==
    \A p \in pictures : \/ app.exists /\ app.image = p
                        \/ ~app.exists /\ p \in inherited
                        \/ \E e \in Editors : HasFile(e) /\ edit[e].file = p
                        \/ \E e \in Editors : Removes(e) /\ edit[e].read.image = p
OthersSpared ==
    \A e \in Editors :
        /\ Removes(e) => edit[e].read.image # app.image \/ edit[e].read.image = 0 \/ ~app.exists
        /\ HasFile(e) /\ edit[e].step = "save" => edit[e].read.image \notin pictures

PicturesKept == Answered /\ PictureThere /\ PicturesNeeded /\ OthersSpared
Tidy == ~crossed /\ ~cut => PicturesKept

LEMMA EditShapes ==
    /\ \A x \in Edits : /\ x # NoEdit /\ x.row \in AppRows /\ x.read \in AppRows /\ x.file \in Nat
                        /\ x = [op |-> x.op, step |-> x.step, row |-> x.row, read |-> x.read, file |-> x.file]
    /\ \A r \in AppRows : /\ r = [exists |-> r.exists, name |-> r.name, token |-> r.token, image |-> r.image]
                          /\ r.name \in Nat /\ r.token \in Nat /\ r.image \in Nat /\ r.exists \in BOOLEAN
<1>1. \A x \in Edits : x # NoEdit
  <2>1. DOMAIN NoEdit = {"op"} /\ \A x \in Edits : "step" \in DOMAIN x
    BY DEF NoEdit, Edits
  <2> QED  BY <2>1
<1>2. \A x \in Edits : /\ x.row \in AppRows /\ x.read \in AppRows /\ x.file \in Nat
                       /\ x = [op |-> x.op, step |-> x.step, row |-> x.row, read |-> x.read, file |-> x.file]
  BY DEF Edits
<1>3. \A r \in AppRows : /\ r = [exists |-> r.exists, name |-> r.name, token |-> r.token, image |-> r.image]
                         /\ r.name \in Nat /\ r.token \in Nat /\ r.image \in Nat /\ r.exists \in BOOLEAN
  BY DEF AppRows
<1> QED  BY <1>1, <1>2, <1>3

\* What a step of a request makes of it.
Becomes(e, step, row, file) ==
    /\ edit'[e] \in Edits /\ Working(e)' /\ Working(e)
    /\ edit'[e].op = edit[e].op /\ edit'[e].read = edit[e].read
    /\ edit'[e].step = step /\ edit'[e].row = row /\ edit'[e].file = file
Others(e) == edit' \in [Editors -> Edits \cup {NoEdit}] /\ \A d \in Editors : d # e => edit'[d] = edit[d]

LEMMA EditMoves ==
    ASSUME ChannelTyped, NEW e \in Editors, NEW s, Doing(e, s)
    PROVE  /\ \A step \in {"unlink", "save", "remove"}, row \in AppRows, file \in Nat :
                GoOn(e, step, row, file) => Others(e) /\ Becomes(e, step, row, file)
           /\ GoTo(e, "remove") => Others(e) /\ Becomes(e, "remove", edit[e].row, edit[e].file)
           /\ edit' = [edit EXCEPT ![e] = NoEdit] => Others(e) /\ edit'[e] = NoEdit
<1>0. edit \in [Editors -> Edits \cup {NoEdit}] /\ edit[e] \in Edits
  BY DEF ChannelTyped, Doing
<1>1. ASSUME NEW step \in {"unlink", "save", "remove"}, NEW row \in AppRows, NEW file \in Nat,
             GoOn(e, step, row, file)
      PROVE  Others(e) /\ Becomes(e, step, row, file)
  <2>1. PICK y : y = [op |-> edit[e].op, step |-> step, row |-> row, read |-> edit[e].read, file |-> file]
    OBVIOUS
  <2>2. y \in Edits
    BY <1>0, <2>1 DEF Edits
  <2>3. edit' = [edit EXCEPT ![e] = y] /\ edit'[e] = y
    BY <1>0, <1>1, <2>1 DEF GoOn
  <2> QED  BY <1>0, <2>1, <2>2, <2>3, EditShapes DEF Becomes, Working, Others
<1>2. edit' = [edit EXCEPT ![e] = NoEdit] => Others(e) /\ edit'[e] = NoEdit
  BY <1>0 DEF Others
<1> QED  BY <1>0, <1>1, <1>2, EditShapes DEF GoTo

LEMMA InitChannel == ChannelInit => ChannelTyped /\ Tidy
<1> SUFFICES ASSUME ChannelInit PROVE ChannelTyped /\ Tidy
  OBVIOUS
<1>1. \A e \in Editors : ~Working(e)
  BY DEF ChannelInit, Working
<1>2. app \in AppRows /\ app.image = 0 /\ app.token = 1 /\ app.name = 0
  BY DEF ChannelInit, AppRows
<1>3. ChannelTyped
  <2>1. edit \in [Editors -> Edits \cup {NoEdit}] /\ drawn = 0 /\ titles = 0 /\ minted = 1 /\ pictures = {}
        /\ crossed = FALSE /\ cut = FALSE
    BY DEF ChannelInit
  <2>2. drawn \in Nat /\ titles \in Nat /\ minted \in Nat /\ app.image \in 0..drawn
    BY <1>2, <2>1
  <2> QED  BY <1>1, <1>2, <2>1, <2>2 DEF ChannelTyped, HasFile
<1>4. PicturesKept
  BY <1>1, <1>2 DEF ChannelInit, HasFile, Removes, PicturesKept, Answered, PictureThere, PicturesNeeded,
                    OthersSpared
<1> QED  BY <1>3, <1>4 DEF Tidy

\* The other requests are as they were, and this one is right.
LEMMA TypedBy ==
    ASSUME ChannelTyped, NEW e \in Editors, Others(e),
           app' \in AppRows, titles' \in Nat, minted' \in Nat, crossed' \in BOOLEAN, cut' \in BOOLEAN,
           drawn' \in Nat, drawn <= drawn', app'.image \in 0..drawn', pictures' \subseteq 1..drawn',
           Working(e)' => EditOK(e)', HasFile(e)' => FileFresh(e)',
           \A d \in Editors : d # e /\ HasFile(d) =>
             /\ edit[d].file # app'.image /\ edit[d].file \in pictures'
             /\ Working(e)' => /\ edit'[e].read.image # edit[d].file /\ edit'[e].row.image # edit[d].file
                               /\ edit'[e].file # edit[d].file
    PROVE  ChannelTyped'
<1>0. \A d \in Editors : d # e => edit'[d] = edit[d] /\ (Working(d)' <=> Working(d)) /\ (HasFile(d)' <=> HasFile(d))
  BY DEF Others, Working, HasFile
<1>1. ASSUME NEW d \in Editors, Working(d)' PROVE EditOK(d)'
  <2>1. CASE d # e
    <3>1. EditOK(d) /\ edit'[d] = edit[d]
      BY <1>0, <1>1, <2>1 DEF ChannelTyped
    <3>2. 0..drawn \subseteq 0..drawn'
      BY DEF ChannelTyped
    <3> QED  BY <3>1, <3>2 DEF EditOK
  <2> QED  BY <1>1, <2>1
<1>2. ASSUME NEW d \in Editors, HasFile(d)' PROVE FileFresh(d)'
  <2>1. CASE d # e
    <3>1. FileFresh(d) /\ HasFile(d) /\ edit'[d] = edit[d]
      BY <1>0, <1>2, <2>1 DEF ChannelTyped
    <3>2. \A c \in Editors : c # e => edit'[c] = edit[c] /\ (Working(c)' <=> Working(c))
      BY <1>0
    <3> QED  BY <2>1, <3>1, <3>2 DEF FileFresh
  <2> QED  BY <1>2, <2>1
<1> QED  BY <1>1, <1>2 DEF ChannelTyped, Others

\* A request goes on without a new file.
GoesOn(e) ==
    /\ EditOK(e)'
    /\ \E step, row : Becomes(e, step, row, edit[e].file)
    /\ edit'[e].row.image \in {0, edit[e].row.image, edit[e].file}
    /\ edit[e].op = "upload" => HasFile(e) /\ UNCHANGED app

LEMMA NextChannelTyped ==
    ASSUME ChannelTyped, [ChannelNext]_channelVars
    PROVE  ChannelTyped'
<1>0. /\ app \in AppRows /\ drawn \in Nat /\ titles \in Nat /\ minted \in Nat
      /\ app.image \in 0..drawn /\ pictures \subseteq 1..drawn
      /\ crossed \in BOOLEAN /\ cut \in BOOLEAN /\ edit \in [Editors -> Edits \cup {NoEdit}]
      /\ \A e \in Editors : Working(e) => EditOK(e)
      /\ \A e \in Editors : HasFile(e) => FileFresh(e)
  BY DEF ChannelTyped
<1>1. CASE UNCHANGED channelVars
  BY <1>1 DEF channelVars, ChannelTyped, Working, HasFile, EditOK, FileFresh
<1>2. ASSUME NEW e \in Editors,
             NEW op \in {"update", "security", "upload", "unset", "delete"},
             NEW step \in {"change", "store", "delete"}, BeginEdit(e, op, step),
             step = "store" <=> op = "upload", step = "delete" <=> op = "delete"
      PROVE  ChannelTyped'
  <2>1. PICK x : x = [op |-> op, step |-> step, row |-> app, read |-> app, file |-> 0]
    OBVIOUS
  <2>2. x \in Edits /\ 0 \in 0..drawn
    BY <1>0, <2>1 DEF Edits
  <2>3. edit' = [edit EXCEPT ![e] = x] /\ edit'[e] = x /\ app.exists
    BY <1>0, <1>2, <2>1 DEF BeginEdit
  <2>4. Others(e)
    BY <1>0, <2>2, <2>3 DEF Others
  <2>5. EditOK(e)' /\ ~HasFile(e)'
    BY <1>0, <1>2, <2>1, <2>2, <2>3 DEF EditOK, HasFile, BeginEdit
  <2>6. \A d \in Editors : HasFile(d) => edit[d].file # app.image /\ edit[d].file # 0 /\ edit[d].file \in pictures
    BY <1>0 DEF FileFresh
  <2>7. UNCHANGED <<app, pictures, titles, minted, drawn, crossed, cut>>
    BY <1>2 DEF BeginEdit
  <2> QED  BY <1>0, <2>1, <2>3, <2>4, <2>5, <2>6, <2>7, TypedBy
<1>3. ASSUME NEW e \in Editors, StoreImage(e) PROVE ChannelTyped'
  <2>1. /\ drawn + 1 \in Nat /\ Doing(e, "store") /\ edit[e].row \in AppRows /\ Working(e)
        /\ drawn' = drawn + 1 /\ pictures' = pictures \cup {drawn + 1}
    BY <1>0, <1>3, EditShapes DEF StoreImage, Doing, Working
  <2>2. Others(e) /\ Becomes(e, "unlink", edit[e].row, drawn + 1)
    BY <1>3, <2>1, EditMoves DEF StoreImage
  <2>3. EditOK(e) /\ 0..drawn \subseteq 0..drawn' /\ 1..drawn \subseteq 1..drawn' /\ drawn' \in 0..drawn' /\ drawn' \in 1..drawn'
    BY <1>0, <2>1
  <2>4. EditOK(e)'
    BY <2>1, <2>2, <2>3 DEF EditOK, Becomes, Doing
  <2>5. FileFresh(e)'
    <3>1. \A d \in Editors : Working(d) => EditOK(d)
      BY <1>0
    <3>2. app' = app /\ app.image # drawn + 1 /\ drawn + 1 \in pictures' /\ drawn + 1 # 0 /\ edit'[e].file = drawn + 1
      BY <1>0, <1>3, <2>1, <2>2 DEF StoreImage, Becomes
    <3>3. \A d \in Editors : Working(d)' => Working(d)
      BY <2>1, <2>2 DEF Others, Working
    <3>4. \A k \in 0..drawn : k # drawn + 1
      BY <1>0
    <3> QED  BY <2>2, <2>3, <3>1, <3>2, <3>3, <3>4 DEF FileFresh, EditOK, Becomes, Others
  <2>6. \A d \in Editors : d # e /\ HasFile(d) =>
             /\ edit[d].file # app.image /\ edit[d].file \in pictures'
             /\ edit[e].read.image # edit[d].file /\ edit[e].row.image # edit[d].file
             /\ drawn + 1 # edit[d].file
    BY <1>0, <2>1 DEF FileFresh
  <2>7. UNCHANGED <<app, titles, minted, crossed, cut>> /\ pictures' \subseteq 1..drawn' /\ app.image \in 0..drawn'
    BY <1>0, <1>3, <2>1, <2>3 DEF StoreImage
  <2> QED  BY <1>0, <2>1, <2>2, <2>4, <2>5, <2>6, <2>7, TypedBy DEF Becomes
\* A step that neither stores a file nor takes away one of an upload under way.
<1>4. ASSUME NEW e \in Editors, Others(e), Working(e), app' \in AppRows, titles' \in Nat, minted' \in Nat,
             crossed' \in BOOLEAN, cut' \in BOOLEAN, UNCHANGED drawn,
             app'.image = app.image \/ app'.image = edit[e].row.image,
             pictures' = pictures \/ pictures' = pictures \ {edit[e].read.image},
             edit'[e] = NoEdit \/ GoesOn(e)
      PROVE  ChannelTyped'
  <2>1. EditOK(e) /\ edit[e].row \in AppRows
    BY <1>0, <1>4, EditShapes DEF Working
  <2>2. app'.image \in 0..drawn /\ pictures' \subseteq 1..drawn
    BY <1>0, <1>4, <2>1 DEF EditOK
  <2>3. Working(e)' => GoesOn(e)
    BY <1>4 DEF Working
  <2>4. ASSUME NEW d \in Editors, d # e, HasFile(d)
        PROVE  /\ edit[d].file # app'.image /\ edit[d].file \in pictures'
               /\ Working(e)' => /\ edit'[e].read.image # edit[d].file /\ edit'[e].row.image # edit[d].file
                                 /\ edit'[e].file # edit[d].file
    <3>1. /\ edit[d].file # 0 /\ edit[d].file # app.image /\ edit[d].file \in pictures
          /\ edit[e].read.image # edit[d].file /\ edit[e].row.image # edit[d].file /\ edit[e].file # edit[d].file
      BY <1>0, <1>4, <2>4 DEF FileFresh
    <3>2. GoesOn(e) => /\ edit'[e].read.image # edit[d].file /\ edit'[e].row.image # edit[d].file
                       /\ edit'[e].file # edit[d].file
      BY <3>1 DEF GoesOn, Becomes
    <3> QED  BY <1>4, <2>3, <3>1, <3>2
  <2>5. Working(e)' => EditOK(e)'
    BY <2>3 DEF GoesOn
  <2>6. ASSUME HasFile(e)' PROVE FileFresh(e)'
    <3>1. GoesOn(e)
      BY <2>3, <2>6 DEF HasFile
    <3>2. /\ edit[e].op = "upload" /\ HasFile(e) /\ app' = app
          /\ edit'[e].file = edit[e].file /\ edit'[e].read = edit[e].read
      BY <2>6, <3>1 DEF HasFile, GoesOn, Becomes
    <3>3. FileFresh(e)
      BY <1>0, <3>2
    <3>4. \A d \in Editors : d # e => edit'[d] = edit[d] /\ (Working(d)' <=> Working(d))
      BY <1>4 DEF Others, Working
    <3> QED  BY <1>4, <3>2, <3>3, <3>4 DEF FileFresh
  <2> QED  BY <1>0, <1>4, <2>2, <2>4, <2>5, <2>6, TypedBy
<1>5. ASSUME NEW e \in Editors, NEW s, Doing(e, s)
      PROVE  Working(e) /\ EditOK(e) /\ edit[e].row \in AppRows /\ edit[e].file \in Nat
  BY <1>0, <1>5, EditShapes DEF Doing, Working
<1>6. ASSUME NEW e \in Editors, RemoveOldImage(e) PROVE ChannelTyped'
  <2>1. PICK row : row = [edit[e].row EXCEPT !.image = edit[e].file]
    OBVIOUS
  <2>2. Doing(e, "unlink") /\ GoOn(e, "save", row, edit[e].file)
    BY <1>6, <2>1 DEF RemoveOldImage
  <2>3. /\ row \in AppRows /\ row.image = edit[e].file
        /\ row.exists = edit[e].row.exists /\ row.name = edit[e].row.name /\ row.token = edit[e].row.token
    BY <1>5, <2>1, <2>2 DEF AppRows
  <2>4. Others(e) /\ Becomes(e, "save", row, edit[e].file)
    BY <1>5, <2>2, <2>3, EditMoves
  <2>5. GoesOn(e)
    <3>1. EditOK(e) /\ Working(e) /\ edit[e].step = "unlink"
      BY <1>5, <2>2 DEF Doing
    <3>2. EditOK(e)' /\ UNCHANGED app /\ UNCHANGED drawn
      BY <1>6, <2>3, <2>4, <3>1 DEF EditOK, Becomes, RemoveOldImage
    <3> QED  BY <2>3, <2>4, <3>1, <3>2 DEF GoesOn, Becomes, HasFile, EditOK
  <2>6. edit[e].row.image = edit[e].read.image /\ Working(e)
    BY <1>5, <2>2 DEF EditOK, Doing
  <2>7. /\ UNCHANGED <<app, titles, minted, drawn, crossed, cut>>
        /\ pictures' = pictures \/ pictures' = pictures \ {edit[e].read.image}
    BY <1>6, <2>6 DEF RemoveOldImage
  <2> QED  BY <1>0, <1>4, <2>4, <2>5, <2>6, <2>7
<1>7. ASSUME NEW e \in Editors, ChangeRow(e) PROVE ChannelTyped'
  <2>1. PICK row : row = Changed(e)
    OBVIOUS
  <2>2. Doing(e, "change") /\ GoOn(e, "save", row, edit[e].file)
    BY <1>7, <2>1 DEF ChangeRow
  <2>3. /\ row \in AppRows
        /\ row.exists = edit[e].row.exists
        /\ edit[e].op # "update" => row.name = edit[e].row.name
        /\ edit[e].op # "security" => row.token = edit[e].row.token
        /\ row.image = IF edit[e].op = "unset" THEN 0 ELSE edit[e].row.image
    <3>1. edit[e].row \in AppRows /\ titles + 1 \in Nat /\ minted + 1 \in Nat
      BY <1>0, <1>5, <2>2
    <3> QED  BY <2>1, <3>1 DEF Changed, AppRows
  <2>4. Others(e) /\ Becomes(e, "save", row, edit[e].file)
    BY <1>5, <2>2, <2>3, EditMoves
  <2>5. EditOK(e) /\ Working(e) /\ edit[e].step = "change" /\ edit[e].op # "upload" /\ edit[e].op # "delete"
    BY <1>5, <2>2 DEF Doing, EditOK
  <2>6. /\ UNCHANGED <<app, pictures, drawn, crossed, cut>>
        /\ titles' \in Nat /\ minted' \in Nat
    BY <1>0, <1>7 DEF ChangeRow
  <2>7. 0 \in 0..drawn
    BY <1>0
  <2>8. EditOK(e)'
    BY <2>3, <2>4, <2>5, <2>6, <2>7 DEF EditOK, Becomes
  <2>9. GoesOn(e)
    BY <2>3, <2>4, <2>5, <2>8 DEF GoesOn, Becomes
  <2> QED  BY <1>0, <1>4, <2>4, <2>5, <2>6, <2>9
<1>8. ASSUME NEW e \in Editors, Working(e), Becomes(e, "remove", edit[e].row, edit[e].file),
             edit[e].op \in {"unset", "delete"}, UNCHANGED drawn
      PROVE  GoesOn(e)
  <2>1. EditOK(e)
    BY <1>0, <1>8
  <2>2. EditOK(e)'
    BY <1>8, <2>1 DEF EditOK, Becomes
  <2> QED  BY <1>8, <2>2 DEF GoesOn, Becomes
<1>9. ASSUME NEW e \in Editors, DeleteRow(e) PROVE ChannelTyped'
  <2>1. Doing(e, "delete") /\ Others(e) /\ Becomes(e, "remove", edit[e].row, edit[e].file)
    BY <1>9, EditMoves DEF DeleteRow
  <2>2. Working(e) /\ edit[e].op = "delete"
    BY <1>5, <2>1 DEF EditOK, Doing
  <2>3. app' \in AppRows /\ app'.image = app.image
    BY <1>0, <1>9 DEF DeleteRow, AppRows
  <2>4. UNCHANGED <<pictures, drawn, titles, minted, cut>> /\ crossed' \in BOOLEAN
    BY <1>9 DEF DeleteRow
  <2> QED  BY <1>0, <1>4, <1>8, <2>1, <2>2, <2>3, <2>4
<1>10. ASSUME NEW e \in Editors, UpdateApplicationRow(e) PROVE ChannelTyped'
  <2>1. Doing(e, "save") /\ UNCHANGED <<pictures, drawn, titles, minted, cut>> /\ crossed' \in BOOLEAN
        /\ app' = edit[e].row
    BY <1>10 DEF UpdateApplicationRow
  <2>2. Working(e) /\ app' \in AppRows
    BY <1>5, <2>1
  <2>3. CASE edit[e].op = "unset"
    <3>1. Others(e) /\ Becomes(e, "remove", edit[e].row, edit[e].file)
      BY <1>10, <2>1, <2>3, EditMoves DEF UpdateApplicationRow
    <3> QED  BY <1>0, <1>4, <1>8, <2>1, <2>2, <2>3, <3>1
  <2>4. CASE edit[e].op # "unset"
    <3>1. Others(e) /\ edit'[e] = NoEdit
      BY <1>10, <2>1, <2>4, EditMoves DEF UpdateApplicationRow
    <3> QED  BY <1>0, <1>4, <2>1, <2>2, <3>1
  <2> QED  BY <2>3, <2>4
<1>11. ASSUME NEW e \in Editors, RemoveImage(e) PROVE ChannelTyped'
  <2>1. Doing(e, "remove") /\ Others(e) /\ edit'[e] = NoEdit
    BY <1>11, EditMoves DEF RemoveImage
  <2>2. UNCHANGED <<app, titles, minted, drawn, crossed, cut>>
        /\ (pictures' = pictures \/ pictures' = pictures \ {edit[e].read.image})
    BY <1>11 DEF RemoveImage
  <2> QED  BY <1>0, <1>4, <1>5, <2>1, <2>2
<1>12. ASSUME NEW e \in Editors, SaveFails(e) PROVE ChannelTyped'
  <2>1. Working(e) /\ Others(e) /\ edit'[e] = NoEdit
    BY <1>5, <1>12, EditMoves DEF SaveFails
  <2>2. UNCHANGED <<app, pictures, titles, minted, drawn, crossed>> /\ cut' \in BOOLEAN
    BY <1>12 DEF SaveFails
  <2> QED  BY <1>0, <1>4, <2>1, <2>2
<1>13. ASSUME ServerDies PROVE ChannelTyped'
  <2>1. edit' \in [Editors -> Edits \cup {NoEdit}] /\ \A e \in Editors : ~Working(e)' /\ ~HasFile(e)'
    BY <1>13 DEF ServerDies, Working, HasFile
  <2>2. UNCHANGED <<app, pictures, titles, minted, drawn, crossed>> /\ cut' \in BOOLEAN
    BY <1>13 DEF ServerDies
  <2> QED  BY <1>0, <2>1, <2>2 DEF ChannelTyped
<1>14. ASSUME NEW e \in Editors,
              \/ UpdateName(e) \/ UpdateApplicationSecurity(e) \/ UploadApplicationImage(e)
              \/ RemoveApplicationImage(e) \/ RequestDeletion(e)
       PROVE  ChannelTyped'
  BY <1>2, <1>14 DEF UpdateName, UpdateApplicationSecurity, UploadApplicationImage, RemoveApplicationImage,
                     RequestDeletion
<1>15. ASSUME NEW e \in Editors, StoreFails(e) PROVE ChannelTyped'
  <2>1. /\ Working(e) /\ Others(e) /\ edit'[e] = NoEdit /\ ~Working(e)' /\ ~HasFile(e)'
        /\ UNCHANGED <<app, titles, minted, crossed>> /\ cut' \in BOOLEAN /\ drawn' = drawn + 1
        /\ pictures \subseteq pictures' /\ pictures' \subseteq pictures \cup {drawn + 1}
    <3>1. Doing(e, "store") /\ Others(e) /\ edit'[e] = NoEdit
      BY <1>15, EditMoves DEF StoreFails
    <3>2. Working(e) /\ ~Working(e)' /\ ~HasFile(e)'
      BY <1>5, <3>1 DEF Working, HasFile
    <3> QED  BY <1>15, <3>1, <3>2 DEF StoreFails
  <2>2. /\ drawn' \in Nat /\ drawn <= drawn' /\ 0..drawn \subseteq 0..drawn'
        /\ 1..drawn \subseteq 1..drawn' /\ drawn + 1 \in 1..drawn'
    BY <1>0, <2>1
  <2>3. app'.image \in 0..drawn' /\ pictures' \subseteq 1..drawn'
    BY <1>0, <2>1, <2>2
  <2>4. \A d \in Editors : HasFile(d) => edit[d].file # app'.image /\ edit[d].file \in pictures'
    BY <1>0, <2>1 DEF FileFresh
  <2> QED  BY <1>0, <2>1, <2>2, <2>3, <2>4, TypedBy
<1>16. ASSUME DeleteOwner PROVE ChannelTyped'
  <2>1. /\ app' \in AppRows /\ app'.image = app.image
        /\ UNCHANGED <<pictures, edit, titles, minted, drawn, crossed, cut>>
    BY <1>0, <1>16 DEF DeleteOwner, AppRows
  <2> QED  BY <1>0, <2>1 DEF ChannelTyped, Working, HasFile, EditOK, FileFresh
<1> QED  BY <1>1, <1>3, <1>6, <1>7, <1>9, <1>10, <1>11, <1>12, <1>13, <1>14, <1>15, <1>16 DEF ChannelNext

Alike(d) == edit'[d].step = edit[d].step /\ edit'[d].file = edit[d].file /\ edit'[d].read = edit[d].read

\* Steps that concern neither the row nor the pictures.
LEMMA TidySame ==
    ASSUME PicturesKept, UNCHANGED <<app, pictures, told, inherited>>,
           \A d \in Editors : /\ HasFile(d)' <=> HasFile(d)
                              /\ Removes(d)' <=> Removes(d)
                              /\ HasFile(d) \/ Removes(d) => Alike(d)
    PROVE  PicturesKept'
<1>1. Answered'
  BY DEF PicturesKept, Answered
<1>2. PictureThere'
  BY DEF PicturesKept, PictureThere, Alike
<1>3. PicturesNeeded'
  BY DEF PicturesKept, PicturesNeeded, Alike
<1>4. OthersSpared'
  BY DEF PicturesKept, OthersSpared, Alike
<1> QED  BY <1>1, <1>2, <1>3, <1>4 DEF PicturesKept

LEMMA OthersAlike ==
    ASSUME NEW e, Others(e)
    PROVE  \A d \in Editors : d # e => /\ HasFile(d)' <=> HasFile(d)
                                       /\ Removes(d)' <=> Removes(d)
                                       /\ Working(d)' <=> Working(d)
                                       /\ Alike(d)
BY DEF Others, HasFile, Removes, Working, Alike

LEMMA NextTidy ==
    ASSUME ChannelTyped, ChannelTyped', [ChannelNext]_channelVars, Tidy
    PROVE  Tidy'
<1>0. /\ app \in AppRows /\ drawn \in Nat /\ app.image \in 0..drawn /\ pictures \subseteq 1..drawn
      /\ edit \in [Editors -> Edits \cup {NoEdit}]
      /\ \A e \in Editors : Working(e) => EditOK(e) /\ edit[e] \in Edits
      /\ \A e \in Editors : HasFile(e) => FileFresh(e)
  BY DEF ChannelTyped, Working
<1>1. CASE UNCHANGED channelVars
  BY <1>1 DEF channelVars, Tidy, PicturesKept, Answered, PictureThere, PicturesNeeded, OthersSpared,
              HasFile, Removes, Working
<1>2. ASSUME NEW e \in Editors, NEW op, NEW step \in {"change", "store", "delete"}, BeginEdit(e, op, step)
      PROVE  Tidy'
  <2>1. PICK x : x = [op |-> op, step |-> step, row |-> app, read |-> app, file |-> 0]
    OBVIOUS
  <2>2. edit'[e] = x /\ (\A d \in Editors : d # e => edit'[d] = edit[d]) /\ edit[e] = NoEdit
    BY <1>0, <1>2, <2>1 DEF BeginEdit
  <2>3. \A d \in Editors : /\ HasFile(d)' <=> HasFile(d)
                           /\ Removes(d)' <=> Removes(d)
                           /\ HasFile(d) \/ Removes(d) => Alike(d)
    BY <2>1, <2>2 DEF HasFile, Removes, Working, Alike
  <2> QED  BY <1>2, <2>3, TidySame DEF Tidy, BeginEdit
<1>3. ASSUME NEW e \in Editors, NEW s, Doing(e, s) PROVE Working(e) /\ EditOK(e) /\ edit[e] \in Edits
  BY <1>0, <1>3 DEF Doing, Working
<1>4. ASSUME NEW e \in Editors, StoreImage(e) PROVE Tidy'
  <2>1. Doing(e, "store") /\ drawn + 1 \in Nat /\ edit[e].row \in AppRows
    BY <1>0, <1>3, <1>4, EditShapes DEF StoreImage
  <2>2. Others(e) /\ Becomes(e, "unlink", edit[e].row, drawn + 1)
    BY <1>4, <2>1, EditMoves DEF StoreImage
  <2>3. SUFFICES ASSUME PicturesKept PROVE PicturesKept'
    BY <1>4 DEF Tidy, StoreImage
  <2>4. ~HasFile(e) /\ ~Removes(e) /\ HasFile(e)' /\ ~Removes(e)' /\ edit'[e].step = "unlink" /\ edit'[e].file = drawn + 1
    BY <1>3, <2>1, <2>2 DEF HasFile, Removes, Doing, Becomes, EditOK
  <2>5. pictures' = pictures \cup {drawn + 1} /\ UNCHANGED <<app, told, inherited>>
    BY <1>4 DEF StoreImage
  <2>6. Answered' /\ PictureThere'
    BY <2>2, <2>3, <2>4, <2>5, OthersAlike DEF PicturesKept, Answered, PictureThere, Alike
  <2>7. PicturesNeeded'
    BY <2>2, <2>3, <2>4, <2>5, OthersAlike DEF PicturesKept, PicturesNeeded, Alike
  <2>8. OthersSpared'
    <3>1. \A d \in Editors : HasFile(d) => edit[d].read.image # drawn + 1
      BY <1>0 DEF EditOK, HasFile
    <3> QED  BY <2>2, <2>3, <2>4, <2>5, <3>1, OthersAlike DEF PicturesKept, OthersSpared, Alike
  <2> QED  BY <2>6, <2>7, <2>8 DEF PicturesKept
<1>5. ASSUME NEW e \in Editors, RemoveOldImage(e), PicturesKept PROVE PicturesKept'
  <2>1. Doing(e, "unlink") /\ EditOK(e) /\ edit[e].row = edit[e].read /\ HasFile(e) /\ ~Removes(e)
    BY <1>3, <1>5 DEF RemoveOldImage, EditOK, HasFile, Removes, Doing, Working
  <2>2. PICK row : row = [edit[e].row EXCEPT !.image = edit[e].file]
    OBVIOUS
  <2>3. row \in AppRows /\ edit[e].file \in Nat
    BY <1>3, <2>1, <2>2, EditShapes DEF AppRows
  <2>4. Others(e) /\ Becomes(e, "save", row, edit[e].file)
    BY <1>5, <2>1, <2>2, <2>3, EditMoves DEF RemoveOldImage
  <2>5. /\ HasFile(e)' /\ ~Removes(e)' /\ edit'[e].step = "save" /\ edit[e].step = "unlink"
        /\ edit'[e].file = edit[e].file /\ edit'[e].read = edit[e].read
    BY <2>1, <2>4 DEF HasFile, Removes, Becomes, Doing
  <2>6. pictures' = pictures \ {edit[e].read.image} /\ UNCHANGED <<app, told, inherited>>
    BY <1>0, <1>5, <2>1 DEF RemoveOldImage, Replaced
  <2>7. Answered'
    BY <1>5, <2>6 DEF PicturesKept, Answered
  <2>8. PictureThere'
    BY <1>5, <2>4, <2>5, <2>6, OthersAlike DEF PicturesKept, PictureThere, Alike
  <2>9. PicturesNeeded'
    BY <1>5, <2>1, <2>4, <2>5, <2>6, OthersAlike DEF PicturesKept, PicturesNeeded, Alike
  <2>10. OthersSpared'
    BY <1>5, <2>4, <2>5, <2>6, OthersAlike DEF PicturesKept, OthersSpared, Alike
  <2> QED  BY <2>7, <2>8, <2>9, <2>10 DEF PicturesKept
\* A save of the row as it was read.
<1>6. ASSUME NEW e \in Editors, UpdateApplicationRow(e), app = edit[e].read, PicturesKept PROVE PicturesKept'
  <2>1. Doing(e, "save") /\ EditOK(e) /\ Working(e) /\ edit[e].step = "save" /\ app.exists /\ ~Removes(e)
    BY <1>3, <1>6 DEF UpdateApplicationRow, EditOK, Removes, Doing
  <2>2. Others(e)
    BY <1>6, <2>1, EditMoves DEF UpdateApplicationRow
  <2>3. /\ app'.exists /\ UNCHANGED pictures
        /\ edit[e].op # "update" => app'.name = app.name
        /\ edit[e].op # "security" => app'.token = app.token
        /\ app'.image = CASE edit[e].op = "upload" -> edit[e].file
                           [] edit[e].op = "unset" -> 0
                           [] OTHER -> app.image
    BY <1>6, <2>1 DEF UpdateApplicationRow, EditOK
  <2>4. HasFile(e) <=> edit[e].op = "upload"
    BY <2>1 DEF HasFile
  <2>5. ~HasFile(e)' /\ (Removes(e)' => edit[e].op = "unset")
        /\ (edit[e].op = "unset" => Removes(e)' /\ edit'[e].read = app)
    <3>1. CASE edit[e].op = "unset"
      <4>1. Becomes(e, "remove", edit[e].row, edit[e].file)
        BY <1>6, <2>1, <3>1, EditMoves DEF UpdateApplicationRow
      <4> QED  BY <1>6, <3>1, <4>1 DEF HasFile, Removes, Becomes
    <3>2. CASE edit[e].op # "unset"
      <4>1. edit'[e] = NoEdit
        BY <1>6, <2>1, <3>2, EditMoves DEF UpdateApplicationRow
      <4> QED  BY <3>2, <4>1 DEF HasFile, Removes, Working
    <3> QED  BY <3>1, <3>2
  <2>6. Answered'
    BY <1>6, <2>1, <2>3 DEF UpdateApplicationRow, PicturesKept, Answered
  <2>7. PictureThere'
    <3>1. CASE edit[e].op = "upload"
      BY <1>0, <2>3, <2>4, <3>1 DEF FileFresh, PictureThere
    <3>2. CASE edit[e].op = "unset"
      BY <2>3, <3>2 DEF PictureThere
    <3>3. CASE edit[e].op \notin {"upload", "unset"}
      BY <1>6, <2>1, <2>2, <2>3, <2>4, <3>3, OthersAlike DEF PicturesKept, PictureThere, Alike
    <3> QED  BY <3>1, <3>2, <3>3
  <2>8. PicturesNeeded'
    <3>1. edit[e].op = "upload" => app.image \notin pictures
      BY <1>6, <2>1, <2>4 DEF PicturesKept, OthersSpared
    <3> QED  BY <1>6, <2>1, <2>2, <2>3, <2>4, <2>5, <3>1, OthersAlike DEF PicturesKept, PicturesNeeded, Alike
  <2>9. OthersSpared'
    <3>1. ASSUME NEW d \in Editors, Removes(d)', d # e
          PROVE  edit'[d].read.image # app'.image \/ edit'[d].read.image = 0
      <4>1. Removes(d) /\ Working(d) /\ edit'[d].read = edit[d].read
        BY <2>2, <3>1, OthersAlike DEF Alike, Removes
      <4>2. edit[d].read.image # app.image \/ edit[d].read.image = 0
        BY <1>6, <2>1, <4>1 DEF PicturesKept, OthersSpared
      <4>3. edit[e].op = "upload" => edit[d].read.image # edit[e].file
        BY <1>0, <2>4, <4>1 DEF FileFresh
      <4> QED  BY <2>3, <4>1, <4>2, <4>3
    <3>2. Removes(e)' => edit'[e].read.image # app'.image \/ edit'[e].read.image = 0
      BY <2>3, <2>5
    <3>3. \A d \in Editors : HasFile(d)' /\ edit'[d].step = "save" => edit'[d].read.image \notin pictures'
      BY <1>6, <2>2, <2>3, <2>5, OthersAlike DEF PicturesKept, OthersSpared, Alike
    <3> QED  BY <3>1, <3>2, <3>3 DEF OthersSpared
  <2> QED  BY <2>6, <2>7, <2>8, <2>9 DEF PicturesKept
<1>7. ASSUME NEW e \in Editors, DeleteRow(e), app = edit[e].read, PicturesKept PROVE PicturesKept'
  <2>1. Doing(e, "delete") /\ edit[e].step = "delete" /\ Others(e) /\ Becomes(e, "remove", edit[e].row, edit[e].file)
    BY <1>7, EditMoves DEF DeleteRow, Doing
  <2>2. ~HasFile(e) /\ ~Removes(e) /\ ~HasFile(e)' /\ Removes(e)' /\ edit'[e].read = app
    BY <1>7, <2>1 DEF HasFile, Removes, Becomes
  <2>3. app.exists /\ ~app'.exists /\ UNCHANGED pictures
    <3>1. EditOK(e)
      BY <1>3, <2>1
    <3> QED  BY <1>0, <1>7, <3>1 DEF DeleteRow, AppRows, EditOK
  <2>4. Answered' /\ PictureThere'
    BY <2>3 DEF Answered, PictureThere
  <2>5. PicturesNeeded'
    BY <1>7, <2>1, <2>2, <2>3, OthersAlike DEF PicturesKept, PicturesNeeded, Alike
  <2>6. OthersSpared'
    BY <1>7, <2>1, <2>2, <2>3, OthersAlike DEF PicturesKept, OthersSpared, Alike
  <2> QED  BY <2>4, <2>5, <2>6 DEF PicturesKept
<1>8. ASSUME NEW e \in Editors, RemoveImage(e), PicturesKept PROVE PicturesKept'
  <2>1. Doing(e, "remove") /\ Removes(e) /\ ~HasFile(e) /\ Others(e) /\ edit'[e] = NoEdit
    BY <1>3, <1>8, EditMoves DEF RemoveImage, Removes, HasFile, Doing
  <2>2. ~HasFile(e)' /\ ~Removes(e)'
    BY <2>1 DEF HasFile, Removes, Working
  <2>3. pictures' = pictures \ {edit[e].read.image} /\ UNCHANGED <<app, told, inherited>>
    BY <1>0, <1>8 DEF RemoveImage, RemovesImage
  <2>4. Answered'
    BY <1>8, <2>3 DEF PicturesKept, Answered
  <2>5. PictureThere'
    BY <1>8, <2>1, <2>2, <2>3, OthersAlike DEF PicturesKept, PictureThere, OthersSpared, Alike
  <2>6. PicturesNeeded'
    BY <1>8, <2>1, <2>2, <2>3, OthersAlike DEF PicturesKept, PicturesNeeded, Alike
  <2>7. OthersSpared'
    BY <1>8, <2>1, <2>2, <2>3, OthersAlike DEF PicturesKept, OthersSpared, Alike
  <2> QED  BY <2>4, <2>5, <2>6, <2>7 DEF PicturesKept
<1>9. ASSUME NEW e \in Editors, ~HasFile(e), ~Removes(e), ~HasFile(e)', ~Removes(e)', Others(e),
             UNCHANGED <<app, pictures, told, inherited>>, PicturesKept
      PROVE  PicturesKept'
  <2>1. \A d \in Editors : /\ HasFile(d)' <=> HasFile(d)
                           /\ Removes(d)' <=> Removes(d)
                           /\ HasFile(d) \/ Removes(d) => Alike(d)
    BY <1>9, OthersAlike
  <2> QED  BY <1>9, <2>1, TidySame
<1>10. ASSUME NEW e \in Editors, ChangeRow(e), PicturesKept PROVE PicturesKept'
  <2>1. Doing(e, "change") /\ EditOK(e) /\ edit[e].step = "change" /\ edit[e].op # "upload"
    BY <1>3, <1>10 DEF ChangeRow, EditOK, Doing
  <2>2. PICK row : row = Changed(e)
    OBVIOUS
  <2>3. row \in AppRows /\ edit[e].file \in Nat
    <3>1. edit[e].row \in AppRows /\ titles + 1 \in Nat /\ minted + 1 \in Nat /\ edit[e].file \in Nat
      BY <1>3, <2>1, EditShapes DEF ChannelTyped
    <3> QED  BY <2>2, <3>1 DEF Changed, AppRows
  <2>4. Others(e) /\ Becomes(e, "save", row, edit[e].file)
    BY <1>10, <2>1, <2>2, <2>3, EditMoves DEF ChangeRow
  <2>5. ~HasFile(e) /\ ~Removes(e) /\ ~HasFile(e)' /\ ~Removes(e)'
    BY <2>1, <2>4 DEF HasFile, Removes, Becomes
  <2> QED  BY <1>9, <1>10, <2>4, <2>5 DEF ChangeRow
<1>11. ASSUME NEW e \in Editors, SaveFails(e), edit[e].op # "upload", PicturesKept PROVE PicturesKept'
  <2>1. Others(e) /\ edit'[e] = NoEdit /\ edit[e].step # "remove"
    BY <1>11, EditMoves DEF SaveFails, Doing
  <2>2. ~HasFile(e) /\ ~Removes(e) /\ ~HasFile(e)' /\ ~Removes(e)'
    BY <1>11, <2>1 DEF HasFile, Removes, Working
  <2> QED  BY <1>9, <1>11, <2>1, <2>2 DEF SaveFails
<1>12. ASSUME ServerDies, ~cut', PicturesKept PROVE PicturesKept'
  <2>1. \A d \in Editors : ~HasFile(d) /\ ~Removes(d)
    BY <1>12 DEF ServerDies, HasFile, Removes, Working, Doing
  <2>2. \A d \in Editors : ~HasFile(d)' /\ ~Removes(d)'
    BY <1>12 DEF ServerDies, HasFile, Removes, Working
  <2>3. UNCHANGED <<app, pictures, told, inherited>>
    BY <1>12 DEF ServerDies
  <2> QED  BY <1>12, <2>1, <2>2, <2>3, TidySame
<1>13. ASSUME NEW e \in Editors,
              \/ RemoveOldImage(e) \/ UpdateApplicationRow(e) \/ DeleteRow(e) \/ RemoveImage(e)
              \/ ChangeRow(e) \/ SaveFails(e)
       PROVE  Tidy'
  <2>1. SUFFICES ASSUME ~crossed', ~cut' PROVE PicturesKept'
    BY DEF Tidy
  <2>2. ~crossed /\ ~cut
    <3>0. (RemoveOldImage(e) \/ RemoveImage(e) \/ ChangeRow(e)) => UNCHANGED <<crossed, cut>>
      BY DEF RemoveOldImage, RemoveImage, ChangeRow
    <3>1. CASE RemoveOldImage(e) \/ RemoveImage(e) \/ ChangeRow(e)
      BY <2>1, <3>0, <3>1
    <3>2. CASE UpdateApplicationRow(e) \/ DeleteRow(e)
      <4>1. cut' = cut /\ crossed' = (crossed \/ app # edit[e].read)
        BY <3>2 DEF UpdateApplicationRow, DeleteRow
      <4> QED  BY <2>1, <4>1
    <3>3. CASE SaveFails(e)
      BY <2>1, <3>3 DEF SaveFails
    <3> QED  BY <1>13, <3>1, <3>2, <3>3
  <2>3. PicturesKept
    BY <2>2 DEF Tidy
  <2>4. UpdateApplicationRow(e) \/ DeleteRow(e) => app = edit[e].read
    BY <2>1 DEF UpdateApplicationRow, DeleteRow
  <2>5. SaveFails(e) => edit[e].op # "upload"
    BY <2>1 DEF SaveFails
  <2> QED  BY <1>5, <1>6, <1>7, <1>8, <1>10, <1>11, <1>13, <2>3, <2>4, <2>5
<1>14. CASE ServerDies
  <2>1. ~cut' => ~cut /\ crossed' = crossed
    BY <1>14 DEF ServerDies
  <2> QED  BY <1>12, <1>14, <2>1 DEF Tidy
<1>15. ASSUME NEW e \in Editors,
              \/ UpdateName(e) \/ UpdateApplicationSecurity(e) \/ UploadApplicationImage(e)
              \/ RemoveApplicationImage(e) \/ RequestDeletion(e)
       PROVE  Tidy'
  BY <1>2, <1>15 DEF UpdateName, UpdateApplicationSecurity, UploadApplicationImage, RemoveApplicationImage,
                     RequestDeletion
<1>16. ASSUME NEW e \in Editors, StoreFails(e) PROVE Tidy'
  <2>1. SUFFICES ASSUME ~crossed', ~cut' PROVE PicturesKept'
    BY DEF Tidy
  <2>2. /\ Doing(e, "store") /\ Others(e) /\ edit'[e] = NoEdit
        /\ UNCHANGED <<app, pictures, told, inherited>> /\ ~crossed /\ ~cut
    BY <1>16, <2>1, EditMoves DEF StoreFails
  <2>3. ~HasFile(e) /\ ~Removes(e) /\ ~HasFile(e)' /\ ~Removes(e)'
    BY <2>2 DEF HasFile, Removes, Working, Doing
  <2> QED  BY <1>9, <2>2, <2>3 DEF Tidy
\* The picture of a channel that goes with its owner's account.
<1>17. ASSUME DeleteOwner PROVE Tidy'
  <2>1. /\ app.exists /\ ~app'.exists /\ inherited' = {app.image} \ {0}
        /\ UNCHANGED <<pictures, edit, told, crossed, cut>>
    BY <1>0, <1>17 DEF DeleteOwner, AppRows
  <2>2. SUFFICES ASSUME PicturesKept PROVE PicturesKept'
    BY <2>1 DEF Tidy
  <2>3. \A d \in Editors : (HasFile(d)' <=> HasFile(d)) /\ (Removes(d)' <=> Removes(d))
    BY <2>1 DEF HasFile, Removes, Working
  <2>4. Answered' /\ PictureThere'
    BY <2>1 DEF Answered, PictureThere
  <2>5. PicturesNeeded'
    <3>1. 0 \notin pictures
      BY <1>0
    <3> QED  BY <2>1, <2>2, <2>3, <3>1 DEF PicturesKept, PicturesNeeded
  <2>6. OthersSpared'
    BY <2>1, <2>2, <2>3 DEF PicturesKept, OthersSpared
  <2> QED  BY <2>4, <2>5, <2>6 DEF PicturesKept
<1> QED  BY <1>1, <1>4, <1>13, <1>14, <1>15, <1>16, <1>17 DEF ChannelNext

\* The row names what was answered last, its picture is on disk, and no other
\* but that of a channel deleted with its owner's account.
THEOREM RowAndPicture == ChannelSpec => []ChannelIntact
<1>1. ChannelTyped /\ [ChannelNext]_channelVars => ChannelTyped'
  BY NextChannelTyped
<1>2. ChannelTyped /\ ChannelTyped' /\ [ChannelNext]_channelVars /\ Tidy => Tidy'
  BY NextTidy
<1>3. ChannelTyped /\ Tidy => ChannelIntact
  <2> SUFFICES ASSUME ChannelTyped, PicturesKept, \A e \in Editors : edit[e] = NoEdit
               PROVE  IF app.exists
                      THEN /\ app.token = told.token /\ app.name = told.name
                           /\ pictures = IF app.image = 0 THEN {} ELSE {app.image}
                      ELSE pictures \subseteq inherited
    BY DEF ChannelIntact, Tidy
  <2>1. \A e \in Editors : ~HasFile(e) /\ ~Removes(e)
    BY DEF HasFile, Removes, Working
  <2>2. 0 \notin pictures
    BY DEF ChannelTyped
  <2> QED  BY <2>1, <2>2 DEF PicturesKept, Answered, PictureThere, PicturesNeeded
<1> QED  BY <1>1, <1>2, <1>3, InitChannel, PTL DEF ChannelSpec
-----------------------------------------------------------------------------
(* Members and groups.                                                     *)

Row(r) == r = [role |-> r.role, receive |-> r.receive, override |-> r.override, auto |-> r.auto,
               group |-> r.group, grole |-> r.grole, greceive |-> r.greceive]
Channel(c) == c = [exists |-> c.exists, owner |-> c.owner, auto |-> c.auto, posting |-> c.posting]
RowsTyped(table) == table = [u \in People |-> table[u]] /\ \A u \in People : table[u] = NoRow \/ Row(table[u])

Syncing == {"sync", "synced", "apply"}
Under(t, ops) == thread[t].op \in ops

RequestOK(t) ==
    /\ Under(t, {"upsert", "remove", "unjoin", "ungroup", "forget"}) =>
         thread[t].user \in People /\ standing[thread[t].user] # "new"
    /\ Under(t, {"upsert", "remove", "save", "synced", "apply"}) =>
         /\ Channel(thread[t].channel) /\ thread[t].channel.exists /\ thread[t].channel.owner \in People
         /\ t \notin outdated => thread[t].channel = channel
    /\ Under(t, {"remove"}) => thread[t].user # thread[t].channel.owner
    /\ Under(t, Syncing) => thread[t].then = NoOne \/ (thread[t].then \in People /\ standing[thread[t].then] # "new")
    /\ Under(t, {"synced", "apply"}) =>
         \A u \in People : standing[u] = "new" => thread[t].desired[u] = NoRow
    /\ Under(t, {"apply"}) =>
         RowsTyped(thread[t].rows) /\ \A u \in People : standing[u] = "new" => thread[t].rows[u] = NoRow

\* The steps by what they do to the requests.
Asks(t) ==
    \/ \E c, u \in People : DeleteMember(t, c, u)
    \/ \E c, u \in People, r \in Roles, b \in Notify : UpsertMember(t, c, u, r, b)
    \/ \E c \in People : UpdateApplication(t, c)
    \/ \E u \in People : DeleteUser(t, u)
Assigns(t) ==
    \/ \E c \in People, g \in Groups : DeleteGroupAssignment(t, c, g)
    \/ \E c \in People, g \in Groups, r \in Roles, b \in Notify : UpsertGroupAssignment(t, c, g, r, b)
    \/ \E g \in Groups, u \in People : AddUserGroupMember(t, g, u) \/ RemoveUserGroupMember(t, g, u)
    \/ \E g \in Groups : DeleteUserGroup(t, g)
Proceeds(t) ==
    \/ ReadDesired(t) \/ ReadMemberships(t) \/ NothingToSync(t) \/ SyncApplicationGroupAssignments(t)
    \/ DeleteOwnedAndMemberships(t) \/ DeleteUserGroupMembershipsForUser(t)
EndsWork(t) ==
    \/ UpsertApplicationMembership(t) \/ DeleteApplicationMembership(t) \/ SaveApplication(t)
    \/ SyncFails(t) \/ ForgetUser(t)
AtOnce ==
    \/ \E u \in People, a, b \in BOOLEAN : CreateApplication(u, a, b)
    \/ \E b \in BOOLEAN : SetAutoAssign(b) \/ SetMemberPosting(b)
    \/ \E u \in People : CreateUser(u) \/ DeleteApplication(u)
    \/ \E u \in People, b \in BOOLEAN : SetCurrentUserNotifications(u, b)
    \/ \E c, u \in People : TransferOwnership(c, u)
    \/ Restart

LEMMA Steps ==
    MembershipNext => AtOnce \/ \E t \in Threads : Asks(t) \/ Assigns(t) \/ Proceeds(t) \/ EndsWork(t)
  BY Zenon DEF MembershipNext, AtOnce, Asks, Assigns, Proceeds, EndsWork

Tables ==
    /\ Channel(channel) /\ channel.exists \in BOOLEAN /\ (channel.exists => channel.owner \in People)
    /\ RowsTyped(rows)
    /\ standing = [u \in People |-> standing[u]]
    /\ inGroup = [g \in Groups |-> inGroup[g]] /\ given = [g \in Groups |-> given[g]]
    /\ overtaken \in BOOLEAN /\ unsynced \in BOOLEAN
    /\ \A u \in People : standing[u] = "new" => rows[u] = NoRow /\ \A g \in Groups : u \notin inGroup[g]

RequestsHold ==
    /\ thread = [t \in Threads |-> thread[t]] /\ outdated \subseteq Threads
    /\ \A t \in Threads : RequestOK(t)

MembersTyped == Tables /\ RequestsHold

\* Before the channel is created there is nothing of it.
Unborn ==
    channel.owner = NoOne =>
        /\ ~channel.exists
        /\ \A u \in People : rows[u] = NoRow
        /\ \A g \in Groups : given[g] = NoRow
        /\ \A t \in Threads : ~Under(t, {"upsert", "remove", "save"} \cup Syncing)

\* A synchronisation works on rows in which the owner has a membership.
OwnerKept ==
    ~overtaken =>
        /\ OwnerGuaranteed
        /\ \A t \in Threads : t \notin outdated /\ Under(t, {"apply"}) =>
             LET owner == thread[t].channel.owner
             IN  thread[t].rows[owner] # NoRow /\ ~thread[t].rows[owner].auto

RowRight(u) ==
    IF Access(u) = NoRow THEN rows[u] = NoRow \/ ~rows[u].group
    ELSE rows[u] # NoRow /\ rows[u].group /\ rows[u].grole = Access(u).role

Settled ==
    channel.exists /\ ~unsynced /\ ~overtaken /\ (\A t \in Threads : ~Under(t, Syncing))
        => \A u \in people \ removed : RowRight(u)

LEMMA RowIsThere == ASSUME NEW r, Row(r) PROVE r # NoRow
  BY DEF Row, NoRow

LEMMA NewRows ==
    /\ Row(PlainRow) /\ ~PlainRow.auto /\ ~PlainRow.group
    /\ Row(AutoRow) /\ AutoRow.auto /\ ~AutoRow.group
<1>1. ASSUME NEW r, r = PlainRow, NEW z, z = [r EXCEPT !.auto = TRUE]
      PROVE  Row(r) /\ r.auto = FALSE /\ r.group = FALSE /\ Row(z) /\ z.auto = TRUE /\ z.group = FALSE
  <2>1. Row(r) /\ r.auto = FALSE /\ r.group = FALSE
    BY <1>1 DEF PlainRow, Row
  <2> QED  BY <1>1, <2>1 DEF Row
<1> QED  BY <1>1 DEF AutoRow

\* What a member, a new owner and an administrator's form leave of a row.
LEMMA ChosenRows ==
    ASSUME NEW r, Row(r), NEW a, NEW b, NEW z, z = [r EXCEPT !.receive = a, !.override = b]
    PROVE  Row(z) /\ z.auto = r.auto /\ z.group = r.group /\ z.grole = r.grole
  BY DEF Row

LEMMA RoleRows ==
    ASSUME NEW r, Row(r), NEW a, NEW z, z = [r EXCEPT !.role = a]
    PROVE  Row(z) /\ z.auto = r.auto /\ z.group = r.group /\ z.grole = r.grole
  BY DEF Row

LEMMA HandedRows ==
    ASSUME NEW r, Row(r), NEW a, NEW b, NEW z,
           z = [r EXCEPT !.role = a, !.receive = b, !.auto = FALSE] \/ z = [r EXCEPT !.auto = FALSE]
    PROVE  Row(z) /\ ~z.auto /\ z.group = r.group /\ z.grole = r.grole
<1>1. CASE z = [r EXCEPT !.role = a, !.receive = b, !.auto = FALSE]
  <2>1. z = [role |-> a, receive |-> b, override |-> r.override, auto |-> FALSE,
             group |-> r.group, grole |-> r.grole, greceive |-> r.greceive]
    BY <1>1 DEF Row
  <2> QED  BY <2>1 DEF Row
<1>2. CASE z = [r EXCEPT !.auto = FALSE]
  <2>1. z = [role |-> r.role, receive |-> r.receive, override |-> r.override, auto |-> FALSE,
             group |-> r.group, grole |-> r.grole, greceive |-> r.greceive]
    BY <1>2 DEF Row
  <2> QED  BY <2>1 DEF Row
<1> QED  BY <1>1, <1>2

LEMMA GrantedRows ==
    ASSUME NEW r, Row(r), NEW a, NEW g, g = Granted(r, a)
    PROVE  Row(g) /\ g.auto = r.auto /\ g.group = TRUE /\ g.grole = a.role
  BY DEF Row, Granted

LEMMA NotifiedRows ==
    ASSUME NEW r, Row(r), NEW b, NEW z, z = [r EXCEPT !.receive = b]
    PROVE  Row(z) /\ z.auto = r.auto /\ z.group = r.group /\ z.grole = r.grole
  BY DEF Row

\* A synchronisation gives the row the access and leaves what was added by hand.
LEMMA SyncedRows ==
    ASSUME NEW r, r = NoRow \/ Row(r), NEW a, NEW u, NEW owner, NEW z, z = Synced(r, a, u, owner)
    PROVE  /\ z = NoRow \/ Row(z)
           /\ IF a = NoRow THEN z = NoRow \/ ~z.group ELSE z # NoRow /\ z.group /\ z.grole = a.role
           /\ r # NoRow /\ u = owner => z # NoRow /\ z.auto = r.auto
           /\ r = NoRow /\ a = NoRow => z = NoRow
<1>1. CASE r = NoRow /\ a = NoRow
  BY <1>1 DEF Synced
<1>2. CASE r = NoRow /\ a # NoRow
  <2>1. z = [Granted(PlainRow, a) EXCEPT !.receive = a.receive]
    BY <1>2 DEF Synced
  <2>2. Row(z) /\ z.group /\ z.grole = a.role
    <3>1. PICK p, g : p = PlainRow /\ g = Granted(p, a)
      OBVIOUS
    <3>2. PICK b : b = a.receive
      OBVIOUS
    <3>3. z = [g EXCEPT !.receive = b]
      BY <2>1, <3>1, <3>2, Zenon
    <3>4. Row(g) /\ g.group = TRUE /\ g.grole = a.role
      BY <3>1, NewRows, GrantedRows
    <3> QED  BY <3>3, <3>4, NotifiedRows
  <2> QED  BY <1>2, <2>2, RowIsThere
<1>3. CASE r # NoRow /\ a # NoRow
  <2>1. z = [Granted(r, a) EXCEPT !.receive = Receives(r, IF OnlyGroup(r, u, owner) THEN a.receive ELSE r.receive)]
    BY <1>3 DEF Synced
  <2>2. Row(z) /\ z.auto = r.auto /\ z.group /\ z.grole = a.role
    <3>1. PICK g : g = Granted(r, a)
      OBVIOUS
    <3>2. PICK b : b = Receives(r, IF OnlyGroup(r, u, owner) THEN a.receive ELSE r.receive)
      OBVIOUS
    <3>3. z = [g EXCEPT !.receive = b]
      BY <2>1, <3>1, <3>2, Zenon
    <3>4. Row(g) /\ g.auto = r.auto /\ g.group = TRUE /\ g.grole = a.role
      BY <1>3, <3>1, GrantedRows
    <3> QED  BY <3>3, <3>4, NotifiedRows
  <2> QED  BY <1>3, <2>2, RowIsThere
<1>4. CASE r # NoRow /\ a = NoRow /\ (~r.group \/ OnlyGroup(r, u, owner))
  BY <1>4 DEF Synced, OnlyGroup
<1>5. CASE r # NoRow /\ a = NoRow /\ r.group /\ ~OnlyGroup(r, u, owner)
  <2>1. z = [r EXCEPT !.group = FALSE, !.grole = 0, !.greceive = FALSE, !.receive = Receives(r, r.receive)]
    BY <1>5 DEF Synced
  <2>2. z = [role |-> r.role, receive |-> Receives(r, r.receive), override |-> r.override, auto |-> r.auto,
             group |-> FALSE, grole |-> 0, greceive |-> FALSE]
    BY <1>5, <2>1 DEF Row
  <2> QED  BY <1>5, <2>2, RowIsThere DEF Row
<1> QED  BY <1>1, <1>2, <1>3, <1>4, <1>5

\* A request that goes on keeps what it has read, if the channel is the same.
LEMMA RequestStays ==
    ASSUME NEW t \in Threads, RequestOK(t), thread'[t] = thread[t],
           \A u \in People : standing'[u] = "new" => standing[u] = "new",
           \A u \in People : standing[u] # "new" => standing'[u] # "new",
           t \notin outdated' => t \notin outdated /\ channel' = channel
    PROVE  RequestOK(t)'
  BY DEF RequestOK, Under

Keeps(t) == thread'[t] = thread[t] /\ (t \notin outdated' => t \notin outdated /\ channel' = channel)

LEMMA ThreadMoves ==
    ASSUME MembersTyped, NEW t \in Threads, NEW r, thread' = [thread EXCEPT ![t] = r]
    PROVE  /\ thread'[t] = r /\ thread' = [d \in Threads |-> thread'[d]]
           /\ \A d \in Threads \ {t} : thread'[d] = thread[d]
  BY DEF MembersTyped, Tables, RequestsHold

LEMMA Begins ==
    ASSUME MembersTyped, NEW t \in Threads, NEW r, Begin(t, r), channel' = channel
    PROVE  /\ thread[t] = NoRequest /\ thread'[t] = r /\ t \notin outdated'
           /\ thread' = [d \in Threads |-> thread'[d]] /\ outdated' \subseteq Threads
           /\ \A d \in Threads \ {t} : Keeps(d)
<1>1. thread' = [thread EXCEPT ![t] = r] /\ outdated' = outdated \ {t} /\ thread[t] = NoRequest
  BY DEF Begin
<1>2. outdated \subseteq Threads
  BY DEF MembersTyped, Tables, RequestsHold
<1> QED  BY <1>1, <1>2, ThreadMoves DEF Keeps

LEMMA Writes ==
    ASSUME ChannelWritten, outdated \subseteq Threads
    PROVE  /\ outdated' \subseteq Threads
           /\ \A d \in Threads : d \notin outdated' => d \notin outdated /\ channel' = channel
  BY DEF ChannelWritten

\* The request of a step is sound afterwards, the others keep theirs.
Moved(t) ==
    /\ RequestOK(t)' /\ \A d \in Threads \ {t} : Keeps(d)
    /\ outdated' \subseteq Threads /\ thread' = [d \in Threads |-> thread'[d]]

LEMMA RequestsBegin ==
    ASSUME MembersTyped, NEW t \in Threads, Asks(t)
    PROVE  Moved(t) /\ thread[t] = NoRequest
<1>1. ASSUME NEW c \in People, NEW u \in People, DeleteMember(t, c, u)
      PROVE  Moved(t) /\ thread[t] = NoRequest
  <2>1. PICK r : r = [op |-> "remove", user |-> u, channel |-> channel]
    OBVIOUS
  <2>2. Begin(t, r) /\ channel' = channel /\ standing' = standing
    BY <1>1, <2>1 DEF DeleteMember
  <2>3. standing[u] # "new" /\ Channel(channel) /\ channel.exists /\ channel.owner \in People /\ u # channel.owner
    BY <1>1 DEF DeleteMember, authorizeChannelManager, Removable, MembersTyped, Tables, RequestsHold, people
  <2>4. RequestOK(t)'
    BY <2>1, <2>2, <2>3, Begins DEF RequestOK, Under, Syncing
  <2> QED  BY <2>2, <2>4, Begins DEF Moved
<1>2. ASSUME NEW c \in People, NEW u \in People, NEW role \in Roles, NEW b \in Notify, UpsertMember(t, c, u, role, b)
      PROVE  Moved(t) /\ thread[t] = NoRequest
  <2>1. PICK r : r = [op |-> "upsert", user |-> u, role |-> role, receive |-> b, channel |-> channel]
    OBVIOUS
  <2>2. Begin(t, r) /\ channel' = channel /\ standing' = standing
    BY <1>2, <2>1 DEF UpsertMember
  <2>3. standing[u] = "live" /\ Channel(channel) /\ channel.exists /\ channel.owner \in People
    BY <1>2 DEF UpsertMember, authorizeChannelManager, people, MembersTyped, Tables, RequestsHold
  <2>4. RequestOK(t)'
    BY <2>1, <2>2, <2>3, Begins DEF RequestOK, Under, Syncing
  <2> QED  BY <2>2, <2>4, Begins DEF Moved
<1>3. ASSUME NEW c \in People, UpdateApplication(t, c)
      PROVE  Moved(t) /\ thread[t] = NoRequest
  <2>1. PICK r : r = [op |-> "save", channel |-> channel]
    OBVIOUS
  <2>2. Begin(t, r) /\ channel' = channel /\ standing' = standing
    BY <1>3, <2>1 DEF UpdateApplication
  <2>3. Channel(channel) /\ channel.exists /\ channel.owner \in People
    BY <1>3 DEF UpdateApplication, authorizeChannelManager, MembersTyped, Tables, RequestsHold
  <2>4. RequestOK(t)'
    BY <2>1, <2>2, <2>3, Begins DEF RequestOK, Under, Syncing
  <2> QED  BY <2>2, <2>4, Begins DEF Moved
<1>4. ASSUME NEW u \in People, DeleteUser(t, u)
      PROVE  Moved(t) /\ thread[t] = NoRequest
  <2>1. PICK r : r = [op |-> "unjoin", user |-> u, owned |-> channel.exists /\ channel.owner = u]
    OBVIOUS
  <2>2. Begin(t, r) /\ channel' = channel /\ standing' = standing
    BY <1>4, <2>1 DEF DeleteUser
  <2>3. standing[u] = "live"
    BY <1>4 DEF DeleteUser, people
  <2>4. RequestOK(t)'
    BY <2>1, <2>2, <2>3, Begins DEF RequestOK, Under, Syncing
  <2> QED  BY <2>2, <2>4, Begins DEF Moved
<1> QED  BY <1>1, <1>2, <1>3, <1>4 DEF Asks

LEMMA SyncsBegin ==
    ASSUME MembersTyped, NEW t \in Threads, Begin(t, Sync), channel' = channel
    PROVE  Moved(t) /\ thread[t] = NoRequest /\ thread'[t] = Sync
<1>1. thread'[t] = Sync
  BY Begins
<1>2. RequestOK(t)'
  BY <1>1 DEF RequestOK, Under, Syncing, Sync
<1> QED  BY <1>1, <1>2, Begins DEF Moved

\* A user who is not there yet is in no group and has no row.
Newcomers ==
    \A u \in People : standing[u] = "new" =>
        Access(u) = NoRow /\ rows[u] = NoRow /\ \A g \in Groups : u \notin inGroup[g]

LEMMA NewcomersOut == MembersTyped => Newcomers
  BY DEF MembersTyped, Tables, RequestsHold, Newcomers, Access, people

LEMMA RequestsGoOn ==
    ASSUME MembersTyped, NEW t \in Threads, Proceeds(t)
    PROVE  Moved(t)
<1>0. RequestOK(t) /\ outdated \subseteq Threads
  BY DEF MembersTyped, Tables, RequestsHold
<1>1. CASE ReadDesired(t)
  <2>1. PICK r : r = [op |-> "synced", then |-> thread[t].then, channel |-> channel, desired |-> Desired]
    OBVIOUS
  <2>2. thread' = [thread EXCEPT ![t] = r] /\ outdated' = outdated \ {t} /\ channel' = channel /\ standing' = standing
    BY <1>1, <2>1 DEF ReadDesired
  <2>3. Channel(channel) /\ channel.exists /\ channel.owner \in People
    BY <1>1 DEF ReadDesired, MembersTyped, Tables, RequestsHold
  <2>4. \A u \in People : standing[u] = "new" => r.desired[u] = NoRow
    BY <2>1, NewcomersOut DEF Newcomers, Desired
  <2>5. r.then = NoOne \/ (r.then \in People /\ standing[r.then] # "new")
    BY <1>0, <1>1, <2>1 DEF RequestOK, Under, Syncing, ReadDesired
  <2>6. thread'[t] = r /\ RequestOK(t)'
    BY <2>1, <2>2, <2>3, <2>4, <2>5, ThreadMoves DEF RequestOK, Under, Syncing
  <2> QED  BY <1>0, <2>2, <2>6, ThreadMoves DEF Moved, Keeps
<1>2. CASE ReadMemberships(t)
  <2>1. PICK r : r = [op |-> "apply", then |-> thread[t].then, channel |-> thread[t].channel,
                      desired |-> thread[t].desired, rows |-> rows]
    OBVIOUS
  <2>2. thread' = [thread EXCEPT ![t] = r] /\ outdated' = outdated /\ channel' = channel /\ standing' = standing
    BY <1>2, <2>1 DEF ReadMemberships
  <2>3. RowsTyped(rows)
    BY DEF MembersTyped, Tables, RequestsHold
  <2>4. \A u \in People : standing[u] = "new" => r.rows[u] = NoRow
    BY <2>1, NewcomersOut DEF Newcomers
  <2>5. /\ Channel(r.channel) /\ r.channel.exists /\ r.channel.owner \in People
        /\ t \notin outdated => r.channel = channel
        /\ r.then = NoOne \/ (r.then \in People /\ standing[r.then] # "new")
        /\ \A u \in People : standing[u] = "new" => r.desired[u] = NoRow
    BY <1>0, <1>2, <2>1 DEF RequestOK, Under, Syncing, ReadMemberships
  <2>6. r.op = "apply" /\ r.rows = rows
    BY <2>1
  <2>7. thread'[t] = r
    BY <2>2, ThreadMoves
  <2>8. RequestOK(t)'
    BY <2>2, <2>3, <2>4, <2>5, <2>6, <2>7 DEF RequestOK, Under, Syncing, RowsTyped
  <2> QED  BY <1>0, <2>2, <2>7, <2>8, ThreadMoves DEF Moved, Keeps
<1>3. CASE SyncApplicationGroupAssignments(t) \/ NothingToSync(t)
  <2>1. PICK r : r = Following(t)
    OBVIOUS
  <2>2. thread' = [thread EXCEPT ![t] = r] /\ outdated' = outdated /\ channel' = channel /\ standing' = standing
    BY <1>3, <2>1 DEF SyncApplicationGroupAssignments, NothingToSync
  <2>3. thread[t].then = NoOne \/ (thread[t].then \in People /\ standing[thread[t].then] # "new")
    BY <1>0, <1>3 DEF RequestOK, Under, Syncing, SyncApplicationGroupAssignments, NothingToSync
  <2>4. r.op = "none" \/ (r.op = "forget" /\ r.user = thread[t].then /\ r.user \in People /\ standing[r.user] # "new")
    BY <2>1, <2>3 DEF Following, NoRequest
  <2>5. thread'[t] = r
    BY <2>2, ThreadMoves
  <2>6. RequestOK(t)'
    BY <2>2, <2>4, <2>5 DEF RequestOK, Under, Syncing
  <2> QED  BY <1>0, <2>2, <2>5, <2>6, ThreadMoves DEF Moved, Keeps
<1>4. CASE DeleteOwnedAndMemberships(t)
  <2>1. PICK r : r = [op |-> "ungroup", user |-> thread[t].user]
    OBVIOUS
  <2>2. thread' = [thread EXCEPT ![t] = r] /\ ChannelWritten /\ standing' = standing
    BY <1>4, <2>1 DEF DeleteOwnedAndMemberships
  <2>3. r.op = "ungroup" /\ r.user \in People /\ standing[r.user] # "new"
    BY <1>0, <1>4, <2>1 DEF RequestOK, Under, DeleteOwnedAndMemberships
  <2>4. thread'[t] = r
    BY <2>2, ThreadMoves
  <2>5. RequestOK(t)'
    BY <2>2, <2>3, <2>4 DEF RequestOK, Under, Syncing
  <2> QED  BY <1>0, <2>2, <2>4, <2>5, ThreadMoves, Writes DEF Moved, Keeps
<1>5. CASE DeleteUserGroupMembershipsForUser(t)
  <2>1. thread[t].user \in People /\ standing[thread[t].user] # "new"
    BY <1>0, <1>5 DEF RequestOK, Under, DeleteUserGroupMembershipsForUser
  <2>2. PICK r : r = IF GroupsOf(thread[t].user) # {} THEN [Sync EXCEPT !.then = thread[t].user]
                     ELSE [op |-> "forget", user |-> thread[t].user]
    OBVIOUS
  <2>3. thread' = [thread EXCEPT ![t] = r]
    BY <1>5, <2>2 DEF DeleteUserGroupMembershipsForUser
  <2>4. outdated' = outdated /\ channel' = channel /\ standing' = standing
    BY <1>5 DEF DeleteUserGroupMembershipsForUser
  <2>5. (r.op = "sync" /\ r.then = thread[t].user) \/ (r.op = "forget" /\ r.user = thread[t].user)
    BY <2>2 DEF Sync
  <2>6. thread'[t] = r
    BY <2>3, ThreadMoves
  <2>7. RequestOK(t)'
    BY <2>1, <2>4, <2>5, <2>6 DEF RequestOK, Under, Syncing
  <2> QED  BY <1>0, <2>3, <2>4, <2>6, <2>7, ThreadMoves DEF Moved, Keeps
<1> QED  BY <1>1, <1>2, <1>3, <1>4, <1>5 DEF Proceeds

LEMMA RequestsEnd ==
    ASSUME MembersTyped, NEW t \in Threads, EndsWork(t)
    PROVE  Moved(t) /\ thread'[t] = NoRequest
<1>0. outdated \subseteq Threads
  BY DEF MembersTyped, Tables, RequestsHold
<1>1. thread' = [thread EXCEPT ![t] = NoRequest]
  BY DEF EndsWork, UpsertApplicationMembership, DeleteApplicationMembership, SaveApplication, SyncFails, ForgetUser, Finish
<1>2. thread'[t] = NoRequest /\ RequestOK(t)'
  BY <1>1, ThreadMoves DEF RequestOK, Under, Syncing, NoRequest
<1>3. SaveApplication(t) => ChannelWritten
  BY DEF SaveApplication
<1>4. ~SaveApplication(t) => channel' = channel /\ outdated' = outdated
  BY DEF EndsWork, UpsertApplicationMembership, DeleteApplicationMembership, SyncFails, ForgetUser
<1> QED  BY <1>0, <1>1, <1>2, <1>3, <1>4, ThreadMoves, Writes DEF Moved, Keeps

LEMMA RequestsKept ==
    ASSUME RequestsHold, UNCHANGED thread, outdated' = outdated \/ outdated' = Threads,
           outdated' = outdated => channel' = channel,
           \A u \in People : (standing'[u] = "new" => standing[u] = "new") /\ (standing[u] # "new" => standing'[u] # "new")
    PROVE  RequestsHold'
<1>1. ASSUME NEW t \in Threads PROVE RequestOK(t)'
  BY <1>1, RequestStays DEF RequestsHold
<1> QED  BY <1>1 DEF RequestsHold

LEMMA RequestsMoved ==
    ASSUME RequestsHold, NEW t \in Threads, Moved(t),
           \A u \in People : (standing'[u] = "new" => standing[u] = "new") /\ (standing[u] # "new" => standing'[u] # "new")
    PROVE  RequestsHold'
<1>1. ASSUME NEW d \in Threads, d # t PROVE RequestOK(d)'
  BY <1>1, RequestStays DEF RequestsHold, Moved, Keeps
<1> QED  BY <1>1 DEF RequestsHold, Moved

LEMMA StandingKept ==
    ASSUME MembersTyped, MembershipNext
    PROVE  /\ standing' = [u \in People |-> standing'[u]]
           /\ \A u \in People : (standing'[u] = "new" => standing[u] = "new") /\ (standing[u] # "new" => standing'[u] # "new")
<1>1. ASSUME NEW u \in People, CreateUser(u)
      PROVE  standing' = [standing EXCEPT ![u] = "live"] /\ standing[u] = "new"
  BY <1>1 DEF CreateUser
<1>2. ASSUME NEW t \in Threads, ForgetUser(t)
      PROVE  standing' = [standing EXCEPT ![thread[t].user] = "gone"] /\ thread[t].user \in People
  BY <1>2 DEF ForgetUser, MembersTyped, RequestsHold, RequestOK, Under
<1>3. CASE standing' = standing
  BY <1>3 DEF MembersTyped, Tables
<1>4. \/ standing' = standing
      \/ \E u \in People : CreateUser(u)
      \/ \E t \in Threads : ForgetUser(t)
  <2>1. CASE AtOnce
    BY <2>1 DEF AtOnce, CreateApplication, SetAutoAssign, SetMemberPosting, SetCurrentUserNotifications,
                TransferOwnership, DeleteApplication, Restart
  <2>2. ASSUME NEW t \in Threads, Asks(t) \/ Assigns(t) PROVE standing' = standing
    BY <2>2 DEF Asks, DeleteMember, UpsertMember, UpdateApplication, DeleteUser, Assigns, DeleteGroupAssignment,
                UpsertGroupAssignment, AddUserGroupMember, RemoveUserGroupMember, DeleteUserGroup
  <2>3. ASSUME NEW t \in Threads, Proceeds(t) PROVE standing' = standing
    BY <2>3 DEF Proceeds, ReadDesired, ReadMemberships, NothingToSync, DeleteOwnedAndMemberships, DeleteUserGroupMembershipsForUser,
                SyncApplicationGroupAssignments
  <2>4. ASSUME NEW t \in Threads, EndsWork(t) PROVE standing' = standing \/ ForgetUser(t)
    BY <2>4 DEF EndsWork, UpsertApplicationMembership, DeleteApplicationMembership, SaveApplication, SyncFails
  <2> QED  BY <2>1, <2>2, <2>3, <2>4, Steps
<1>5. ASSUME NEW u \in People, NEW x, x # "new", standing' = [standing EXCEPT ![u] = x]
      PROVE  /\ standing' = [d \in People |-> standing'[d]]
             /\ \A d \in People : (standing'[d] = "new" => standing[d] = "new") /\ (standing[d] # "new" => standing'[d] # "new")
  BY <1>5 DEF MembersTyped, Tables
<1> QED  BY <1>1, <1>2, <1>3, <1>4, <1>5

-----------------------------------------------------------------------------
LEMMA RowPut ==
    ASSUME RowsTyped(rows), NEW u \in People, NEW z, z = NoRow \/ Row(z), rows' = [rows EXCEPT ![u] = z]
    PROVE  RowsTyped(rows)' /\ rows'[u] = z /\ \A d \in People \ {u} : rows'[d] = rows[d]
  BY DEF RowsTyped

\* Rows of one table from another, one by one.
LEMMA RowsMade ==
    ASSUME rows' = [u \in People |-> rows'[u]], \A u \in People : rows'[u] = NoRow \/ Row(rows'[u])
    PROVE  RowsTyped(rows)'
  BY DEF RowsTyped

LEMMA AssignedRows ==
    ASSUME RowsTyped(rows), NEW owner, NEW table, table = AssignAll(owner)
    PROVE  /\ table = [u \in People |-> table[u]]
           /\ \A u \in People : \/ table[u] = rows[u]
                                \/ rows[u] = NoRow /\ u \in people \ {owner} /\ table[u] = AutoRow
  BY DEF AssignAll

LEMMA ChannelsMade ==
    /\ \A a, b, u : Channel([exists |-> TRUE, owner |-> u, auto |-> a, posting |-> b])
    /\ \A c, x : Channel(c) => /\ Channel([c EXCEPT !.exists = x]) /\ Channel([c EXCEPT !.auto = x])
                               /\ Channel([c EXCEPT !.posting = x]) /\ Channel([c EXCEPT !.owner = x])
                               /\ [c EXCEPT !.exists = x].exists = x /\ [c EXCEPT !.exists = x].owner = c.owner
                               /\ [c EXCEPT !.auto = x].exists = c.exists /\ [c EXCEPT !.auto = x].owner = c.owner
                               /\ [c EXCEPT !.posting = x].exists = c.exists /\ [c EXCEPT !.posting = x].owner = c.owner
                               /\ [c EXCEPT !.owner = x].exists = c.exists /\ [c EXCEPT !.owner = x].owner = x
  BY DEF Channel

LEMMA AtOnceTables ==
    ASSUME MembersTyped, AtOnce, MembershipNext
    PROVE  Tables'
<1>0. /\ Channel(channel) /\ channel.exists \in BOOLEAN /\ (channel.exists => channel.owner \in People)
      /\ RowsTyped(rows) /\ inGroup = [g \in Groups |-> inGroup[g]] /\ given = [g \in Groups |-> given[g]]
      /\ overtaken \in BOOLEAN /\ unsynced \in BOOLEAN
      /\ \A u \in People : standing[u] = "new" => rows[u] = NoRow /\ \A g \in Groups : u \notin inGroup[g]
  BY DEF MembersTyped, Tables
<1>s. /\ standing' = [u \in People |-> standing'[u]]
      /\ \A u \in People : standing'[u] = "new" => standing[u] = "new"
  BY StandingKept
<1>t. UNCHANGED <<overtaken, unsynced, inGroup>>
  BY DEF AtOnce, CreateApplication, SetAutoAssign, SetMemberPosting, SetCurrentUserNotifications, TransferOwnership,
         DeleteApplication, Restart, CreateUser
<1>1. ASSUME NEW u \in People, NEW a \in BOOLEAN, NEW b \in BOOLEAN, CreateApplication(u, a, b)
      PROVE  Tables'
  <2>1. channel' = [exists |-> TRUE, owner |-> u, auto |-> a, posting |-> b] /\ given' = given /\ u \in people
    BY <1>1 DEF CreateApplication
  <2>2. Channel(channel)' /\ channel'.exists = TRUE /\ channel'.owner = u
    BY <2>1, ChannelsMade
  <2>3. PICK table : table = IF a THEN AssignAll(u) ELSE rows
    OBVIOUS
  <2>4. rows' = [table EXCEPT ![u] = PlainRow]
    BY <1>1, <2>3 DEF CreateApplication
  <2>5. /\ table = [d \in People |-> table[d]]
        /\ \A d \in People : table[d] = rows[d] \/ (rows[d] = NoRow /\ d \in people /\ table[d] = AutoRow)
    BY <1>0, <2>3, AssignedRows DEF RowsTyped
  <2>6. /\ rows' = [d \in People |-> rows'[d]] /\ rows'[u] = PlainRow
        /\ \A d \in People \ {u} : rows'[d] = table[d]
    BY <2>4, <2>5
  <2>7. RowsTyped(rows)'
    BY <1>0, <2>5, <2>6, RowsMade, NewRows DEF RowsTyped
  <2>8. \A d \in People : standing'[d] = "new" => rows'[d] = NoRow
    BY <1>0, <1>s, <2>1, <2>5, <2>6 DEF people
  <2> QED  BY <1>0, <1>s, <1>t, <2>1, <2>2, <2>7, <2>8 DEF Tables
<1>2. ASSUME NEW b \in BOOLEAN, SetAutoAssign(b)
      PROVE  Tables'
  <2>1. channel' = [channel EXCEPT !.auto = b] /\ given' = given
    BY <1>2 DEF SetAutoAssign
  <2>2. Channel(channel)' /\ channel'.exists = channel.exists /\ channel'.owner = channel.owner
    BY <1>0, <2>1, ChannelsMade
  <2>3. /\ rows' = [d \in People |-> rows'[d]]
        /\ \A d \in People : rows'[d] = rows[d] \/ rows'[d] = NoRow \/ (d \in people /\ rows'[d] = AutoRow)
    <3>1. CASE b
      <4>1. rows' = AssignAll(channel.owner)
        BY <1>2, <3>1 DEF SetAutoAssign
      <4> QED  BY <1>0, <4>1, AssignedRows
    <3>2. CASE ~b
      BY <1>2, <3>2 DEF SetAutoAssign
    <3> QED  BY <3>1, <3>2
  <2>4. RowsTyped(rows)'
    BY <1>0, <2>3, RowsMade, NewRows DEF RowsTyped
  <2>5. \A d \in People : standing'[d] = "new" => rows'[d] = NoRow
    BY <1>0, <1>s, <2>3 DEF people
  <2> QED  BY <1>0, <1>s, <1>t, <2>1, <2>2, <2>4, <2>5 DEF Tables
<1>3. ASSUME NEW b \in BOOLEAN, SetMemberPosting(b)
      PROVE  Tables'
  <2>1. channel' = [channel EXCEPT !.posting = b] /\ UNCHANGED <<given, rows>>
    BY <1>3 DEF SetMemberPosting
  <2>2. Channel(channel)' /\ channel'.exists = channel.exists /\ channel'.owner = channel.owner
    BY <1>0, <2>1, ChannelsMade
  <2> QED  BY <1>0, <1>s, <1>t, <2>1, <2>2 DEF Tables, RowsTyped
<1>4. ASSUME NEW u \in People, CreateUser(u)
      PROVE  Tables'
  <2>1. UNCHANGED <<channel, given>> /\ standing[u] = "new" /\ standing'[u] = "live"
    BY <1>4 DEF CreateUser, MembersTyped, Tables
  <2>2. rows' = rows \/ rows' = [rows EXCEPT ![u] = AutoRow]
    BY <1>4 DEF CreateUser
  <2>3. RowsTyped(rows)' /\ \A d \in People \ {u} : rows'[d] = rows[d]
    BY <1>0, <2>2, RowPut, NewRows DEF RowsTyped
  <2>4. \A d \in People : standing'[d] = "new" => rows'[d] = NoRow
    BY <1>0, <1>s, <2>1, <2>3
  <2> QED  BY <1>0, <1>s, <1>t, <2>1, <2>3, <2>4 DEF Tables
<1>5. ASSUME NEW u \in People, DeleteApplication(u)
      PROVE  Tables'
  <2>1. /\ channel' = [channel EXCEPT !.exists = FALSE]
        /\ rows' = [p \in People |-> NoRow] /\ given' = [g \in Groups |-> NoRow]
    BY <1>5 DEF DeleteApplication
  <2>2. Channel(channel)' /\ channel'.exists = FALSE
    BY <1>0, <2>1, ChannelsMade
  <2>3. RowsTyped(rows)' /\ \A d \in People : rows'[d] = NoRow
    BY <2>1 DEF RowsTyped
  <2>4. given' = [g \in Groups |-> given'[g]]
    BY <2>1
  <2> QED  BY <1>0, <1>s, <1>t, <2>2, <2>3, <2>4 DEF Tables
<1>6. ASSUME NEW u \in People, NEW b \in BOOLEAN, SetCurrentUserNotifications(u, b)
      PROVE  Tables'
  <2>1. PICK z : z = [rows[u] EXCEPT !.receive = b, !.override = IF b THEN "on" ELSE "off"]
    OBVIOUS
  <2>2. rows' = [rows EXCEPT ![u] = z] /\ rows[u] # NoRow /\ UNCHANGED <<channel, given>>
    BY <1>6, <2>1 DEF SetCurrentUserNotifications
  <2>3. Row(z)
    BY <1>0, <2>1, <2>2 DEF RowsTyped, Row
  <2>4. RowsTyped(rows)' /\ \A d \in People \ {u} : rows'[d] = rows[d]
    BY <1>0, <2>2, <2>3, RowPut
  <2>5. \A d \in People : standing'[d] = "new" => rows'[d] = NoRow
    BY <1>0, <1>s, <2>2, <2>4
  <2> QED  BY <1>0, <1>s, <1>t, <2>2, <2>4, <2>5 DEF Tables
<1>7. ASSUME NEW c \in People, NEW u \in People, TransferOwnership(c, u)
      PROVE  Tables'
  <2>1. PICK z : z = OwnersRow(u)
    OBVIOUS
  <2>2. /\ rows' = [rows EXCEPT ![u] = z] /\ channel' = [channel EXCEPT !.owner = u]
        /\ given' = given /\ standing[u] = "live"
    BY <1>7, <2>1 DEF TransferOwnership, people
  <2>3. Row(z)
    BY <1>0, <2>1, HandedRows, NewRows DEF RowsTyped, OwnersRow
  <2>4. RowsTyped(rows)' /\ \A d \in People \ {u} : rows'[d] = rows[d]
    BY <1>0, <2>2, <2>3, RowPut
  <2>5. \A d \in People : standing'[d] = "new" => rows'[d] = NoRow
    BY <1>0, <1>s, <2>2, <2>4
  <2>6. Channel(channel)' /\ channel'.exists = channel.exists /\ channel'.owner = u
    <3>1. channel' = [channel EXCEPT !.owner = u] /\ Channel(channel)
      BY <1>0, <2>2
    <3> QED  BY <3>1 DEF Channel
  <2> QED  BY <1>0, <1>s, <1>t, <2>2, <2>4, <2>5, <2>6 DEF Tables
<1>8. CASE Restart
  <2>1. PICK owned : owned = IF channel.exists /\ channel.owner \in people /\ rows[channel.owner] = NoRow
                             THEN [rows EXCEPT ![channel.owner] = PlainRow] ELSE rows
    OBVIOUS
  <2>2. PICK all : all = [u \in People |-> IF channel.exists /\ channel.auto /\ u \in people \ {channel.owner}
                                              /\ owned[u] = NoRow THEN AutoRow ELSE owned[u]]
    OBVIOUS
  <2>3. rows' = [u \in People |-> IF all[u] # NoRow /\ all[u].role = 0 /\ ~all[u].auto /\ ~all[u].group
                                  THEN [all[u] EXCEPT !.role = member] ELSE all[u]]
    BY <1>8, <2>1, <2>2 DEF Restart
  <2>4. UNCHANGED <<channel, given>>
    BY <1>8 DEF Restart
  <2>5. \A u \in People : owned[u] = rows[u] \/ (u \in people /\ owned[u] = PlainRow)
    BY <1>0, <2>1 DEF RowsTyped
  <2>6. \A u \in People : all[u] = rows[u] \/ (u \in people /\ all[u] = PlainRow) \/ (u \in people /\ all[u] = AutoRow)
    BY <2>2, <2>5
  <2>7. ASSUME NEW u \in People PROVE rows'[u] = NoRow \/ Row(rows'[u])
    <3>1. all[u] = NoRow \/ Row(all[u])
      BY <1>0, <2>6, NewRows DEF RowsTyped
    <3>2. rows'[u] = all[u] \/ (all[u] # NoRow /\ rows'[u] = [all[u] EXCEPT !.role = member])
      BY <2>3
    <3> QED  BY <3>1, <3>2, RoleRows
  <2>8. RowsTyped(rows)'
    BY <2>3, <2>7, RowsMade
  <2>9. ASSUME NEW u \in People, standing'[u] = "new" PROVE rows'[u] = NoRow
    <3>1. all[u] = NoRow
      BY <1>0, <1>s, <2>6, <2>9 DEF people
    <3> QED  BY <2>3, <3>1
  <2> QED  BY <1>0, <1>s, <1>t, <2>4, <2>8, <2>9 DEF Tables
<1> QED  BY <1>1, <1>2, <1>3, <1>4, <1>5, <1>6, <1>7, <1>8 DEF AtOnce

LEMMA RequestTables ==
    ASSUME MembersTyped, NEW t \in Threads, Asks(t) \/ Assigns(t) \/ Proceeds(t) \/ EndsWork(t), MembershipNext
    PROVE  Tables'
<1>0. /\ Channel(channel) /\ channel.exists \in BOOLEAN /\ (channel.exists => channel.owner \in People)
      /\ RowsTyped(rows) /\ inGroup = [g \in Groups |-> inGroup[g]] /\ given = [g \in Groups |-> given[g]]
      /\ overtaken \in BOOLEAN /\ unsynced \in BOOLEAN /\ RequestOK(t)
      /\ \A u \in People : standing[u] = "new" => rows[u] = NoRow /\ \A g \in Groups : u \notin inGroup[g]
  BY DEF MembersTyped, Tables, RequestsHold
<1>s. /\ standing' = [u \in People |-> standing'[u]]
      /\ \A u \in People : standing'[u] = "new" => standing[u] = "new"
  BY StandingKept
<1>1. CASE Asks(t)
  <2>1. UNCHANGED <<channel, rows, given, inGroup, overtaken, unsynced>>
    BY <1>1 DEF Asks, DeleteMember, UpsertMember, UpdateApplication, DeleteUser
  <2> QED  BY <1>0, <1>s, <2>1 DEF Tables, RowsTyped
<1>2. CASE Assigns(t)
  <2>1. UNCHANGED <<channel, rows, overtaken, unsynced>>
    BY <1>2 DEF Assigns, DeleteGroupAssignment, UpsertGroupAssignment, AddUserGroupMember, RemoveUserGroupMember,
                DeleteUserGroup
  <2>2. given' = [g \in Groups |-> given'[g]]
    BY <1>0, <1>2 DEF Assigns, DeleteGroupAssignment, UpsertGroupAssignment, AddUserGroupMember,
                      RemoveUserGroupMember, DeleteUserGroup
  <2>3. /\ inGroup' = [g \in Groups |-> inGroup'[g]]
        /\ \A g \in Groups, u \in People : u \in inGroup'[g] => u \in inGroup[g] \/ standing[u] = "live"
    BY <1>0, <1>2 DEF Assigns, DeleteGroupAssignment, UpsertGroupAssignment, AddUserGroupMember,
                      RemoveUserGroupMember, DeleteUserGroup, people
  <2> QED  BY <1>0, <1>s, <2>1, <2>2, <2>3 DEF Tables, RowsTyped
<1>3. CASE ReadDesired(t) \/ ReadMemberships(t) \/ NothingToSync(t)
  <2>1. UNCHANGED <<channel, rows, given, inGroup, overtaken, unsynced>>
    BY <1>3 DEF ReadDesired, ReadMemberships, NothingToSync
  <2> QED  BY <1>0, <1>s, <2>1 DEF Tables, RowsTyped
<1>4. CASE SyncApplicationGroupAssignments(t)
  <2>1. UNCHANGED <<channel, given, inGroup>> /\ overtaken' \in BOOLEAN /\ unsynced' \in BOOLEAN
    BY <1>0, <1>4 DEF SyncApplicationGroupAssignments
  <2>2. rows' = [u \in People |-> IF Touched(t, u)
                   THEN Synced(thread[t].rows[u], thread[t].desired[u], u, thread[t].channel.owner) ELSE rows[u]]
    BY <1>4 DEF SyncApplicationGroupAssignments
  <2>3. /\ RowsTyped(thread[t].rows) /\ \A u \in People : standing[u] = "new" => thread[t].rows[u] = NoRow
        /\ \A u \in People : standing[u] = "new" => thread[t].desired[u] = NoRow
    BY <1>0, <1>4 DEF SyncApplicationGroupAssignments, RequestOK, Under
  <2>4. ASSUME NEW u \in People PROVE rows'[u] = NoRow \/ Row(rows'[u])
    <3>1. CASE Touched(t, u)
      <4>1. PICK r, a, o : r = thread[t].rows[u] /\ a = thread[t].desired[u] /\ o = thread[t].channel.owner
        OBVIOUS
      <4>2. rows'[u] = Synced(r, a, u, o)
        BY <2>2, <3>1, <4>1
      <4>3. r = NoRow \/ Row(r)
        BY <2>3, <4>1 DEF RowsTyped
      <4>4. PICK z : z = rows'[u]
        OBVIOUS
      <4> QED  BY <4>2, <4>3, <4>4, SyncedRows
    <3>2. CASE ~Touched(t, u)
      BY <1>0, <2>2, <3>2 DEF RowsTyped
    <3> QED  BY <3>1, <3>2
  <2>5. ASSUME NEW u \in People, standing'[u] = "new" PROVE rows'[u] = NoRow
    <3>1. thread[t].rows[u] = NoRow /\ thread[t].desired[u] = NoRow /\ rows[u] = NoRow
      BY <1>0, <1>s, <2>3, <2>5
    <3> QED  BY <2>2, <3>1 DEF Touched
  <2>6. RowsTyped(rows)'
    BY <2>2, <2>4, RowsMade
  <2> QED  BY <1>0, <1>s, <2>1, <2>5, <2>6 DEF Tables
<1>5. CASE DeleteOwnedAndMemberships(t)
  <2>1. thread[t].user \in People /\ standing[thread[t].user] # "new"
    BY <1>0, <1>5 DEF DeleteOwnedAndMemberships, RequestOK, Under
  <2>2. /\ channel' = IF thread[t].owned THEN [channel EXCEPT !.exists = FALSE] ELSE channel
        /\ rows' = IF thread[t].owned THEN [p \in People |-> NoRow] ELSE [rows EXCEPT ![thread[t].user] = NoRow]
        /\ given' = IF thread[t].owned THEN [g \in Groups |-> NoRow] ELSE given
        /\ UNCHANGED <<inGroup, unsynced>>
        /\ overtaken' \in BOOLEAN
    BY <1>0, <1>5 DEF DeleteOwnedAndMemberships
  <2>3. Channel(channel)' /\ channel'.exists \in BOOLEAN /\ (channel'.exists => channel'.owner \in People)
    <3>1. CASE thread[t].owned
      <4>1. channel' = [channel EXCEPT !.exists = FALSE]
        BY <2>2, <3>1
      <4> QED  BY <1>0, <4>1 DEF Channel
    <3>2. CASE ~thread[t].owned
      BY <1>0, <2>2, <3>2
    <3> QED  BY <3>1, <3>2
  <2>4. RowsTyped(rows)' /\ \A u \in People : rows'[u] = NoRow \/ rows'[u] = rows[u]
    <3>1. CASE thread[t].owned
      BY <2>2, <3>1 DEF RowsTyped
    <3>2. CASE ~thread[t].owned
      <4>1. rows' = [rows EXCEPT ![thread[t].user] = NoRow]
        BY <2>2, <3>2
      <4> QED  BY <1>0, <2>1, <4>1, RowPut
    <3> QED  BY <3>1, <3>2
  <2>5. given' = [g \in Groups |-> given'[g]]
    BY <1>0, <2>2
  <2> QED  BY <1>0, <1>s, <2>2, <2>3, <2>4, <2>5 DEF Tables
<1>6. CASE DeleteUserGroupMembershipsForUser(t)
  <2>1. UNCHANGED <<channel, rows, given, overtaken, unsynced>>
    BY <1>6 DEF DeleteUserGroupMembershipsForUser
  <2>2. inGroup' = [g \in Groups |-> inGroup[g] \ {thread[t].user}]
    BY <1>6 DEF DeleteUserGroupMembershipsForUser
  <2> QED  BY <1>0, <1>s, <2>1, <2>2 DEF Tables, RowsTyped
<1>7. CASE UpsertApplicationMembership(t)
  <2>1. thread[t].user \in People /\ standing[thread[t].user] # "new"
    BY <1>0, <1>7 DEF UpsertApplicationMembership, RequestOK, Under
  <2>2. PICK r : r = IF rows[thread[t].user] = NoRow THEN PlainRow ELSE rows[thread[t].user]
    OBVIOUS
  <2>3. PICK z : z = [r EXCEPT !.role = thread[t].role, !.receive = thread[t].receive, !.auto = FALSE]
    OBVIOUS
  <2>4. rows' = [rows EXCEPT ![thread[t].user] = z] /\ overtaken' = (overtaken \/ t \in outdated)
        /\ UNCHANGED <<channel, given, inGroup, unsynced>>
    BY <1>7, <2>2, <2>3 DEF UpsertApplicationMembership
  <2>5. Row(r)
    BY <1>0, <2>1, <2>2, NewRows DEF RowsTyped
  <2>6. Row(z)
    BY <2>3, <2>5 DEF Row
  <2>7. RowsTyped(rows)' /\ \A d \in People \ {thread[t].user} : rows'[d] = rows[d]
    BY <1>0, <2>1, <2>4, <2>6, RowPut
  <2>8. overtaken' \in BOOLEAN
    BY <1>0, <2>4
  <2>9. \A d \in People : standing'[d] = "new" => rows'[d] = NoRow
    BY <1>0, <1>s, <2>1, <2>7
  <2> QED  BY <1>0, <1>s, <2>4, <2>7, <2>8, <2>9 DEF Tables
<1>8. CASE DeleteApplicationMembership(t)
  <2>1. thread[t].user \in People
    BY <1>0, <1>8 DEF DeleteApplicationMembership, RequestOK, Under
  <2>2. rows' = [rows EXCEPT ![thread[t].user] = NoRow] /\ overtaken' = (overtaken \/ t \in outdated)
        /\ UNCHANGED <<channel, given, inGroup, unsynced>>
    BY <1>8 DEF DeleteApplicationMembership
  <2>3. RowsTyped(rows)' /\ \A d \in People : rows'[d] = rows[d] \/ rows'[d] = NoRow
    BY <1>0, <2>1, <2>2, RowPut
  <2>4. overtaken' \in BOOLEAN
    BY <1>0, <2>2
  <2> QED  BY <1>0, <1>s, <2>2, <2>3, <2>4 DEF Tables
<1>9. CASE SaveApplication(t)
  <2>1. Channel(thread[t].channel) /\ thread[t].channel.exists /\ thread[t].channel.owner \in People
    BY <1>0, <1>9 DEF SaveApplication, RequestOK, Under
  <2>2. channel' = thread[t].channel /\ overtaken' = (overtaken \/ t \in outdated)
        /\ UNCHANGED <<rows, given, inGroup, unsynced>>
    BY <1>9 DEF SaveApplication
  <2>3. overtaken' \in BOOLEAN
    BY <1>0, <2>2
  <2>4. channel'.exists \in BOOLEAN
    BY <2>1, <2>2
  <2> QED  BY <1>0, <1>s, <2>1, <2>2, <2>3, <2>4 DEF Tables, RowsTyped
<1>10. CASE SyncFails(t)
  <2>1. UNCHANGED <<channel, rows, given, inGroup, overtaken>>
    BY <1>10 DEF SyncFails
  <2>2. unsynced' \in BOOLEAN
    BY <1>0, <1>10 DEF SyncFails
  <2> QED  BY <1>0, <1>s, <2>1, <2>2 DEF Tables, RowsTyped
<1>11. CASE ForgetUser(t)
  <2>1. UNCHANGED <<channel, rows, given, inGroup, unsynced>> /\ overtaken' \in BOOLEAN
    BY <1>0, <1>11 DEF ForgetUser
  <2> QED  BY <1>0, <1>s, <2>1 DEF Tables, RowsTyped
<1> QED  BY <1>1, <1>2, <1>3, <1>4, <1>5, <1>6, <1>7, <1>8, <1>9, <1>10, <1>11 DEF Proceeds, EndsWork

LEMMA NextMembersTyped == MembersTyped /\ [MembershipNext]_membershipVars => MembersTyped'
<1> SUFFICES ASSUME MembersTyped, [MembershipNext]_membershipVars PROVE MembersTyped'
  OBVIOUS
<1>1. CASE UNCHANGED membershipVars
  BY <1>1 DEF membershipVars, MembersTyped, Tables, RequestsHold, RowsTyped, RequestOK, Under
<1>2. CASE MembershipNext /\ AtOnce
  <2>1. Tables'
    BY <1>2, AtOnceTables
  <2>2. ChannelWritten \/ (outdated' = outdated /\ channel' = channel)
    BY <1>2 DEF AtOnce, CreateApplication, SetAutoAssign, SetMemberPosting, SetCurrentUserNotifications,
                TransferOwnership, DeleteApplication, Restart, CreateUser
  <2>3. thread' = thread
    BY <1>2 DEF AtOnce, CreateApplication, SetAutoAssign, SetMemberPosting, SetCurrentUserNotifications,
                TransferOwnership, DeleteApplication, Restart, CreateUser
  <2>4. ASSUME NEW t \in Threads PROVE RequestOK(t)' 
    BY <1>2, <2>2, <2>3, <2>4, StandingKept, RequestStays, Writes DEF MembersTyped, RequestsHold
  <2>5. outdated' \subseteq Threads
    BY <2>2, Writes DEF MembersTyped, RequestsHold
  <2> QED  BY <2>1, <2>3, <2>4, <2>5 DEF MembersTyped, RequestsHold
<1>3. ASSUME NEW t \in Threads, MembershipNext, Asks(t) \/ Assigns(t) \/ Proceeds(t) \/ EndsWork(t)
      PROVE  MembersTyped'
  <2>1. Tables'
    BY <1>3, RequestTables
  <2>2. CASE Moved(t)
    BY <1>3, <2>1, <2>2, RequestsMoved, StandingKept DEF MembersTyped
  <2>3. CASE Assigns(t)
    <3>1. channel' = channel
      BY <2>3 DEF Assigns, DeleteGroupAssignment, UpsertGroupAssignment, AddUserGroupMember, RemoveUserGroupMember,
                  DeleteUserGroup
    <3>2. Begin(t, Sync) \/ UNCHANGED <<thread, outdated>>
      BY <2>3 DEF Assigns, DeleteGroupAssignment, UpsertGroupAssignment, AddUserGroupMember, RemoveUserGroupMember,
                  DeleteUserGroup, SyncGroup
    <3>3. CASE Begin(t, Sync)
      BY <2>2, <3>1, <3>3, SyncsBegin
    <3>4. CASE UNCHANGED <<thread, outdated>>
      BY <1>3, <2>1, <3>1, <3>4, RequestsKept, StandingKept DEF MembersTyped
    <3> QED  BY <3>2, <3>3, <3>4
  <2> QED  BY <1>3, <2>2, <2>3, RequestsBegin, RequestsGoOn, RequestsEnd
<1> QED  BY <1>1, <1>2, <1>3, Steps

LEMMA InitMembersTyped == MembershipInit => MembersTyped
<1> SUFFICES ASSUME MembershipInit PROVE MembersTyped
  OBVIOUS
<1>1. Channel(channel) /\ channel.exists = FALSE
  BY DEF MembershipInit, Channel
<1>2. RowsTyped(rows) /\ \A u \in People : rows[u] = NoRow
  BY DEF MembershipInit, RowsTyped
<1>3. standing = [u \in People |-> standing[u]]
  BY DEF MembershipInit
<1>4. \A t \in Threads : RequestOK(t)
  BY DEF MembershipInit, RequestOK, Under, Syncing, NoRequest
<1> QED  BY <1>1, <1>2, <1>3, <1>4 DEF MembershipInit, MembersTyped, Tables, RequestsHold

-----------------------------------------------------------------------------
LEMMA UnbornKept == MembersTyped /\ MembersTyped' /\ [MembershipNext]_membershipVars /\ Unborn => Unborn'
<1> SUFFICES ASSUME MembersTyped, MembersTyped', [MembershipNext]_membershipVars, Unborn, channel'.owner = NoOne
             PROVE  /\ ~channel'.exists
                    /\ \A u \in People : rows'[u] = NoRow
                    /\ \A g \in Groups : given'[g] = NoRow
                    /\ \A t \in Threads : ~Under(t, {"upsert", "remove", "save"} \cup Syncing)'
  BY DEF Unborn
<1>0. /\ NoOne \notin People /\ ~channel'.exists
      /\ (channel.exists => channel.owner \in People) /\ (channel'.exists => channel'.owner \in People)
  BY MembershipAssumption DEF MembersTyped, Tables
<1>1. CASE UNCHANGED membershipVars
  BY <1>1 DEF membershipVars, Unborn, Under
<1>2. ASSUME NEW t \in Threads, Proceeds(t) \/ EndsWork(t) \/ Asks(t) \/ Assigns(t)
      PROVE  channel.owner = NoOne
  <2>1. CASE SaveApplication(t)
    BY <1>0, <2>1 DEF SaveApplication, MembersTyped, RequestsHold, RequestOK, Under
  <2>2. CASE DeleteOwnedAndMemberships(t)
    <3>1. channel' = channel \/ channel' = [channel EXCEPT !.exists = FALSE]
      BY <2>2 DEF DeleteOwnedAndMemberships
    <3>2. channel = [exists |-> channel.exists, owner |-> channel.owner, auto |-> channel.auto,
                     posting |-> channel.posting]
      BY DEF MembersTyped, Tables, Channel
    <3> QED  BY <3>1, <3>2
  <2>3. CASE Asks(t) \/ Assigns(t)
    BY <2>3 DEF Asks, DeleteMember, UpsertMember, UpdateApplication, DeleteUser, Assigns, DeleteGroupAssignment,
                UpsertGroupAssignment, AddUserGroupMember, RemoveUserGroupMember, DeleteUserGroup
  <2>4. CASE (Proceeds(t) /\ ~DeleteOwnedAndMemberships(t)) \/ (EndsWork(t) /\ ~SaveApplication(t))
    BY <2>4 DEF Proceeds, ReadDesired, ReadMemberships, NothingToSync, DeleteUserGroupMembershipsForUser,
                SyncApplicationGroupAssignments, EndsWork, UpsertApplicationMembership, DeleteApplicationMembership,
                SyncFails, ForgetUser
  <2> QED  BY <1>2, <2>1, <2>2, <2>3, <2>4
<1>3. CASE AtOnce
  <2>1. channel = [exists |-> channel.exists, owner |-> channel.owner, auto |-> channel.auto,
                   posting |-> channel.posting]
    BY DEF MembersTyped, Tables, Channel
  <2>2. ASSUME NEW u \in People, NEW a \in BOOLEAN, NEW b \in BOOLEAN, CreateApplication(u, a, b) PROVE FALSE
    BY <1>0, <2>2 DEF CreateApplication
  <2>3. ASSUME NEW c \in People, NEW u \in People, TransferOwnership(c, u) PROVE FALSE
    <3>1. channel'.owner = u
      BY <2>1, <2>3 DEF TransferOwnership
    <3> QED  BY <1>0, <3>1
  <2>4. ASSUME NEW b \in BOOLEAN, SetAutoAssign(b) \/ SetMemberPosting(b) PROVE FALSE
    <3>1. channel'.exists = channel.exists
      BY <2>1, <2>4 DEF SetAutoAssign, SetMemberPosting
    <3> QED  BY <1>0, <2>4, <3>1 DEF SetAutoAssign, SetMemberPosting
  <2>5. ASSUME NEW u \in People, DeleteApplication(u) PROVE FALSE
    <3>1. channel'.owner = channel.owner
      BY <2>1, <2>5 DEF DeleteApplication
    <3> QED  BY <1>0, <2>5, <3>1 DEF DeleteApplication
  <2>6. ASSUME NEW u \in People, NEW b \in BOOLEAN, SetCurrentUserNotifications(u, b) PROVE FALSE
    BY <1>0, <2>6 DEF SetCurrentUserNotifications
  <2>7. ASSUME NEW u \in People, CreateUser(u) PROVE UNCHANGED <<channel, rows, given, thread>>
    BY <1>0, <2>7 DEF CreateUser
  <2>8. CASE Restart
    <3>1. UNCHANGED <<channel, given, thread>> /\ \A u \in People : rows[u] = NoRow
      BY <1>0, <2>8 DEF Restart, Unborn
    <3>2. ASSUME NEW u \in People PROVE rows'[u] = NoRow
      BY <1>0, <2>8, <3>1 DEF Restart
    <3> QED  BY <1>0, <3>1, <3>2 DEF Unborn, Under
  <2>9. CASE UNCHANGED <<channel, rows, given, thread>>
    BY <2>9 DEF Unborn, Under
  <2> QED  BY <1>3, <2>2, <2>3, <2>4, <2>5, <2>6, <2>7, <2>8, <2>9 DEF AtOnce
<1>4. ASSUME NEW t \in Threads, Proceeds(t) \/ EndsWork(t) \/ Asks(t) \/ Assigns(t)
      PROVE  /\ \A u \in People : rows'[u] = NoRow
             /\ \A g \in Groups : given'[g] = NoRow
             /\ \A d \in Threads : ~Under(d, {"upsert", "remove", "save"} \cup Syncing)'
  <2>1. /\ ~channel.exists /\ \A g \in Groups : given[g] = NoRow
        /\ \A u \in People : rows[u] = NoRow
        /\ \A d \in Threads : ~Under(d, {"upsert", "remove", "save"} \cup Syncing)
    BY <1>2, <1>4 DEF Unborn
  <2>2. given = [g \in Groups |-> given[g]] /\ inGroup = [g \in Groups |-> inGroup[g]]
        /\ thread = [d \in Threads |-> thread[d]]
    BY DEF MembersTyped, Tables, RequestsHold
  <2>3. CASE \/ UpsertApplicationMembership(t) \/ DeleteApplicationMembership(t) \/ SaveApplication(t)
             \/ SyncFails(t) \/ ReadDesired(t) \/ ReadMemberships(t) \/ NothingToSync(t) \/ SyncApplicationGroupAssignments(t)
    BY <2>1, <2>3 DEF UpsertApplicationMembership, DeleteApplicationMembership, SaveApplication, SyncFails,
                      ReadDesired, ReadMemberships, NothingToSync, SyncApplicationGroupAssignments, Under, Syncing
  <2>4. CASE ForgetUser(t)
    <3>1. UNCHANGED <<rows, given>> /\ thread' = [thread EXCEPT ![t] = NoRequest]
      BY <2>4 DEF ForgetUser, Finish
    <3> QED  BY <2>1, <2>2, <3>1 DEF Under, NoRequest, Syncing
  <2>5. CASE DeleteOwnedAndMemberships(t)
    <3>1. thread[t].user \in People
      BY <2>5 DEF DeleteOwnedAndMemberships, MembersTyped, RequestsHold, RequestOK, Under
    <3>2. PICK r : r = [op |-> "ungroup", user |-> thread[t].user]
      OBVIOUS
    <3>3. thread' = [thread EXCEPT ![t] = r]
      BY <2>5, <3>2 DEF DeleteOwnedAndMemberships
    <3>4. rows' = [p \in People |-> NoRow] \/ rows' = [rows EXCEPT ![thread[t].user] = NoRow]
      BY <2>5 DEF DeleteOwnedAndMemberships
    <3>5. given' = given \/ given' = [g \in Groups |-> NoRow]
      BY <2>5 DEF DeleteOwnedAndMemberships
    <3>6. \A u \in People : rows'[u] = NoRow
      BY <2>1, <3>1, <3>4 DEF MembersTyped, Tables, RowsTyped
    <3> QED  BY <2>1, <2>2, <3>2, <3>3, <3>5, <3>6 DEF Under, Syncing
  <2>6. CASE DeleteUserGroupMembershipsForUser(t)
    <3>1. GroupsOf(thread[t].user) = {}
      BY <2>1 DEF GroupsOf
    <3>2. PICK r : r = [op |-> "forget", user |-> thread[t].user]
      OBVIOUS
    <3>3. thread' = [thread EXCEPT ![t] = r] /\ UNCHANGED <<rows, given>>
      BY <2>6, <3>1, <3>2 DEF DeleteUserGroupMembershipsForUser
    <3> QED  BY <2>1, <2>2, <3>2, <3>3 DEF Under, Syncing
  <2>7. CASE Asks(t)
    <3>1. PICK u \in People : DeleteUser(t, u)
      BY <2>1, <2>7 DEF Asks, DeleteMember, UpsertMember, UpdateApplication, authorizeChannelManager
    <3>2. PICK r : r = [op |-> "unjoin", user |-> u, owned |-> channel.exists /\ channel.owner = u]
      OBVIOUS
    <3>3. thread' = [thread EXCEPT ![t] = r] /\ UNCHANGED <<rows, given>>
      BY <3>1, <3>2 DEF DeleteUser, Begin
    <3> QED  BY <2>1, <2>2, <3>2, <3>3 DEF Under, Syncing
  <2>8. CASE Assigns(t)
    <3>1. thread' = thread /\ rows' = rows
      BY <2>1, <2>8 DEF Assigns, DeleteGroupAssignment, UpsertGroupAssignment, authorizeChannelManager,
                        AddUserGroupMember, RemoveUserGroupMember, DeleteUserGroup, SyncGroup
    <3>2. \A g \in Groups : given'[g] = NoRow
      BY <2>1, <2>2, <2>8 DEF Assigns, DeleteGroupAssignment, UpsertGroupAssignment, authorizeChannelManager,
                              AddUserGroupMember, RemoveUserGroupMember, DeleteUserGroup
    <3> QED  BY <2>1, <3>1, <3>2 DEF Under
  <2> QED  BY <1>4, <2>3, <2>4, <2>5, <2>6, <2>7, <2>8 DEF Proceeds, EndsWork
<1> QED  BY <1>0, <1>1, <1>3, <1>4, Steps

-----------------------------------------------------------------------------
\* What any step but a synchronisation does to a row it leaves.
RowStep(u) ==
    \/ rows'[u] = rows[u]
    \/ rows[u] = NoRow /\ (rows'[u] = NoRow \/ ~rows'[u].group)
    \/ /\ rows[u] # NoRow /\ rows'[u] # NoRow /\ (rows'[u].auto => rows[u].auto)
       /\ rows'[u].group = rows[u].group /\ rows'[u].grole = rows[u].grole

LEMMA RowLeft ==
    ASSUME NEW u \in People, RowRight(u), Access(u)' = Access(u), RowStep(u)
    PROVE  RowRight(u)'
  BY DEF RowRight, RowStep

LEMMA AtOnceRows ==
    ASSUME MembersTyped, Unborn, AtOnce
    PROVE  /\ \A u \in People : RowStep(u) \/ u \in removed' \/ ~channel'.exists
           /\ OwnerGuaranteed => OwnerGuaranteed'
<1>0. /\ Channel(channel) /\ (channel.exists => channel.owner \in People) /\ RowsTyped(rows)
      /\ rows = [d \in People |-> rows[d]] /\ \A d \in People : rows[d] = NoRow \/ Row(rows[d])
  BY DEF MembersTyped, Tables, RowsTyped
<1>1. ASSUME NEW u \in People, NEW a \in BOOLEAN, NEW b \in BOOLEAN, CreateApplication(u, a, b)
      PROVE  (\A d \in People : RowStep(d)) /\ OwnerGuaranteed'
  <2>1. channel' = [exists |-> TRUE, owner |-> u, auto |-> a, posting |-> b] /\ channel.owner = NoOne
    BY <1>1 DEF CreateApplication
  <2>2. \A d \in People : rows[d] = NoRow
    BY <2>1 DEF Unborn
  <2>3. PICK table : table = IF a THEN AssignAll(u) ELSE rows
    OBVIOUS
  <2>4. rows' = [table EXCEPT ![u] = PlainRow]
    BY <1>1, <2>3 DEF CreateApplication
  <2>5. /\ table = [d \in People |-> table[d]]
        /\ \A d \in People : table[d] = rows[d] \/ table[d] = AutoRow
    BY <1>0, <2>3, AssignedRows
  <2>6. rows'[u] = PlainRow /\ \A d \in People \ {u} : rows'[d] = table[d]
    BY <2>4, <2>5
  <2> QED  BY <2>1, <2>2, <2>5, <2>6, NewRows, RowIsThere DEF RowStep, OwnerGuaranteed
<1>2. ASSUME NEW b \in BOOLEAN, SetAutoAssign(b)
      PROVE  /\ \A d \in People : RowStep(d) \/ d \in removed'
             /\ OwnerGuaranteed => OwnerGuaranteed'
  <2>1. channel' = [channel EXCEPT !.auto = b] /\ channel.exists
    BY <1>2 DEF SetAutoAssign
  <2>2. channel'.exists = channel.exists /\ channel'.owner = channel.owner
    <3> PICK c : c = channel
      OBVIOUS
    <3>1. [c EXCEPT !.auto = b].exists = c.exists /\ [c EXCEPT !.auto = b].owner = c.owner
      BY <1>0, ChannelsMade
    <3> QED  BY <2>1, <3>1
  <2>3. CASE b
    <3>1. rows' = AssignAll(channel.owner)
      BY <1>2, <2>3 DEF SetAutoAssign
    <3>2. \A d \in People : \/ rows'[d] = rows[d]
                            \/ rows[d] = NoRow /\ d # channel.owner /\ rows'[d] = AutoRow
      BY <1>0, <3>1, AssignedRows
    <3> QED  BY <1>0, <2>1, <2>2, <3>2, NewRows DEF RowStep, OwnerGuaranteed
  <2>4. CASE ~b
    <3>1. rows' = [d \in People |-> IF rows[d] # NoRow /\ rows[d].auto THEN NoRow ELSE rows[d]]
      BY <1>2, <2>4 DEF SetAutoAssign
    <3>2. removed' = removed \cup {d \in People : rows[d] # NoRow /\ rows'[d] = NoRow}
      BY <1>2 DEF SetAutoAssign
    <3> QED  BY <1>0, <2>1, <2>2, <3>1, <3>2 DEF RowStep, OwnerGuaranteed
  <2> QED  BY <2>3, <2>4
<1>3. ASSUME NEW b \in BOOLEAN, SetMemberPosting(b)
      PROVE  (\A d \in People : RowStep(d)) /\ (OwnerGuaranteed => OwnerGuaranteed')
  <2>1. channel' = [channel EXCEPT !.posting = b] /\ rows' = rows
    BY <1>3 DEF SetMemberPosting
  <2>2. channel'.exists = channel.exists /\ channel'.owner = channel.owner
    BY <1>0, <2>1, ChannelsMade
  <2> QED  BY <2>1, <2>2 DEF RowStep, OwnerGuaranteed
<1>4. ASSUME NEW u \in People, CreateUser(u)
      PROVE  (\A d \in People : RowStep(d)) /\ (OwnerGuaranteed => OwnerGuaranteed')
  <2>1. channel' = channel /\ (rows' = rows \/ (rows[u] = NoRow /\ rows' = [rows EXCEPT ![u] = AutoRow]))
    BY <1>4 DEF CreateUser
  <2>2. \A d \in People : rows'[d] = rows[d] \/ (rows[d] = NoRow /\ rows'[d] = AutoRow)
    BY <1>0, <2>1
  <2> QED  BY <1>0, <2>1, <2>2, NewRows DEF RowStep, OwnerGuaranteed
<1>5. ASSUME NEW u \in People, DeleteApplication(u)
      PROVE  ~channel'.exists
  <2>1. channel' = [channel EXCEPT !.exists = FALSE]
    BY <1>5 DEF DeleteApplication
  <2> QED  BY <1>0, <2>1 DEF Channel
<1>6. ASSUME NEW u \in People, NEW b \in BOOLEAN, SetCurrentUserNotifications(u, b)
      PROVE  (\A d \in People : RowStep(d)) /\ (OwnerGuaranteed => OwnerGuaranteed')
  <2>1. PICK x : x = IF b THEN "on" ELSE "off"
    OBVIOUS
  <2>2. PICK z : z = [rows[u] EXCEPT !.receive = b, !.override = x]
    OBVIOUS
  <2>3. rows' = [rows EXCEPT ![u] = z] /\ rows[u] # NoRow /\ channel' = channel
    BY <1>6, <2>1, <2>2 DEF SetCurrentUserNotifications
  <2>4. PICK r : r = rows[u]
    OBVIOUS
  <2>5. Row(r) /\ z = [r EXCEPT !.receive = b, !.override = x]
    BY <1>0, <2>2, <2>3, <2>4
  <2>6. Row(z) /\ z.auto = r.auto /\ z.group = r.group /\ z.grole = r.grole
    BY <2>5 DEF Row
  <2>7. rows'[u] = z /\ \A d \in People \ {u} : rows'[d] = rows[d]
    BY <1>0, <2>3
  <2> QED  BY <1>0, <2>3, <2>4, <2>6, <2>7, RowIsThere DEF RowStep, OwnerGuaranteed
<1>7. ASSUME NEW c \in People, NEW u \in People, TransferOwnership(c, u)
      PROVE  (\A d \in People : RowStep(d)) /\ OwnerGuaranteed'
  <2>1. PICK z : z = OwnersRow(u)
    OBVIOUS
  <2>2. rows' = [rows EXCEPT ![u] = z] /\ channel' = [channel EXCEPT !.owner = u]
    BY <1>7, <2>1 DEF TransferOwnership
  <2>3. /\ Row(z) /\ ~z.auto /\ (rows[u] = NoRow => ~z.group)
        /\ rows[u] # NoRow => z.group = rows[u].group /\ z.grole = rows[u].grole
    BY <1>0, <2>1, HandedRows, NewRows DEF OwnersRow
  <2>4. channel'.owner = u
    BY <1>0, <2>2 DEF Channel
  <2>5. rows'[u] = z /\ \A d \in People \ {u} : rows'[d] = rows[d]
    BY <1>0, <2>2
  <2> QED  BY <2>3, <2>4, <2>5, RowIsThere DEF RowStep, OwnerGuaranteed
<1>8. CASE Restart
  <2>1. PICK owned : owned = IF channel.exists /\ channel.owner \in people /\ rows[channel.owner] = NoRow
                             THEN [rows EXCEPT ![channel.owner] = PlainRow] ELSE rows
    OBVIOUS
  <2>2. PICK all : all = [u \in People |-> IF channel.exists /\ channel.auto /\ u \in people \ {channel.owner}
                                              /\ owned[u] = NoRow THEN AutoRow ELSE owned[u]]
    OBVIOUS
  <2>3. rows' = [u \in People |-> IF all[u] # NoRow /\ all[u].role = 0 /\ ~all[u].auto /\ ~all[u].group
                                  THEN [all[u] EXCEPT !.role = member] ELSE all[u]]
    BY <1>8, <2>1, <2>2 DEF Restart
  <2>4. channel' = channel
    BY <1>8 DEF Restart
  <2>5. \A u \in People : owned[u] = rows[u] \/ (rows[u] = NoRow /\ owned[u] = PlainRow)
    BY <1>0, <2>1
  <2>6. \A u \in People : all[u] = rows[u] \/ (rows[u] = NoRow /\ (all[u] = PlainRow \/ all[u] = AutoRow))
    BY <2>2, <2>5, NewRows
  <2>7. ASSUME NEW u \in People PROVE RowStep(u) /\ (rows[u] # NoRow => rows'[u] # NoRow)
    <3>1. all[u] = NoRow \/ Row(all[u])
      BY <1>0, <2>6, NewRows
    <3>2. rows'[u] = all[u] \/ (all[u] # NoRow /\ rows'[u] = [all[u] EXCEPT !.role = member])
      BY <2>3
    <3>3. \/ rows'[u] = all[u]
          \/ /\ all[u] # NoRow /\ Row(rows'[u]) /\ rows'[u].auto = all[u].auto
             /\ rows'[u].group = all[u].group /\ rows'[u].grole = all[u].grole
      <4>1. PICK r, z : r = all[u] /\ z = rows'[u]
        OBVIOUS
      <4>2. CASE r # NoRow /\ z = [r EXCEPT !.role = member]
        <5>1. Row(z) /\ z.auto = r.auto /\ z.group = r.group /\ z.grole = r.grole
          BY <3>1, <4>1, <4>2, RoleRows
        <5> QED  BY <4>1, <4>2, <5>1
      <4> QED  BY <3>2, <4>1, <4>2
    <3>4. CASE all[u] = rows[u]
      BY <3>3, <3>4, RowIsThere DEF RowStep
    <3>5. CASE rows[u] = NoRow /\ (all[u] = PlainRow \/ all[u] = AutoRow)
      BY <3>3, <3>5, NewRows DEF RowStep
    <3> QED  BY <2>6, <3>4, <3>5
  <2> QED  BY <1>0, <2>4, <2>7 DEF RowStep, OwnerGuaranteed
<1> QED  BY <1>1, <1>2, <1>3, <1>4, <1>5, <1>6, <1>7, <1>8 DEF AtOnce, OwnerGuaranteed

LEMMA RequestRows ==
    ASSUME MembersTyped, NEW t \in Threads, Asks(t) \/ Assigns(t) \/ Proceeds(t) \/ EndsWork(t),
           ~SyncApplicationGroupAssignments(t)
    PROVE  /\ \A u \in People : RowStep(u) \/ u \in removed' \/ ~channel'.exists
           /\ OwnerGuaranteed /\ ~overtaken' => OwnerGuaranteed'
<1>0. /\ Channel(channel) /\ (channel.exists => channel.owner \in People) /\ RequestOK(t)
      /\ rows = [d \in People |-> rows[d]] /\ \A d \in People : rows[d] = NoRow \/ Row(rows[d])
  BY DEF MembersTyped, Tables, RowsTyped, RequestsHold
<1>1. CASE Asks(t) \/ Assigns(t)
  <2>1. UNCHANGED <<channel, rows>>
    BY <1>1 DEF Asks, DeleteMember, UpsertMember, UpdateApplication, DeleteUser, Assigns, DeleteGroupAssignment,
                UpsertGroupAssignment, AddUserGroupMember, RemoveUserGroupMember, DeleteUserGroup
  <2> QED  BY <2>1 DEF RowStep, OwnerGuaranteed
<1>2. CASE \/ ReadDesired(t) \/ ReadMemberships(t) \/ NothingToSync(t) \/ DeleteUserGroupMembershipsForUser(t)
           \/ SyncFails(t) \/ ForgetUser(t)
  <2>1. UNCHANGED <<channel, rows>>
    BY <1>2 DEF ReadDesired, ReadMemberships, NothingToSync, DeleteUserGroupMembershipsForUser, SyncFails,
                ForgetUser
  <2> QED  BY <2>1 DEF RowStep, OwnerGuaranteed
<1>3. CASE DeleteOwnedAndMemberships(t)
  <2>1. thread[t].user \in People
    BY <1>0, <1>3 DEF DeleteOwnedAndMemberships, RequestOK, Under
  <2>2. CASE thread[t].owned
    <3>1. channel' = [channel EXCEPT !.exists = FALSE]
      BY <1>3, <2>2 DEF DeleteOwnedAndMemberships
    <3>2. ~channel'.exists
      BY <1>0, <3>1 DEF Channel
    <3> QED  BY <3>2 DEF OwnerGuaranteed
  <2>3. CASE ~thread[t].owned
    <3>1. /\ channel' = channel /\ rows' = [rows EXCEPT ![thread[t].user] = NoRow]
          /\ removed' = removed \cup {thread[t].user}
          /\ overtaken' = (overtaken \/ (channel.exists /\ channel.owner = thread[t].user))
      BY <1>3, <2>3 DEF DeleteOwnedAndMemberships
    <3> QED  BY <1>0, <2>1, <3>1 DEF RowStep, OwnerGuaranteed
  <2> QED  BY <2>2, <2>3
<1>4. CASE UpsertApplicationMembership(t)
  <2>1. thread[t].user \in People
    BY <1>0, <1>4 DEF UpsertApplicationMembership, RequestOK, Under
  <2>2. PICK r : r = IF rows[thread[t].user] = NoRow THEN PlainRow ELSE rows[thread[t].user]
    OBVIOUS
  <2>3. PICK z : z = [r EXCEPT !.role = thread[t].role, !.receive = thread[t].receive, !.auto = FALSE]
    OBVIOUS
  <2>4. rows' = [rows EXCEPT ![thread[t].user] = z] /\ channel' = channel
    BY <1>4, <2>2, <2>3 DEF UpsertApplicationMembership
  <2>5. Row(r) /\ (rows[thread[t].user] = NoRow => ~r.group)
    BY <1>0, <2>1, <2>2, NewRows
  <2>6. Row(z) /\ z.auto = FALSE /\ z.group = r.group /\ z.grole = r.grole
    BY <2>3, <2>5 DEF Row
  <2>7. rows'[thread[t].user] = z /\ \A d \in People \ {thread[t].user} : rows'[d] = rows[d]
    BY <1>0, <2>1, <2>4
  <2> QED  BY <1>0, <2>1, <2>2, <2>4, <2>5, <2>6, <2>7, RowIsThere DEF RowStep, OwnerGuaranteed
<1>5. CASE DeleteApplicationMembership(t)
  <2>1. /\ rows' = [rows EXCEPT ![thread[t].user] = NoRow] /\ channel' = channel
        /\ removed' = removed \cup {thread[t].user} /\ overtaken' = (overtaken \/ t \in outdated)
    BY <1>5 DEF DeleteApplicationMembership
  <2>2. thread[t].user \in People /\ (t \notin outdated => thread[t].user # channel.owner)
    BY <1>0, <1>5 DEF DeleteApplicationMembership, RequestOK, Under
  <2> QED  BY <1>0, <2>1, <2>2 DEF RowStep, OwnerGuaranteed
<1>6. CASE SaveApplication(t)
  <2>1. /\ channel' = thread[t].channel /\ rows' = rows /\ overtaken' = (overtaken \/ t \in outdated)
    BY <1>6 DEF SaveApplication
  <2>2. t \notin outdated => thread[t].channel = channel
    BY <1>0, <1>6 DEF SaveApplication, RequestOK, Under
  <2> QED  BY <2>1, <2>2 DEF RowStep, OwnerGuaranteed
<1> QED  BY <1>1, <1>2, <1>3, <1>4, <1>5, <1>6 DEF Proceeds, EndsWork

\* A synchronisation that was not overtaken gives every member what it read.
LEMMA SyncRows ==
    ASSUME MembersTyped, OwnerKept, NEW t \in Threads, SyncApplicationGroupAssignments(t), ~overtaken'
    PROVE  /\ OwnerGuaranteed'
           /\ ~unsynced' => \A u \in People : RowRight(u)'
<1>0. /\ RequestOK(t) /\ (channel.exists => channel.owner \in People)
      /\ \A d \in People : rows[d] = NoRow \/ Row(rows[d])
  BY DEF MembersTyped, Tables, RowsTyped, RequestsHold
<1>1. /\ UNCHANGED <<channel, standing, inGroup, given>> /\ ~overtaken /\ t \notin outdated
      /\ thread[t].op = "apply"
      /\ unsynced' = ~(thread[t].desired = Desired /\ thread[t].rows = rows)
  BY DEF SyncApplicationGroupAssignments
<1>2. rows' = [u \in People |-> IF Touched(t, u)
                 THEN Synced(thread[t].rows[u], thread[t].desired[u], u, thread[t].channel.owner) ELSE rows[u]]
  BY DEF SyncApplicationGroupAssignments
<1>3. RowsTyped(thread[t].rows) /\ thread[t].channel = channel
  BY <1>0, <1>1 DEF RequestOK, Under
<1>4. ASSUME NEW u \in People, Touched(t, u)
      PROVE  /\ IF thread[t].desired[u] = NoRow THEN rows'[u] = NoRow \/ ~rows'[u].group
                ELSE rows'[u] # NoRow /\ rows'[u].group /\ rows'[u].grole = thread[t].desired[u].role
             /\ thread[t].rows[u] # NoRow /\ u = channel.owner => rows'[u] # NoRow /\ rows'[u].auto = thread[t].rows[u].auto
  <2>1. PICK r, a, o, z : r = thread[t].rows[u] /\ a = thread[t].desired[u] /\ o = channel.owner /\ z = rows'[u]
    OBVIOUS
  <2>2. z = Synced(r, a, u, o)
    BY <1>2, <1>3, <1>4, <2>1
  <2>3. r = NoRow \/ Row(r)
    BY <1>3, <2>1 DEF RowsTyped
  <2>4. /\ IF a = NoRow THEN z = NoRow \/ ~z.group ELSE z # NoRow /\ z.group /\ z.grole = a.role
        /\ r # NoRow /\ u = o => z # NoRow /\ z.auto = r.auto
    BY <2>2, <2>3, SyncedRows
  <2> QED  BY <2>1, <2>4
<1>5. OwnerGuaranteed'
  <2>1. SUFFICES ASSUME channel.exists PROVE rows'[channel.owner] # NoRow /\ ~rows'[channel.owner].auto
    BY <1>1 DEF OwnerGuaranteed
  <2>2. OwnerGuaranteed /\ thread[t].rows[channel.owner] # NoRow /\ ~thread[t].rows[channel.owner].auto
    BY <1>1, <1>3 DEF OwnerKept, Under
  <2>3. CASE Touched(t, channel.owner)
    BY <1>0, <1>4, <2>1, <2>2, <2>3
  <2>4. CASE ~Touched(t, channel.owner)
    <3>1. rows'[channel.owner] = rows[channel.owner]
      BY <1>0, <1>2, <2>1, <2>4
    <3> QED  BY <2>1, <2>2, <3>1 DEF OwnerGuaranteed
  <2> QED  BY <2>3, <2>4
<1>6. ASSUME ~unsynced', NEW u \in People PROVE RowRight(u)'
  <2>1. thread[t].desired = Desired /\ thread[t].rows = rows
    BY <1>1, <1>6
  <2>2. thread[t].desired[u] = Access(u)
    BY <2>1 DEF Desired
  <2>3. Access(u)' = Access(u)
    BY <1>1 DEF Access, GroupsOf, people
  <2>4. CASE Touched(t, u)
    BY <1>4, <2>2, <2>3, <2>4 DEF RowRight
  <2>5. CASE ~Touched(t, u)
    <3>1. rows'[u] = rows[u] /\ Access(u) = NoRow /\ (rows[u] = NoRow \/ ~rows[u].group)
      BY <1>2, <2>1, <2>2, <2>5 DEF Touched
    <3> QED  BY <2>3, <3>1 DEF RowRight
  <2> QED  BY <2>4, <2>5
<1> QED  BY <1>5, <1>6

LEMMA OvertakenStays == MembersTyped /\ MembershipNext /\ overtaken => overtaken'
<1> SUFFICES ASSUME MembershipNext, overtaken PROVE overtaken'
  OBVIOUS
<1>1. AtOnce => overtaken' = overtaken
  BY DEF AtOnce, CreateApplication, SetAutoAssign, SetMemberPosting, SetCurrentUserNotifications,
         TransferOwnership, DeleteApplication, Restart, CreateUser
<1>2. ASSUME NEW t \in Threads, Asks(t) \/ Assigns(t) PROVE overtaken' = overtaken
  BY <1>2 DEF Asks, DeleteMember, UpsertMember, UpdateApplication, DeleteUser, Assigns, DeleteGroupAssignment,
              UpsertGroupAssignment, AddUserGroupMember, RemoveUserGroupMember, DeleteUserGroup
<1>3. ASSUME NEW t \in Threads, Proceeds(t) PROVE overtaken'
  BY <1>3 DEF Proceeds, ReadDesired, ReadMemberships, NothingToSync, SyncApplicationGroupAssignments, DeleteOwnedAndMemberships,
              DeleteUserGroupMembershipsForUser
<1>4. ASSUME NEW t \in Threads, EndsWork(t) PROVE overtaken'
  BY <1>4 DEF EndsWork, UpsertApplicationMembership, DeleteApplicationMembership, SaveApplication, SyncFails, ForgetUser
<1> QED  BY <1>1, <1>2, <1>3, <1>4, Steps

Reading(t) == t \notin outdated /\ Under(t, {"apply"})
ReadsOwner(t) ==
    thread[t].rows[thread[t].channel.owner] # NoRow /\ ~thread[t].rows[thread[t].channel.owner].auto

LEMMA NextOwnerKept ==
    MembersTyped /\ Unborn /\ [MembershipNext]_membershipVars /\ OwnerKept => OwnerKept'
<1> SUFFICES ASSUME MembersTyped, Unborn, [MembershipNext]_membershipVars, OwnerKept, ~overtaken'
             PROVE  OwnerGuaranteed' /\ \A d \in Threads : Reading(d)' => ReadsOwner(d)'
  BY DEF OwnerKept, Reading, ReadsOwner
<1>1. CASE UNCHANGED membershipVars
  BY <1>1 DEF membershipVars, OwnerKept, OwnerGuaranteed, Reading, ReadsOwner, Under
<1>2. CASE MembershipNext
  <2>1. ~overtaken /\ OwnerGuaranteed /\ \A d \in Threads : Reading(d) => ReadsOwner(d)
    BY <1>2, OvertakenStays DEF OwnerKept, Reading, ReadsOwner
  <2>2. ASSUME NEW d \in Threads, Keeps(d), Reading(d)' PROVE ReadsOwner(d)'
    BY <2>1, <2>2 DEF Keeps, Reading, ReadsOwner, Under
  <2>3. CASE AtOnce
    <3>1. ChannelWritten \/ UNCHANGED <<channel, outdated>>
      BY <2>3 DEF AtOnce, CreateApplication, SetAutoAssign, SetMemberPosting, SetCurrentUserNotifications,
                  TransferOwnership, DeleteApplication, Restart, CreateUser
    <3>2. thread' = thread
      BY <2>3 DEF AtOnce, CreateApplication, SetAutoAssign, SetMemberPosting, SetCurrentUserNotifications,
                  TransferOwnership, DeleteApplication, Restart, CreateUser
    <3>3. \A d \in Threads : Keeps(d)
      BY <3>1, <3>2, Writes DEF Keeps, MembersTyped, RequestsHold
    <3> QED  BY <2>1, <2>2, <2>3, <3>3, AtOnceRows
  <2>4. ASSUME NEW t \in Threads, Asks(t) \/ Assigns(t) \/ Proceeds(t) \/ EndsWork(t)
        PROVE  OwnerGuaranteed' /\ \A d \in Threads : Reading(d)' => ReadsOwner(d)'
    <3>1. OwnerGuaranteed'
      BY <2>1, <2>4, RequestRows, SyncRows
    <3>2. CASE Assigns(t) /\ UNCHANGED <<thread, outdated>>
      <4>1. channel' = channel
        BY <3>2 DEF Assigns, DeleteGroupAssignment, UpsertGroupAssignment, AddUserGroupMember,
                    RemoveUserGroupMember, DeleteUserGroup
      <4> QED  BY <2>2, <3>1, <3>2, <4>1 DEF Keeps
    <3>3. CASE Assigns(t) /\ Begin(t, Sync)
      <4>1. channel' = channel
        BY <3>3 DEF Assigns, DeleteGroupAssignment, UpsertGroupAssignment, AddUserGroupMember,
                    RemoveUserGroupMember, DeleteUserGroup
      <4>2. Moved(t) /\ thread'[t] = Sync
        BY <3>3, <4>1, SyncsBegin
      <4> QED  BY <2>2, <3>1, <4>2 DEF Moved, Reading, Under, Sync
    <3>4. Assigns(t) => Begin(t, Sync) \/ UNCHANGED <<thread, outdated>>
      BY DEF Assigns, DeleteGroupAssignment, UpsertGroupAssignment, AddUserGroupMember, RemoveUserGroupMember,
             DeleteUserGroup, SyncGroup
    <3>5. CASE ~Assigns(t)
      <4>1. Moved(t)
        BY <2>4, <3>5, RequestsBegin, RequestsGoOn, RequestsEnd
      <4>2. CASE ReadMemberships(t)
        <5>1. PICK r : r = [op |-> "apply", then |-> thread[t].then, channel |-> thread[t].channel,
                            desired |-> thread[t].desired, rows |-> rows]
          OBVIOUS
        <5>2. thread' = [thread EXCEPT ![t] = r] /\ UNCHANGED <<outdated, channel>> /\ thread[t].op = "synced"
          BY <4>2, <5>1 DEF ReadMemberships
        <5>3. thread'[t] = r
          BY <5>2, ThreadMoves
        <5>4. t \notin outdated => thread[t].channel = channel /\ channel.exists
          BY <5>2 DEF MembersTyped, RequestsHold, RequestOK, Under
        <5>5. Reading(t)' => ReadsOwner(t)'
          BY <2>1, <5>1, <5>2, <5>3, <5>4 DEF Reading, ReadsOwner, OwnerGuaranteed
        <5> QED  BY <2>2, <3>1, <4>1, <5>5 DEF Moved
      <4>3. CASE ~ReadMemberships(t)
        <5>1. ~Under(t, {"apply"})'
          <6>1. CASE EndsWork(t)
            BY <6>1, RequestsEnd DEF Under, NoRequest
          <6>2. CASE ReadDesired(t)
            <7>1. PICK r : r = [op |-> "synced", then |-> thread[t].then, channel |-> channel, desired |-> Desired]
              OBVIOUS
            <7>2. thread' = [thread EXCEPT ![t] = r]
              BY <6>2, <7>1 DEF ReadDesired
            <7> QED  BY <7>1, <7>2, ThreadMoves DEF Under
          <6>3. CASE SyncApplicationGroupAssignments(t) \/ NothingToSync(t)
            <7>1. thread' = [thread EXCEPT ![t] = Following(t)]
              BY <6>3 DEF SyncApplicationGroupAssignments, NothingToSync
            <7>2. Following(t).op # "apply"
              BY DEF Following, NoRequest
            <7> QED  BY <7>1, <7>2, ThreadMoves DEF Under
          <6>4. CASE DeleteOwnedAndMemberships(t)
            <7>1. PICK r : r = [op |-> "ungroup", user |-> thread[t].user]
              OBVIOUS
            <7>2. thread' = [thread EXCEPT ![t] = r]
              BY <6>4, <7>1 DEF DeleteOwnedAndMemberships
            <7> QED  BY <7>1, <7>2, ThreadMoves DEF Under
          <6>5. CASE DeleteUserGroupMembershipsForUser(t)
            <7>1. PICK r : r = IF GroupsOf(thread[t].user) # {} THEN [Sync EXCEPT !.then = thread[t].user]
                               ELSE [op |-> "forget", user |-> thread[t].user]
              OBVIOUS
            <7>2. thread' = [thread EXCEPT ![t] = r]
              BY <6>5, <7>1 DEF DeleteUserGroupMembershipsForUser
            <7>3. r.op # "apply"
              BY <7>1 DEF Sync
            <7> QED  BY <7>2, <7>3, ThreadMoves DEF Under
          <6>6. CASE Asks(t)
            <7>1. PICK r : r.op # "apply" /\ Begin(t, r)
              BY <6>6 DEF Asks, DeleteMember, UpsertMember, UpdateApplication, DeleteUser
            <7>2. thread' = [thread EXCEPT ![t] = r]
              BY <7>1 DEF Begin
            <7> QED  BY <7>1, <7>2, ThreadMoves DEF Under
          <6> QED  BY <2>4, <3>5, <4>3, <6>1, <6>2, <6>3, <6>4, <6>5, <6>6 DEF Proceeds
        <5> QED  BY <2>2, <3>1, <4>1, <5>1 DEF Moved, Reading
      <4> QED  BY <4>2, <4>3
    <3> QED  BY <2>4, <3>2, <3>3, <3>4, <3>5
  <2> QED  BY <1>2, <2>3, <2>4, Steps
<1> QED  BY <1>1, <1>2

-----------------------------------------------------------------------------
Quiet == \A t \in Threads : ~Under(t, Syncing)
Applying == \E t \in Threads : SyncApplicationGroupAssignments(t)

\* The groups of a user give the same access while they are the same.
LEMMA AccessSame ==
    ASSUME NEW u \in People, u \in people, u \in people',
           GroupsOf(u)' = GroupsOf(u), \A g \in Groups : given[g] # NoRow => given'[g] = given[g]
    PROVE  Access(u)' = Access(u)
<1>1. \A g \in GroupsOf(u) : given'[g] = given[g]
  BY DEF GroupsOf
<1>2. {given'[g].role : g \in GroupsOf(u)} = {given[g].role : g \in GroupsOf(u)}
  BY <1>1
<1>3. (\E g \in GroupsOf(u) : given'[g].receive) = (\E g \in GroupsOf(u) : given[g].receive)
  BY <1>1
<1> QED  BY <1>2, <1>3 DEF Access

\* Without a synchronisation to follow, no access changes.
LEMMA AccessKept ==
    ASSUME MembersTyped, MembershipNext, channel'.exists, Quiet', NEW u \in People, u \in people'
    PROVE  Access(u)' = Access(u)
<1>0. /\ standing = [d \in People |-> standing[d]] /\ given = [g \in Groups |-> given[g]] /\ Channel(channel)
      /\ inGroup = [g \in Groups |-> inGroup[g]] /\ \A t \in Threads : RequestOK(t)
      /\ thread = [t \in Threads |-> thread[t]]
      /\ \A d \in People : standing[d] = "new" => \A g \in Groups : d \notin inGroup[g]
  BY DEF MembersTyped, Tables, RequestsHold
<1>1. CASE UNCHANGED <<standing, given, inGroup>>
  BY <1>1 DEF Access, GroupsOf, people
<1>2. ASSUME NEW d \in People, CreateUser(d) PROVE Access(u)' = Access(u)
  <2>1. UNCHANGED <<given, inGroup>> /\ standing' = [standing EXCEPT ![d] = "live"] /\ standing[d] = "new"
    BY <1>2 DEF CreateUser
  <2>2. CASE u = d
    <3>1. GroupsOf(u) = {} /\ GroupsOf(u)' = {}
      BY <1>0, <2>1, <2>2 DEF GroupsOf
    <3> QED  BY <3>1 DEF Access
  <2>3. CASE u # d
    <3>1. u \in people
      BY <1>0, <2>1, <2>3 DEF people
    <3>2. GroupsOf(u)' = GroupsOf(u)
      BY <2>1 DEF GroupsOf
    <3> QED  BY <2>1, <3>1, <3>2, AccessSame
  <2> QED  BY <2>2, <2>3
<1>3. ASSUME NEW t \in Threads, ForgetUser(t) PROVE Access(u)' = Access(u)
  <2>1. /\ UNCHANGED <<given, inGroup>> /\ standing' = [standing EXCEPT ![thread[t].user] = "gone"]
        /\ thread[t].user \in People
    BY <1>0, <1>3 DEF ForgetUser, RequestOK, Under
  <2>2. u \in people
    BY <1>0, <2>1 DEF people
  <2>3. GroupsOf(u)' = GroupsOf(u)
    BY <2>1 DEF GroupsOf
  <2> QED  BY <2>1, <2>2, <2>3, AccessSame
<1>4. ASSUME NEW d \in People, DeleteApplication(d) PROVE FALSE
  <2>1. channel' = [channel EXCEPT !.exists = FALSE]
    BY <1>4 DEF DeleteApplication
  <2> QED  BY <1>0, <2>1 DEF Channel
<1>5. ASSUME NEW t \in Threads, DeleteOwnedAndMemberships(t) PROVE Access(u)' = Access(u)
  <2>1. CASE thread[t].owned
    <3>1. channel' = [channel EXCEPT !.exists = FALSE]
      BY <1>5, <2>1 DEF DeleteOwnedAndMemberships
    <3> QED  BY <1>0, <3>1 DEF Channel
  <2>2. CASE ~thread[t].owned
    BY <1>1, <1>5, <2>2 DEF DeleteOwnedAndMemberships
  <2> QED  BY <2>1, <2>2
<1>7. ASSUME NEW t \in Threads, DeleteUserGroupMembershipsForUser(t) PROVE Access(u)' = Access(u)
  <2>1. /\ UNCHANGED <<given, standing>> /\ inGroup' = [g \in Groups |-> inGroup[g] \ {thread[t].user}]
    BY <1>7 DEF DeleteUserGroupMembershipsForUser
  <2>2. GroupsOf(thread[t].user) = {}
    <3>1. PICK r : r = [Sync EXCEPT !.then = thread[t].user]
      OBVIOUS
    <3>2. r.op = "sync"
      BY <3>1 DEF Sync
    <3>3. GroupsOf(thread[t].user) # {} => thread' = [thread EXCEPT ![t] = r]
      BY <1>7, <3>1 DEF DeleteUserGroupMembershipsForUser
    <3>4. GroupsOf(thread[t].user) # {} => thread'[t].op = "sync"
      BY <1>0, <3>2, <3>3
    <3> QED  BY <3>4 DEF Quiet, Under, Syncing
  <2>3. GroupsOf(u)' = GroupsOf(u)
    <3>1. ASSUME NEW g \in Groups PROVE g \in GroupsOf(u)' <=> g \in GroupsOf(u)
      <4>1. CASE u = thread[t].user
        BY <2>1, <2>2, <4>1 DEF GroupsOf
      <4>2. CASE u # thread[t].user
        BY <2>1, <4>2 DEF GroupsOf
      <4> QED  BY <4>1, <4>2
    <3> QED  BY <3>1 DEF GroupsOf
  <2>4. u \in people
    BY <2>1 DEF people
  <2> QED  BY <2>1, <2>3, <2>4, AccessSame
<1>8. ASSUME NEW t \in Threads, Assigns(t) PROVE Access(u)' = Access(u)
  <2>1. ~Begin(t, Sync)
    <3>1. Begin(t, Sync) => thread' = [thread EXCEPT ![t] = Sync]
      BY DEF Begin
    <3>2. Begin(t, Sync) => thread'[t].op = "sync"
      BY <1>0, <3>1 DEF Sync
    <3> QED  BY <3>2 DEF Quiet, Under, Syncing
  <2>2. PICK g \in Groups :
             /\ given[g] = NoRow /\ standing' = standing
             /\ \/ inGroup' = [inGroup EXCEPT ![g] = {}] /\ given' = [given EXCEPT ![g] = NoRow]
                \/ (\E d \in People : inGroup' = [inGroup EXCEPT ![g] = @ \cup {d}]) /\ given' = given
                \/ (\E d \in People : inGroup' = [inGroup EXCEPT ![g] = @ \ {d}]) /\ given' = given
    BY <1>8, <2>1 DEF Assigns, DeleteGroupAssignment, UpsertGroupAssignment, AddUserGroupMember,
                      RemoveUserGroupMember, DeleteUserGroup, SyncGroup
  <2>3. given' = given
    BY <1>0, <2>2
  <2>4. \A k \in Groups \ {g} : inGroup'[k] = inGroup[k]
    BY <1>0, <2>2
  <2>5. GroupsOf(u)' = GroupsOf(u)
    BY <2>2, <2>3, <2>4 DEF GroupsOf
  <2>6. u \in people
    BY <2>2 DEF people
  <2> QED  BY <2>3, <2>5, <2>6, AccessSame
<1>9. CASE AtOnce
  <2>1. \/ UNCHANGED <<standing, given, inGroup>>
        \/ \E d \in People : CreateUser(d) \/ DeleteApplication(d)
    BY <1>9 DEF AtOnce, CreateApplication, SetAutoAssign, SetMemberPosting, SetCurrentUserNotifications,
                TransferOwnership, Restart
  <2> QED  BY <1>1, <1>2, <1>4, <2>1
<1>10. ASSUME NEW t \in Threads, Asks(t) \/ Proceeds(t) \/ EndsWork(t) PROVE Access(u)' = Access(u)
  <2>1. CASE Asks(t)
    BY <1>1, <2>1 DEF Asks, DeleteMember, UpsertMember, UpdateApplication, DeleteUser
  <2>2. CASE Proceeds(t)
    BY <1>1, <1>5, <1>7, <2>2 DEF Proceeds, ReadDesired, ReadMemberships, NothingToSync, SyncApplicationGroupAssignments
  <2>3. CASE EndsWork(t)
    BY <1>1, <1>3, <2>3 DEF EndsWork, UpsertApplicationMembership, DeleteApplicationMembership, SaveApplication, SyncFails
  <2> QED  BY <1>10, <2>1, <2>2, <2>3
<1> QED  BY <1>8, <1>9, <1>10, Steps

\* A synchronisation that is under way goes on, fails, or is the one that ends.
LEMMA PendingBefore ==
    ASSUME MembersTyped, MembershipNext, ~Applying, Quiet', channel'.exists, ~unsynced'
    PROVE  Quiet /\ ~unsynced
<1>0. thread = [t \in Threads |-> thread[t]] /\ Channel(channel)
  BY DEF MembersTyped, Tables, RequestsHold
<1>1. CASE AtOnce
  <2>1. UNCHANGED <<thread, unsynced>>
    BY <1>1 DEF AtOnce, CreateApplication, SetAutoAssign, SetMemberPosting, SetCurrentUserNotifications,
                TransferOwnership, DeleteApplication, Restart, CreateUser
  <2> QED  BY <2>1 DEF Quiet, Under
<1>2. ASSUME NEW t \in Threads, Assigns(t) PROVE Quiet /\ ~unsynced
  <2>1. Begin(t, Sync) \/ thread' = thread
    BY <1>2 DEF Assigns, DeleteGroupAssignment, UpsertGroupAssignment, AddUserGroupMember, RemoveUserGroupMember,
                DeleteUserGroup, SyncGroup
  <2>2. unsynced' = unsynced
    BY <1>2 DEF Assigns, DeleteGroupAssignment, UpsertGroupAssignment, AddUserGroupMember, RemoveUserGroupMember,
                DeleteUserGroup
  <2>3. ASSUME Begin(t, Sync) PROVE FALSE
    <3>1. thread' = [thread EXCEPT ![t] = Sync]
      BY <2>3 DEF Begin
    <3>2. thread'[t].op = "sync"
      BY <1>0, <3>1 DEF Sync
    <3> QED  BY <3>2 DEF Quiet, Under, Syncing
  <2> QED  BY <2>1, <2>2, <2>3 DEF Quiet, Under
<1>3. ASSUME NEW t \in Threads, Asks(t) \/ Proceeds(t) \/ EndsWork(t) PROVE Quiet /\ ~unsynced
  <2>1. \A d \in Threads \ {t} : thread'[d] = thread[d]
    <3>1. Moved(t)
      BY <1>3, RequestsBegin, RequestsGoOn, RequestsEnd
    <3> QED  BY <3>1 DEF Moved, Keeps
  <2>2. \A d \in Threads \ {t} : ~Under(d, Syncing)
    BY <2>1 DEF Quiet, Under
  <2>3. CASE Asks(t)
    <3>1. thread[t] = NoRequest /\ unsynced' = unsynced
      BY <2>3, RequestsBegin DEF Asks, DeleteMember, UpsertMember, UpdateApplication, DeleteUser
    <3> QED  BY <2>2, <3>1 DEF Quiet, Under, NoRequest, Syncing
  <2>4. CASE ReadDesired(t)
    <3>1. PICK r : r = [op |-> "synced", then |-> thread[t].then, channel |-> channel, desired |-> Desired]
      OBVIOUS
    <3>2. thread' = [thread EXCEPT ![t] = r]
      BY <2>4, <3>1 DEF ReadDesired
    <3>3. thread'[t].op = "synced"
      BY <1>0, <3>1, <3>2
    <3> QED  BY <3>3 DEF Quiet, Under, Syncing
  <2>5. CASE ReadMemberships(t)
    <3>1. PICK r : r = [op |-> "apply", then |-> thread[t].then, channel |-> thread[t].channel,
                        desired |-> thread[t].desired, rows |-> rows]
      OBVIOUS
    <3>2. thread' = [thread EXCEPT ![t] = r]
      BY <2>5, <3>1 DEF ReadMemberships
    <3>3. thread'[t].op = "apply"
      BY <1>0, <3>1, <3>2
    <3> QED  BY <3>3 DEF Quiet, Under, Syncing
  <2>6. CASE DeleteOwnedAndMemberships(t)
    BY <2>2, <2>6 DEF DeleteOwnedAndMemberships, Quiet, Under, Syncing
  <2>7. CASE DeleteUserGroupMembershipsForUser(t)
    BY <2>2, <2>7 DEF DeleteUserGroupMembershipsForUser, Quiet, Under, Syncing
  <2>8. CASE UpsertApplicationMembership(t) \/ DeleteApplicationMembership(t) \/ SaveApplication(t) \/ ForgetUser(t)
    <3>1. thread[t].op \notin Syncing /\ unsynced' = unsynced
      BY <2>8 DEF UpsertApplicationMembership, DeleteApplicationMembership, SaveApplication, ForgetUser, Syncing
    <3> QED  BY <2>2, <3>1 DEF Quiet, Under
  <2>9. CASE SyncFails(t)
    BY <2>9 DEF SyncFails
  <2>10. CASE NothingToSync(t)
    BY <2>10 DEF NothingToSync
  <2> QED  BY <1>3, <2>3, <2>4, <2>5, <2>6, <2>7, <2>8, <2>9, <2>10 DEF Proceeds, EndsWork, Applying
<1> QED  BY <1>1, <1>2, <1>3, Steps

\* Who exists, whose row was removed, and whether the channel exists, before a step.
LEMMA BeforeStep ==
    ASSUME MembersTyped, MembershipNext, ~Applying, ~overtaken', channel'.exists
    PROVE  /\ removed \subseteq removed'
           /\ channel.exists \/ channel.owner = NoOne
           /\ \A u \in People : u \in people' => u \in people \/ standing[u] = "new"
<1>0. /\ standing = [d \in People |-> standing[d]] /\ Channel(channel)
      /\ \A t \in Threads : RequestOK(t)
  BY DEF MembersTyped, Tables, RequestsHold
<1>1. removed \subseteq removed'
  <2>1. AtOnce => removed \subseteq removed'
    BY DEF AtOnce, CreateApplication, SetAutoAssign, SetMemberPosting, SetCurrentUserNotifications,
           TransferOwnership, DeleteApplication, Restart, CreateUser
  <2>2. ASSUME NEW t \in Threads, Asks(t) \/ Assigns(t) PROVE removed' = removed
    BY <2>2 DEF Asks, DeleteMember, UpsertMember, UpdateApplication, DeleteUser, Assigns, DeleteGroupAssignment,
                UpsertGroupAssignment, AddUserGroupMember, RemoveUserGroupMember, DeleteUserGroup
  <2>3. ASSUME NEW t \in Threads, Proceeds(t) PROVE removed \subseteq removed'
    BY <2>3 DEF Applying, Proceeds, ReadDesired, ReadMemberships, NothingToSync, DeleteOwnedAndMemberships,
                DeleteUserGroupMembershipsForUser
  <2>4. ASSUME NEW t \in Threads, EndsWork(t) PROVE removed \subseteq removed'
    BY <2>4 DEF EndsWork, UpsertApplicationMembership, DeleteApplicationMembership, SaveApplication, SyncFails, ForgetUser
  <2> QED  BY <2>1, <2>2, <2>3, <2>4, Steps
<1>2. channel.exists \/ channel.owner = NoOne
  <2>1. CASE AtOnce
    BY <2>1 DEF AtOnce, CreateApplication, SetAutoAssign, SetMemberPosting, SetCurrentUserNotifications,
                TransferOwnership, DeleteApplication, Restart, CreateUser, authorizeChannelManager
  <2>2. ASSUME NEW t \in Threads, Asks(t) \/ Assigns(t) PROVE channel' = channel
    BY <2>2 DEF Asks, DeleteMember, UpsertMember, UpdateApplication, DeleteUser, Assigns, DeleteGroupAssignment,
                UpsertGroupAssignment, AddUserGroupMember, RemoveUserGroupMember, DeleteUserGroup
  <2>3. ASSUME NEW t \in Threads, Proceeds(t) PROVE channel.exists
    <3>1. channel' = channel \/ channel' = [channel EXCEPT !.exists = FALSE]
      BY <2>3 DEF Applying, Proceeds, ReadDesired, ReadMemberships, NothingToSync, DeleteOwnedAndMemberships,
                  DeleteUserGroupMembershipsForUser
    <3> QED  BY <1>0, <3>1 DEF Channel
  <2>4. ASSUME NEW t \in Threads, EndsWork(t) PROVE channel' = channel
    <3>1. CASE SaveApplication(t)
      BY <1>0, <3>1 DEF SaveApplication, RequestOK, Under
    <3>2. CASE ~SaveApplication(t)
      BY <2>4, <3>2 DEF EndsWork, UpsertApplicationMembership, DeleteApplicationMembership, SyncFails, ForgetUser
    <3> QED  BY <3>1, <3>2
  <2> QED  BY <2>1, <2>2, <2>3, <2>4, Steps
<1>3. ASSUME NEW u \in People, u \in people' PROVE u \in people \/ standing[u] = "new"
  <2>1. \/ standing' = standing
        \/ \E d \in People : CreateUser(d)
        \/ \E t \in Threads : ForgetUser(t)
    <3>1. AtOnce => standing' = standing \/ \E d \in People : CreateUser(d)
      BY DEF AtOnce, CreateApplication, SetAutoAssign, SetMemberPosting, SetCurrentUserNotifications,
             TransferOwnership, DeleteApplication, Restart
    <3>2. ASSUME NEW t \in Threads, Asks(t) \/ Assigns(t) PROVE standing' = standing
      BY <3>2 DEF Asks, DeleteMember, UpsertMember, UpdateApplication, DeleteUser, Assigns, DeleteGroupAssignment,
                  UpsertGroupAssignment, AddUserGroupMember, RemoveUserGroupMember, DeleteUserGroup
    <3>3. ASSUME NEW t \in Threads, Proceeds(t) PROVE standing' = standing
      BY <3>3 DEF Proceeds, ReadDesired, ReadMemberships, NothingToSync, DeleteOwnedAndMemberships,
                  DeleteUserGroupMembershipsForUser, SyncApplicationGroupAssignments
    <3>4. ASSUME NEW t \in Threads, EndsWork(t) PROVE standing' = standing \/ ForgetUser(t)
      BY <3>4 DEF EndsWork, UpsertApplicationMembership, DeleteApplicationMembership, SaveApplication, SyncFails
    <3> QED  BY <3>1, <3>2, <3>3, <3>4, Steps
  <2>2. ASSUME NEW d \in People, CreateUser(d) PROVE standing' = [standing EXCEPT ![d] = "live"] /\ standing[d] = "new"
    BY <2>2 DEF CreateUser
  <2>3. ASSUME NEW t \in Threads, ForgetUser(t)
        PROVE  standing' = [standing EXCEPT ![thread[t].user] = "gone"]
    BY <2>3 DEF ForgetUser
  <2>4. ASSUME standing' = standing PROVE u \in people
    BY <1>3, <2>4 DEF people
  <2>5. ASSUME NEW d, NEW x, standing' = [standing EXCEPT ![d] = x], x = "gone" \/ standing[d] = "new"
        PROVE  u \in people \/ standing[u] = "new"
    BY <1>0, <1>3, <2>5 DEF people
  <2> QED  BY <2>1, <2>2, <2>3, <2>4, <2>5
<1> QED  BY <1>1, <1>2, <1>3

LEMMA NextSettled ==
    MembersTyped /\ Unborn /\ OwnerKept /\ [MembershipNext]_membershipVars /\ Settled => Settled'
<1> SUFFICES ASSUME MembersTyped, Unborn, OwnerKept, [MembershipNext]_membershipVars, Settled,
                    channel'.exists, ~unsynced', ~overtaken', Quiet', NEW u \in People, u \in people', u \notin removed'
             PROVE  RowRight(u)'
  BY DEF Settled, Quiet, people
<1>1. CASE UNCHANGED membershipVars
  BY <1>1 DEF membershipVars, Settled, Quiet, Under, people, RowRight, Access, GroupsOf
<1>2. CASE MembershipNext /\ Applying
  BY <1>2, SyncRows DEF Applying
<1>3. CASE MembershipNext /\ ~Applying
  <2>1. Quiet /\ ~unsynced /\ ~overtaken
    BY <1>3, PendingBefore, OvertakenStays
  <2>2. Access(u)' = Access(u)
    BY <1>3, AccessKept
  <2>3. RowStep(u)
    <3>1. AtOnce => RowStep(u) \/ u \in removed' \/ ~channel'.exists
      BY AtOnceRows
    <3>2. ASSUME NEW t \in Threads, Asks(t) \/ Assigns(t) \/ Proceeds(t) \/ EndsWork(t)
          PROVE  RowStep(u) \/ u \in removed' \/ ~channel'.exists
      BY <1>3, <3>2, RequestRows DEF Applying
    <3> QED  BY <1>3, <3>1, <3>2, Steps
  <2>4. RowRight(u)
    <3>1. CASE standing[u] = "new" \/ channel.owner = NoOne
      <4>1. rows[u] = NoRow /\ Access(u) = NoRow
        BY <3>1, NewcomersOut DEF Newcomers, Unborn, Access, GroupsOf
      <4> QED  BY <4>1 DEF RowRight
    <3>2. CASE channel.exists /\ u \in people
      <4>1. u \notin removed
        BY <1>3, BeforeStep
      <4> QED  BY <2>1, <3>2, <4>1 DEF Settled, Quiet
    <3> QED  BY <1>3, <3>1, <3>2, BeforeStep
  <2> QED  BY <2>2, <2>3, <2>4, RowLeft
<1> QED  BY <1>1, <1>2, <1>3

-----------------------------------------------------------------------------
LEMMA InitMembership == MembershipInit => MembersTyped /\ Unborn /\ OwnerKept /\ Settled
<1> SUFFICES ASSUME MembershipInit PROVE Unborn /\ OwnerKept /\ Settled
  BY InitMembersTyped
<1>1. channel.exists = FALSE
  BY DEF MembershipInit
<1>2. \A t \in Threads : thread[t].op = "none"
  BY DEF MembershipInit, NoRequest
<1>3. Unborn
  BY <1>1, <1>2 DEF MembershipInit, Unborn, Under, Syncing
<1>4. OwnerKept
  BY <1>1, <1>2 DEF OwnerKept, OwnerGuaranteed, Under
<1> QED  BY <1>1, <1>3, <1>4 DEF Settled

\* Whoever owns the channel keeps a membership that turning automatic assignment
\* off leaves, as long as no request wrote from a row of the channel that another
\* had changed (TransferApplicationOwnership, DeleteMember, SaveApplication).
THEOREM OwnersStay == MembershipSpec => []OwnerIsMember
<1>1. MembersTyped /\ [MembershipNext]_membershipVars => MembersTyped'
  BY NextMembersTyped
<1>2. MembersTyped /\ MembersTyped' /\ [MembershipNext]_membershipVars /\ Unborn => Unborn'
  BY UnbornKept
<1>3. MembersTyped /\ Unborn /\ [MembershipNext]_membershipVars /\ OwnerKept => OwnerKept'
  BY NextOwnerKept
<1>4. OwnerKept => OwnerIsMember
  BY DEF OwnerKept, OwnerIsMember
<1> QED  BY <1>1, <1>2, <1>3, <1>4, InitMembership, PTL DEF MembershipSpec

\* A group gives each of its members the best role assigned, and nobody else a
\* role, whenever no synchronisation is pending, failed or worked on rows that
\* had changed (SyncApplicationGroupAssignments and every request that calls it).
THEOREM GroupsGiveAccess == MembershipSpec => []GroupAccess
<1>1. MembersTyped /\ [MembershipNext]_membershipVars => MembersTyped'
  BY NextMembersTyped
<1>2. MembersTyped /\ MembersTyped' /\ [MembershipNext]_membershipVars /\ Unborn => Unborn'
  BY UnbornKept
<1>3. MembersTyped /\ Unborn /\ [MembershipNext]_membershipVars /\ OwnerKept => OwnerKept'
  BY NextOwnerKept
<1>4. MembersTyped /\ Unborn /\ OwnerKept /\ [MembershipNext]_membershipVars /\ Settled => Settled'
  BY NextSettled
<1>5. Settled => GroupAccess
  BY DEF Settled, GroupAccess, Under, Syncing, RowRight, people
<1> QED  BY <1>1, <1>2, <1>3, <1>4, <1>5, InitMembership, PTL DEF MembershipSpec
-----------------------------------------------------------------------------
(* Strings and their order. Two strings part at a position: they agree up   *)
(* to it, and there the first ends or has the smaller digit.                *)

Parts(a, b, n) ==
  /\ n \in Nat /\ n < Len(b) /\ n <= Len(a)
  /\ \A i \in 1..n : a[i] = b[i]
  /\ n < Len(a) => a[n + 1] < b[n + 1]

\* The same where neither has ended: it stays so whatever follows.
Lower(a, b) ==
  \E n \in Nat : /\ n < Len(a) /\ n < Len(b) /\ a[n + 1] < b[n + 1]
                 /\ \A i \in 1..n : a[i] = b[i]

LEMMA StringFacts ==
  ASSUME NEW s \in Strings
  PROVE  Len(s) \in Nat /\ DOMAIN s = 1..Len(s) /\ \A i \in 1..Len(s) : s[i] \in Int
  BY LenProperties, ElementOfSeq DEF Strings

LEMMA StringsEqual ==
  ASSUME NEW s \in Strings, NEW t \in Strings, Len(s) = Len(t), \A i \in 1..Len(s) : s[i] = t[i]
  PROVE  s = t
  BY SeqEqual DEF Strings

LEMMA Joins ==
  ASSUME NEW s \in Strings, NEW t \in Strings
  PROVE  /\ s \o t \in Strings /\ Len(s \o t) = Len(s) + Len(t)
         /\ \A i \in 1..Len(s) : (s \o t)[i] = s[i]
         /\ \A i \in 1..Len(t) : (s \o t)[Len(s) + i] = t[i]
PROOF
<1>1. /\ s \o t \in Strings /\ Len(s \o t) = Len(s) + Len(t)
      /\ \A i \in 1..(Len(s) + Len(t)) : (s \o t)[i] = IF i <= Len(s) THEN s[i] ELSE t[i - Len(s)]
  BY ConcatProperties DEF Strings
<1>2. Len(s) \in Nat /\ Len(t) \in Nat
  BY StringFacts
<1>3. \A i \in 1..Len(s) : (s \o t)[i] = s[i]
  BY <1>1, <1>2
<1>4. ASSUME NEW i \in 1..Len(t) PROVE (s \o t)[Len(s) + i] = t[i]
  <2>1. Len(s) + i \in 1..(Len(s) + Len(t)) /\ ~(Len(s) + i <= Len(s)) /\ (Len(s) + i) - Len(s) = i
    BY <1>2
  <2>2. QED BY <2>1, <1>1
<1>5. QED BY <1>1, <1>3, <1>4

LEMMA Cuts ==
  ASSUME NEW s \in Strings, NEW m \in 1..(Len(s) + 1), NEW n \in (m - 1)..Len(s)
  PROVE  /\ SubSeq(s, m, n) \in Strings /\ Len(SubSeq(s, m, n)) = n - m + 1
         /\ \A i \in 1..(n - m + 1) : SubSeq(s, m, n)[i] = s[m + i - 1]
PROOF
<1>1. Len(s) \in Nat /\ \A i \in m..n : s[i] \in Int
  BY StringFacts
<1>2. m \in Int /\ n \in Int /\ (IF m <= n THEN n - m + 1 ELSE 0) = n - m + 1
  BY <1>1
<1>3. QED BY <1>1, <1>2, SubSeqProperties DEF Strings

LEMMA One ==
  ASSUME NEW d \in Int
  PROVE  <<d>> \in Strings /\ Len(<<d>>) = 1 /\ <<d>>[1] = d
  BY DEF Strings

LEMMA Nothing ==
  None \in Strings /\ Len(None) = 0 /\ \A s \in Strings : Len(s) = 0 => s = None
PROOF
<1>1. None \in Strings /\ Len(None) = 0
  BY EmptySeq DEF Strings, None
<1>2. \A s \in Strings : Len(s) = 0 => s = None
  BY EmptySeq DEF Strings, None
<1>3. QED BY <1>1, <1>2

LEMMA DigitStrings ==
  ASSUME NEW s \in Strings
  PROVE  s \in Seq(Digits) <=> \A i \in 1..Len(s) : s[i] \in Digits
PROOF
<1>1. ASSUME s \in Seq(Digits), NEW i \in 1..Len(s) PROVE s[i] \in Digits
  BY <1>1, ElementOfSeq
<1>2. ASSUME \A i \in 1..Len(s) : s[i] \in Digits PROVE s \in Seq(Digits)
  <2>1. Len(s) \in Int
    BY StringFacts
  <2>2. SubSeq(s, 1, Len(s)) \in Seq(Digits)
    BY <1>2, <2>1, SubSeqProperties
  <2>3. QED BY <2>2, SubSeqFull DEF Strings
<1>3. QED BY <1>1, <1>2

LEMMA DigitsAreStrings ==
  ASSUME NEW s \in Seq(Digits)
  PROVE  s \in Strings
PROOF
<1>1. Digits \subseteq Int
  BY SortKeyAssumption DEF Digits
<1>2. QED BY <1>1, SeqMonotonic DEF Strings

LEMMA PartsBefore ==
  ASSUME NEW a \in Strings, NEW b \in Strings
  PROVE  Before(a, b) <=> \E n \in Nat : Parts(a, b, n)
PROOF
<1>0. Len(a) \in Nat /\ Len(b) \in Nat
  BY StringFacts
<1>1. ASSUME IsStrictPrefix(a, b) PROVE Parts(a, b, Len(a))
  <2>1. Len(a) <= Len(b) /\ SubSeq(a, 1, Len(a)) = SubSeq(b, 1, Len(a)) /\ a # b
    BY <1>1 DEF IsStrictPrefix, IsPrefix
  <2>2. \A i \in 1..Len(a) : SubSeq(a, 1, Len(a))[i] = a[i] /\ SubSeq(b, 1, Len(a))[i] = b[i]
    <3>1. 1 \in 1..(Len(a) + 1) /\ 1 \in 1..(Len(b) + 1) /\ Len(a) \in 0..Len(a) /\ Len(a) \in 0..Len(b) /\ 1 - 1 = 0
      BY <1>0, <2>1
    <3>2. \A i \in 1..(Len(a) - 1 + 1) : SubSeq(a, 1, Len(a))[i] = a[1 + i - 1] /\ SubSeq(b, 1, Len(a))[i] = b[1 + i - 1]
      BY <3>1, Cuts
    <3>3. \A i \in 1..Len(a) : i \in 1..(Len(a) - 1 + 1) /\ 1 + i - 1 = i
      BY <1>0
    <3>4. QED BY <3>2, <3>3
  <2>3. \A i \in 1..Len(a) : a[i] = b[i]
    BY <2>1, <2>2
  <2>4. Len(a) # Len(b)
    BY <2>1, <2>3, StringsEqual
  <2>5. QED BY <1>0, <2>1, <2>3, <2>4 DEF Parts
<1>2. ASSUME NEW i \in 1..Len(a), i <= Len(b), a[i] < b[i], SubSeq(a, 1, i - 1) = SubSeq(b, 1, i - 1)
      PROVE  Parts(a, b, i - 1)
  <2>1. ASSUME NEW j \in 1..(i - 1) PROVE a[j] = b[j]
    <3>1. 1 \in 1..(Len(a) + 1) /\ 1 \in 1..(Len(b) + 1) /\ i - 1 \in 0..Len(a) /\ i - 1 \in 0..Len(b) /\ 1 - 1 = 0
      BY <1>0, <1>2
    <3>2. j \in 1..(i - 1 - 1 + 1) /\ 1 + j - 1 = j
      BY <1>0
    <3>3. SubSeq(a, 1, i - 1)[j] = a[1 + j - 1] /\ SubSeq(b, 1, i - 1)[j] = b[1 + j - 1]
      BY <3>1, <3>2, Cuts
    <3>4. QED BY <1>2, <3>2, <3>3
  <2>2. i - 1 \in Nat /\ i - 1 < Len(b) /\ i - 1 <= Len(a) /\ i - 1 + 1 = i
    BY <1>0, <1>2
  <2>3. QED BY <1>2, <2>1, <2>2 DEF Parts
<1>3. ASSUME NEW n \in Nat, Parts(a, b, n) PROVE Before(a, b)
  <2>0. n < Len(b) /\ n <= Len(a) /\ (\A i \in 1..n : a[i] = b[i]) /\ (n < Len(a) => a[n + 1] < b[n + 1])
    BY <1>3 DEF Parts
  <2>1. SubSeq(a, 1, n) = SubSeq(b, 1, n)
    <3>1. 1 \in 1..(Len(a) + 1) /\ 1 \in 1..(Len(b) + 1) /\ n \in 0..Len(a) /\ n \in 0..Len(b) /\ 1 - 1 = 0
      BY <1>0, <2>0
    <3>2. /\ SubSeq(a, 1, n) \in Strings /\ Len(SubSeq(a, 1, n)) = n - 1 + 1
          /\ SubSeq(b, 1, n) \in Strings /\ Len(SubSeq(b, 1, n)) = n - 1 + 1
          /\ \A i \in 1..(n - 1 + 1) : SubSeq(a, 1, n)[i] = a[1 + i - 1] /\ SubSeq(b, 1, n)[i] = b[1 + i - 1]
      BY <3>1, Cuts
    <3>3. \A i \in 1..(n - 1 + 1) : a[1 + i - 1] = b[1 + i - 1]
      <4>1. \A i \in 1..(n - 1 + 1) : 1 + i - 1 \in 1..n
        OBVIOUS
      <4>2. QED BY <4>1, <2>0
    <3>4. QED BY <3>2, <3>3, StringsEqual
  <2>2. CASE n < Len(a)
    <3>1. n + 1 \in 1..Len(a) /\ n + 1 <= Len(b) /\ a[n + 1] < b[n + 1] /\ (n + 1) - 1 = n
      BY <1>0, <2>0, <2>2
    <3>2. QED BY <3>1, <2>1 DEF Before
  <2>3. CASE n = Len(a)
    <3>1. Len(a) <= Len(b) /\ Len(a) # Len(b)
      BY <1>0, <2>0, <2>3
    <3>2. QED BY <3>1, <2>1, <2>3 DEF Before, IsStrictPrefix, IsPrefix
  <2>4. QED BY <1>0, <2>0, <2>2, <2>3
<1>4. Before(a, b) => \E n \in Nat : Parts(a, b, n)
  BY <1>0, <1>1, <1>2 DEF Before
<1>5. QED BY <1>3, <1>4

\* A key between two others is between anything they are between.
LEMMA BeforeTransitive ==
  ASSUME NEW a \in Strings, NEW b \in Strings, NEW c \in Strings, Before(a, b), Before(b, c)
  PROVE  Before(a, c)
PROOF
<1>0. Len(a) \in Nat /\ Len(b) \in Nat /\ Len(c) \in Nat
  BY StringFacts
<1>1. PICK n \in Nat : Parts(a, b, n)
  BY PartsBefore
<1>2. PICK m \in Nat : Parts(b, c, m)
  BY PartsBefore
<1>3. n < Len(b) /\ n <= Len(a) /\ (\A i \in 1..n : a[i] = b[i]) /\ (n < Len(a) => a[n + 1] < b[n + 1])
  BY <1>1 DEF Parts
<1>4. m < Len(c) /\ m <= Len(b) /\ (\A i \in 1..m : b[i] = c[i]) /\ (m < Len(b) => b[m + 1] < c[m + 1])
  BY <1>2 DEF Parts
<1>5. CASE n < m
  <2>1. \A i \in 1..n : a[i] = c[i]
    BY <1>3, <1>4, <1>5
  <2>2. b[n + 1] = c[n + 1]
    <3>1. n + 1 \in 1..m
      BY <1>5
    <3>2. QED BY <3>1, <1>4
  <2>3. n < Len(c)
    BY <1>0, <1>4, <1>5
  <2>4. Parts(a, c, n)
    BY <1>3, <2>1, <2>2, <2>3 DEF Parts
  <2>5. QED BY <2>4, PartsBefore
<1>6. CASE m < n
  <2>1. \A i \in 1..m : a[i] = c[i]
    BY <1>3, <1>4, <1>6
  <2>2. a[m + 1] = b[m + 1]
    <3>1. m + 1 \in 1..n
      BY <1>6
    <3>2. QED BY <3>1, <1>3
  <2>3. m <= Len(a) /\ m < Len(b)
    BY <1>0, <1>3, <1>6
  <2>4. Parts(a, c, m)
    BY <1>4, <2>1, <2>2, <2>3 DEF Parts
  <2>5. QED BY <2>4, PartsBefore
<1>7. CASE n = m
  <2>1. \A i \in 1..n : a[i] = c[i]
    BY <1>3, <1>4, <1>7
  <2>2. ASSUME n < Len(a) PROVE a[n + 1] < c[n + 1]
    <3>1. a[n + 1] < b[n + 1] /\ b[n + 1] < c[n + 1]
      BY <1>3, <1>4, <1>7, <2>2
    <3>2. n + 1 \in 1..Len(a) /\ n + 1 \in 1..Len(b) /\ n + 1 \in 1..Len(c)
      BY <1>0, <1>3, <1>4, <1>7, <2>2
    <3>3. a[n + 1] \in Int /\ b[n + 1] \in Int /\ c[n + 1] \in Int
      BY <3>2, StringFacts
    <3>4. QED BY <3>1, <3>3
  <2>3. Parts(a, c, n)
    BY <1>3, <1>4, <1>7, <2>1, <2>2 DEF Parts
  <2>4. QED BY <2>3, PartsBefore
<1>8. QED BY <1>5, <1>6, <1>7

LEMMA LowerExtends ==
  ASSUME NEW a \in Strings, NEW b \in Strings, NEW s \in Strings, NEW t \in Strings, Lower(a, b)
  PROVE  Before(a \o s, b \o t)
PROOF
<1>0. Len(a) \in Nat /\ Len(b) \in Nat /\ Len(s) \in Nat /\ Len(t) \in Nat
  BY StringFacts
<1>1. PICK n \in Nat : /\ n < Len(a) /\ n < Len(b) /\ a[n + 1] < b[n + 1]
                       /\ \A i \in 1..n : a[i] = b[i]
  BY DEF Lower
<1>2. /\ a \o s \in Strings /\ Len(a \o s) = Len(a) + Len(s) /\ \A i \in 1..Len(a) : (a \o s)[i] = a[i]
      /\ b \o t \in Strings /\ Len(b \o t) = Len(b) + Len(t) /\ \A i \in 1..Len(b) : (b \o t)[i] = b[i]
  BY Joins
<1>3. n + 1 \in 1..Len(a) /\ n + 1 \in 1..Len(b)
  BY <1>0, <1>1
<1>4. (a \o s)[n + 1] < (b \o t)[n + 1]
  BY <1>1, <1>2, <1>3
<1>5. \A i \in 1..n : i \in 1..Len(a) /\ i \in 1..Len(b)
  BY <1>0, <1>1
<1>6. \A i \in 1..n : (a \o s)[i] = (b \o t)[i]
  BY <1>1, <1>2, <1>5
<1>7. n < Len(a \o s) /\ n < Len(b \o t) /\ n <= Len(a \o s)
  BY <1>0, <1>1, <1>2
<1>8. Parts(a \o s, b \o t, n)
  BY <1>4, <1>6, <1>7 DEF Parts
<1>9. QED BY <1>2, <1>8, PartsBefore

LEMMA JoinNothing ==
  ASSUME NEW s \in Strings
  PROVE  s \o None = s /\ None \o s = s
  BY ConcatEmptySeq DEF Strings, None

LEMMA LowerBefore ==
  ASSUME NEW a \in Strings, NEW b \in Strings, Lower(a, b)
  PROVE  Before(a, b)
  BY LowerExtends, JoinNothing, Nothing

LEMMA PrefixBefore ==
  ASSUME NEW a \in Strings, NEW s \in Strings, Len(s) > 0
  PROVE  Before(a, a \o s)
PROOF
<1>1. Len(a) \in Nat /\ Len(s) \in Nat
  BY StringFacts
<1>2. a \o s \in Strings /\ Len(a \o s) = Len(a) + Len(s) /\ \A i \in 1..Len(a) : (a \o s)[i] = a[i]
  BY Joins
<1>3. Parts(a, a \o s, Len(a))
  BY <1>1, <1>2 DEF Parts
<1>4. QED BY <1>1, <1>2, <1>3, PartsBefore

\* A common beginning makes no difference.
LEMMA SameStart ==
  ASSUME NEW p \in Strings, NEW a \in Strings, NEW b \in Strings
  PROVE  Before(p \o a, p \o b) <=> Before(a, b)
PROOF
<1>0. Len(p) \in Nat /\ Len(a) \in Nat /\ Len(b) \in Nat
  BY StringFacts
<1>1. /\ p \o a \in Strings /\ Len(p \o a) = Len(p) + Len(a)
      /\ \A i \in 1..Len(p) : (p \o a)[i] = p[i]
      /\ \A i \in 1..Len(a) : (p \o a)[Len(p) + i] = a[i]
  BY Joins
<1>2. /\ p \o b \in Strings /\ Len(p \o b) = Len(p) + Len(b)
      /\ \A i \in 1..Len(p) : (p \o b)[i] = p[i]
      /\ \A i \in 1..Len(b) : (p \o b)[Len(p) + i] = b[i]
  BY Joins
<1>3. ASSUME NEW n \in Nat, Parts(a, b, n) PROVE Parts(p \o a, p \o b, Len(p) + n)
  <2>1. n < Len(b) /\ n <= Len(a) /\ (\A i \in 1..n : a[i] = b[i]) /\ (n < Len(a) => a[n + 1] < b[n + 1])
    BY <1>3 DEF Parts
  <2>2. ASSUME NEW i \in 1..(Len(p) + n) PROVE (p \o a)[i] = (p \o b)[i]
    <3>1. CASE i <= Len(p)
      BY <1>0, <1>1, <1>2, <3>1
    <3>2. CASE ~(i <= Len(p))
      <4>1. PICK j : j = i - Len(p)
        OBVIOUS
      <4>2. j \in 1..n /\ j \in 1..Len(a) /\ j \in 1..Len(b) /\ i = Len(p) + j
        BY <1>0, <2>1, <3>2, <4>1
      <4>3. QED BY <1>1, <1>2, <2>1, <4>2
    <3>3. QED BY <3>1, <3>2
  <2>3. ASSUME Len(p) + n < Len(p \o a) PROVE (p \o a)[Len(p) + n + 1] < (p \o b)[Len(p) + n + 1]
    <3>1. n + 1 \in 1..Len(a) /\ n + 1 \in 1..Len(b) /\ Len(p) + (n + 1) = Len(p) + n + 1 /\ n < Len(a)
      BY <1>0, <1>1, <2>1, <2>3
    <3>2. (p \o a)[Len(p) + (n + 1)] = a[n + 1] /\ (p \o b)[Len(p) + (n + 1)] = b[n + 1]
      BY <1>1, <1>2, <3>1
    <3>3. QED BY <2>1, <3>1, <3>2
  <2>4. Len(p) + n \in Nat /\ Len(p) + n < Len(p \o b) /\ Len(p) + n <= Len(p \o a)
    BY <1>0, <1>1, <1>2, <2>1
  <2>5. QED BY <2>2, <2>3, <2>4 DEF Parts
<1>4. ASSUME NEW n \in Nat, Parts(p \o a, p \o b, n) PROVE Parts(a, b, n - Len(p)) /\ n - Len(p) \in Nat
  <2>1. /\ n < Len(p \o b) /\ n <= Len(p \o a) /\ (\A i \in 1..n : (p \o a)[i] = (p \o b)[i])
        /\ n < Len(p \o a) => (p \o a)[n + 1] < (p \o b)[n + 1]
    BY <1>4 DEF Parts
  <2>2. n >= Len(p)
    <3>1. SUFFICES ASSUME n < Len(p) PROVE FALSE
      BY <1>0
    <3>2. n + 1 \in 1..Len(p) /\ n < Len(p \o a)
      BY <1>0, <1>1, <3>1
    <3>3. (p \o a)[n + 1] = p[n + 1] /\ (p \o b)[n + 1] = p[n + 1] /\ p[n + 1] \in Int
      BY <1>1, <1>2, <3>2, StringFacts
    <3>4. p[n + 1] < p[n + 1]
      BY <2>1, <3>2, <3>3
    <3>5. QED BY <3>3, <3>4
  <2>3. PICK m \in Nat : m = n - Len(p)
    BY <1>0, <2>2
  <2>4. n = Len(p) + m /\ m < Len(b) /\ m <= Len(a)
    BY <1>0, <1>1, <1>2, <2>1, <2>3
  <2>5. ASSUME NEW i \in 1..m PROVE a[i] = b[i]
    <3>1. i \in 1..Len(a) /\ i \in 1..Len(b) /\ Len(p) + i \in 1..n
      BY <1>0, <2>4
    <3>2. QED BY <1>1, <1>2, <2>1, <3>1
  <2>6. ASSUME m < Len(a) PROVE a[m + 1] < b[m + 1]
    <3>1. m + 1 \in 1..Len(a) /\ m + 1 \in 1..Len(b) /\ Len(p) + (m + 1) = n + 1 /\ n < Len(p \o a)
      BY <1>0, <1>1, <2>4, <2>6
    <3>2. (p \o a)[n + 1] = a[m + 1] /\ (p \o b)[n + 1] = b[m + 1]
      BY <1>1, <1>2, <3>1
    <3>3. QED BY <2>1, <3>1, <3>2
  <2>7. Parts(a, b, m)
    BY <2>4, <2>5, <2>6 DEF Parts
  <2>8. QED BY <2>3, <2>7
<1>5. (\E n \in Nat : Parts(a, b, n)) => \E n \in Nat : Parts(p \o a, p \o b, n)
  <2>1. SUFFICES ASSUME NEW n \in Nat, Parts(a, b, n) PROVE \E m \in Nat : Parts(p \o a, p \o b, m)
    OBVIOUS
  <2>2. PICK m \in Nat : m = Len(p) + n
    BY <1>0
  <2>3. QED BY <1>3, <2>1, <2>2
<1>6. (\E n \in Nat : Parts(p \o a, p \o b, n)) => \E n \in Nat : Parts(a, b, n)
  BY <1>4
<1>7. QED BY <1>1, <1>2, <1>5, <1>6, PartsBefore

-----------------------------------------------------------------------------
(* midpoint is a recursive function: that it exists, and what it returns,   *)
(* is shown with a closed form of it.                                       *)

LEMMA Constants ==
  Base \in Nat /\ Base >= 2 /\ Heads \in Nat /\ Heads >= 1 /\ MaxKeys \in Nat
  BY SortKeyAssumption

LEMMA Half ==
  ASSUME NEW x \in Int, NEW y \in Int, y - x > 1
  PROVE  (x + y + 1) \div 2 \in Int /\ x < (x + y + 1) \div 2 /\ (x + y + 1) \div 2 < y
  OBVIOUS

\* The rest of a string, and what is known of its digits.
Rest(a, n) == SubSeq(a, n + 1, Len(a))

LEMMA RestFacts ==
  ASSUME NEW a \in Seq(Digits), NEW n \in Nat
  PROVE  /\ Rest(a, n) \in Seq(Digits)
         /\ Len(Rest(a, n)) = IF n <= Len(a) THEN Len(a) - n ELSE 0
         /\ \A i \in Nat \ {0} : DigitAt(Rest(a, n), i) = DigitAt(a, n + i)
         /\ \A i \in 1..(Len(a) - n) : Rest(a, n)[i] = a[n + i]
PROOF
<1>1. Len(a) \in Nat /\ \A i \in 1..Len(a) : a[i] \in Digits
  BY ElementOfSeq, LenProperties
<1>2. n + 1 \in Int /\ Len(a) \in Int /\ \A i \in (n + 1)..Len(a) : a[i] \in Digits
  BY <1>1
<1>3. /\ Rest(a, n) \in Seq(Digits)
      /\ Len(Rest(a, n)) = IF n + 1 <= Len(a) THEN Len(a) - (n + 1) + 1 ELSE 0
      /\ \A i \in 1..(Len(a) - (n + 1) + 1) : Rest(a, n)[i] = a[n + 1 + i - 1]
  BY <1>2, SubSeqProperties DEF Rest
<1>4. Len(Rest(a, n)) = IF n <= Len(a) THEN Len(a) - n ELSE 0
  BY <1>1, <1>3
<1>5. ASSUME NEW i \in 1..(Len(a) - n) PROVE Rest(a, n)[i] = a[n + i]
  <2>1. i \in 1..(Len(a) - (n + 1) + 1) /\ n + 1 + i - 1 = n + i
    BY <1>1
  <2>2. QED BY <1>3, <2>1
<1>6. ASSUME NEW i \in Nat \ {0} PROVE DigitAt(Rest(a, n), i) = DigitAt(a, n + i)
  <2>1. CASE n + i <= Len(a)
    <3>1. i \in 1..(Len(a) - n) /\ i <= Len(Rest(a, n))
      BY <1>1, <1>4, <2>1
    <3>2. QED BY <1>5, <2>1, <3>1 DEF DigitAt
  <2>2. CASE ~(n + i <= Len(a))
    <3>1. ~(i <= Len(Rest(a, n)))
      BY <1>1, <1>4, <2>2
    <3>2. QED BY <2>2, <3>1 DEF DigitAt
  <2>3. QED BY <2>1, <2>2
<1>7. QED BY <1>3, <1>4, <1>5, <1>6

LEMMA DigitFacts ==
  ASSUME NEW a \in Seq(Digits)
  PROVE  /\ Len(a) \in Nat /\ a \in Strings
         /\ \A i \in 1..Len(a) : a[i] \in Digits /\ DigitAt(a, i) = a[i]
         /\ \A i \in Nat \ {0} : DigitAt(a, i) \in Digits
         /\ \A i \in Nat : i > Len(a) => DigitAt(a, i) = 0
PROOF
<1>1. Len(a) \in Nat /\ (\A i \in 1..Len(a) : a[i] \in Digits) /\ a \in Strings
  BY ElementOfSeq, LenProperties, DigitsAreStrings
<1>2. 0 \in Digits
  BY Constants DEF Digits
<1>3. QED BY <1>1, <1>2 DEF DigitAt

LEMMA LeastNumber ==
  ASSUME NEW T, T \subseteq Nat, T # {}
  PROVE  \E k \in T : \A m \in T : ~(m < k)
PROOF
<1>1. IsWellFoundedOn(OpToRel(<, Nat), Nat)
  BY NatLessThanWellFounded, Zenon
<1>2. PICK k \in T : \A m \in T : <<m, k>> \notin OpToRel(<, Nat)
  BY <1>1, WFMin, Zenon
<1>3. \A m \in T : ~(m < k)
  BY <1>2 DEF OpToRel
<1>4. QED BY <1>2, <1>3

\* The highest digits at the beginning of a string.
IsTop(a, k) ==
  /\ k \in 0..Len(a) /\ DigitAt(a, k + 1) # Base - 1
  /\ \A i \in 1..k : a[i] = Base - 1

Top(a) == CHOOSE k : IsTop(a, k)

LEMMA TopFacts ==
  ASSUME NEW a \in Seq(Digits)
  PROVE  IsTop(a, Top(a)) /\ \A k : IsTop(a, k) => k = Top(a)
PROOF
<1>0. Len(a) \in Nat /\ \A i \in 1..Len(a) : DigitAt(a, i) = a[i]
  BY DigitFacts
<1>1. \E k : IsTop(a, k)
  <2>1. PICK T : T = {k \in Nat : DigitAt(a, k + 1) # Base - 1}
    OBVIOUS
  <2>2. Len(a) \in T
    <3>1. Len(a) + 1 \in Nat /\ Len(a) + 1 > Len(a)
      BY <1>0
    <3>2. DigitAt(a, Len(a) + 1) = 0
      BY <3>1, DigitFacts
    <3>3. 0 # Base - 1
      BY Constants
    <3>4. QED BY <1>0, <2>1, <3>2, <3>3
  <2>3. PICK k \in T : \A m \in T : ~(m < k)
    <3>1. T \subseteq Nat /\ T # {}
      BY <2>1, <2>2
    <3>2. QED BY <3>1, LeastNumber
  <2>4. k \in Nat /\ DigitAt(a, k + 1) # Base - 1 /\ k <= Len(a)
    BY <1>0, <2>1, <2>2, <2>3
  <2>5. ASSUME NEW i \in 1..k PROVE a[i] = Base - 1
    <3>1. i - 1 \in Nat /\ i - 1 < k /\ i - 1 + 1 = i /\ i \in 1..Len(a)
      BY <1>0, <2>4
    <3>2. i - 1 \notin T
      BY <2>3, <3>1
    <3>3. DigitAt(a, i) = Base - 1
      BY <2>1, <3>1, <3>2
    <3>4. QED BY <1>0, <3>1, <3>3
  <2>6. k \in 0..Len(a)
    BY <1>0, <2>4
  <2>7. QED BY <2>4, <2>5, <2>6 DEF IsTop
<1>2. ASSUME NEW k, NEW m, IsTop(a, k), IsTop(a, m) PROVE ~(k < m)
  <2>1. SUFFICES ASSUME k < m PROVE FALSE
    OBVIOUS
  <2>2. k \in 0..Len(a) /\ m \in 0..Len(a) /\ DigitAt(a, k + 1) # Base - 1 /\ \A i \in 1..m : a[i] = Base - 1
    BY <1>2 DEF IsTop
  <2>3. k + 1 \in 1..m /\ k + 1 \in 1..Len(a)
    BY <1>0, <2>1, <2>2
  <2>4. QED BY <1>0, <2>2, <2>3
<1>3. IsTop(a, Top(a))
  BY <1>1 DEF Top
<1>4. ASSUME NEW k, IsTop(a, k) PROVE k = Top(a)
  <2>1. ~(k < Top(a)) /\ ~(Top(a) < k)
    BY <1>2, <1>3, <1>4
  <2>2. k \in Int /\ Top(a) \in Int
    BY <1>0, <1>3, <1>4 DEF IsTop
  <2>3. QED BY <2>1, <2>2
<1>5. QED BY <1>3, <1>4

\* midpoint without an upper bound: the highest digits, then one half way up.
Above(a) ==
  [i \in 1..(Top(a) + 1) |-> IF i <= Top(a) THEN Base - 1
                             ELSE (DigitAt(a, Top(a) + 1) + Base + 1) \div 2]

LEMMA AboveFacts ==
  ASSUME NEW a \in Seq(Digits)
  PROVE  /\ Above(a) \in Seq(Digits) /\ Above(a) \in Strings /\ Len(Above(a)) = Top(a) + 1 /\ Top(a) \in Nat
         /\ Above(a)[Top(a) + 1] = (DigitAt(a, Top(a) + 1) + Base + 1) \div 2
         /\ Above(a)[Top(a) + 1] # 0 /\ DigitAt(a, Top(a) + 1) < Above(a)[Top(a) + 1]
         /\ \A i \in 1..Top(a) : Above(a)[i] = Base - 1
         /\ Before(a, Above(a))
PROOF
<1>0. Len(a) \in Nat /\ a \in Strings /\ \A i \in Nat \ {0} : DigitAt(a, i) \in Digits
  BY DigitFacts
<1>1. Top(a) \in 0..Len(a) /\ DigitAt(a, Top(a) + 1) # Base - 1 /\ \A i \in 1..Top(a) : a[i] = Base - 1
  BY TopFacts DEF IsTop
<1>2. Top(a) \in Nat /\ Top(a) + 1 \in Nat \ {0}
  BY <1>0, <1>1
<1>3. DigitAt(a, Top(a) + 1) \in Int /\ DigitAt(a, Top(a) + 1) >= 0 /\ DigitAt(a, Top(a) + 1) < Base - 1
  <2>1. DigitAt(a, Top(a) + 1) \in Digits
    BY <1>0, <1>2
  <2>2. QED BY <2>1, <1>1, Constants DEF Digits
<1>4. PICK h : h = (DigitAt(a, Top(a) + 1) + Base + 1) \div 2
  OBVIOUS
<1>5. h \in Int /\ DigitAt(a, Top(a) + 1) < h /\ h < Base
  BY <1>3, <1>4, Constants, Half
<1>6. h \in Digits /\ h # 0 /\ Base - 1 \in Digits
  BY <1>3, <1>5, Constants DEF Digits
<1>7. Above(a) = [i \in 1..(Top(a) + 1) |-> IF i <= Top(a) THEN Base - 1 ELSE h]
  BY <1>4 DEF Above
<1>8. PICK k \in Nat : k = Top(a)
  BY <1>2
<1>9. /\ Above(a) \in Seq(Digits) /\ Len(Above(a)) = Top(a) + 1 /\ Above(a)[Top(a) + 1] = h
      /\ \A i \in 1..Top(a) : Above(a)[i] = Base - 1
  <2>1. Above(a) = [i \in 1..(k + 1) |-> IF i <= k THEN Base - 1 ELSE h]
    BY <1>7, <1>8
  <2>2. Above(a)[k + 1] = h /\ \A i \in 1..k : Above(a)[i] = Base - 1
    BY <2>1
  <2>3. Above(a) \in [1..(k + 1) -> Digits]
    BY <1>6, <2>1
  <2>4. Above(a) \in Seq(Digits) /\ Len(Above(a)) = k + 1
    BY <2>3
  <2>5. QED BY <1>8, <2>2, <2>4
<1>10. Above(a) \in Strings
  BY <1>9, DigitsAreStrings
<1>11. Parts(a, Above(a), Top(a))
  <2>1. ASSUME Top(a) < Len(a) PROVE a[Top(a) + 1] < Above(a)[Top(a) + 1]
    <3>1. Top(a) + 1 \in 1..Len(a)
      BY <1>0, <1>2, <2>1
    <3>2. QED BY <3>1, <1>5, <1>9, DigitFacts
  <2>2. Top(a) < Len(Above(a)) /\ Top(a) <= Len(a) /\ \A i \in 1..Top(a) : a[i] = Above(a)[i]
    BY <1>0, <1>1, <1>2, <1>9
  <2>3. QED BY <1>2, <2>1, <2>2 DEF Parts
<1>12. Before(a, Above(a))
  BY <1>0, <1>2, <1>10, <1>11, PartsBefore
<1>13. QED BY <1>2, <1>4, <1>5, <1>6, <1>9, <1>10, <1>12

LEMMA AboveFirst ==
  ASSUME NEW a \in Seq(Digits), Base - DigitAt(a, 1) > 1
  PROVE  Above(a) = <<(DigitAt(a, 1) + Base + 1) \div 2>>
PROOF
<1>1. Len(a) \in Nat /\ DigitAt(a, 1) \in Int
  BY DigitFacts, Constants DEF Digits
<1>2. IsTop(a, 0)
  BY <1>1, Constants DEF IsTop
<1>3. Top(a) = 0
  BY <1>2, TopFacts
<1>4. PICK h : h = (DigitAt(a, 1) + Base + 1) \div 2
  OBVIOUS
<1>5. Len(Above(a)) = 1 /\ Above(a) \in Strings /\ Above(a)[1] = h
  <2>1. /\ Above(a) \in Strings /\ Len(Above(a)) = Top(a) + 1
        /\ Above(a)[Top(a) + 1] = (DigitAt(a, Top(a) + 1) + Base + 1) \div 2
    BY AboveFacts
  <2>2. Top(a) + 1 = 1
    BY <1>3
  <2>3. QED BY <1>4, <2>1, <2>2
<1>6. h \in Int
  <2>1. 1 \in 1..Len(Above(a))
    BY <1>5
  <2>2. QED BY <1>5, <2>1, StringFacts
<1>7. Above(a) = <<h>>
  <2>1. <<h>> \in Strings /\ Len(<<h>>) = 1 /\ <<h>>[1] = h
    BY <1>6, One
  <2>2. \A i \in 1..Len(Above(a)) : Above(a)[i] = <<h>>[i]
    BY <1>5, <2>1
  <2>3. QED BY <1>5, <2>1, <2>2, StringsEqual
<1>8. QED BY <1>4, <1>7

LEMMA AboveNext ==
  ASSUME NEW a \in Seq(Digits), ~(Base - DigitAt(a, 1) > 1)
  PROVE  /\ DigitAt(a, 1) = Base - 1 /\ Len(a) >= 1
         /\ Above(a) = <<DigitAt(a, 1)>> \o Above(Rest(a, 1))
PROOF
<1>0. Len(a) \in Nat /\ a \in Strings /\ \A i \in Nat \ {0} : DigitAt(a, i) \in Digits
  BY DigitFacts
<1>1. DigitAt(a, 1) = Base - 1
  BY <1>0, Constants DEF Digits
<1>2. Len(a) >= 1
  BY <1>0, <1>1, Constants, DigitFacts
<1>3. PICK r : r = Rest(a, 1)
  OBVIOUS
<1>4. r \in Seq(Digits) /\ Len(r) = Len(a) - 1 /\ (\A i \in Nat \ {0} : DigitAt(r, i) = DigitAt(a, 1 + i))
      /\ \A i \in 1..(Len(a) - 1) : r[i] = a[1 + i]
  BY <1>0, <1>2, <1>3, RestFacts
<1>5. PICK k \in Nat : k = Top(r)
  BY <1>4, AboveFacts
<1>6. k <= Len(r) /\ DigitAt(r, k + 1) # Base - 1 /\ \A i \in 1..k : r[i] = Base - 1
  <2>1. IsTop(r, k)
    BY <1>4, <1>5, TopFacts
  <2>2. QED BY <2>1 DEF IsTop
<1>7. IsTop(a, k + 1)
  <2>1. k + 1 \in 0..Len(a) /\ k + 1 \in Nat \ {0} /\ 1 + (k + 1) = k + 1 + 1
    BY <1>0, <1>4, <1>6
  <2>2. DigitAt(a, k + 1 + 1) # Base - 1
    BY <1>4, <1>6, <2>1
  <2>3. ASSUME NEW i \in 1..(k + 1) PROVE a[i] = Base - 1
    <3>1. CASE i = 1
      <4>1. 1 \in 1..Len(a)
        BY <1>0, <1>2
      <4>2. QED BY <1>1, <3>1, <4>1, DigitFacts
    <3>2. CASE i # 1
      <4>1. PICK j : j = i - 1
        OBVIOUS
      <4>2. j \in 1..k /\ j \in 1..(Len(a) - 1) /\ 1 + j = i
        BY <1>0, <1>4, <1>6, <3>2, <4>1
      <4>3. QED BY <1>4, <1>6, <4>2
    <3>3. QED BY <3>1, <3>2
  <2>4. QED BY <2>1, <2>2, <2>3 DEF IsTop
<1>8. Top(a) = k + 1
  BY <1>7, TopFacts
<1>9. PICK s : s = <<DigitAt(a, 1)>> \o Above(r)
  OBVIOUS
<1>10. /\ Above(r) \in Strings /\ Len(Above(r)) = k + 1 /\ (\A i \in 1..k : Above(r)[i] = Base - 1)
       /\ Above(r)[k + 1] = (DigitAt(r, k + 1) + Base + 1) \div 2
  BY <1>4, <1>5, AboveFacts
<1>11. DigitAt(a, 1) \in Int
  BY <1>1, Constants
<1>12. /\ s \in Strings /\ Len(s) = 1 + (k + 1) /\ s[1] = DigitAt(a, 1)
       /\ \A i \in 1..(k + 1) : s[1 + i] = Above(r)[i]
  <2>1. /\ <<DigitAt(a, 1)>> \in Strings /\ Len(<<DigitAt(a, 1)>>) = 1 /\ <<DigitAt(a, 1)>>[1] = DigitAt(a, 1)
    BY <1>11, One
  <2>2. PICK p, q : p = <<DigitAt(a, 1)>> /\ q = Above(r)
    OBVIOUS
  <2>3. p \in Strings /\ Len(p) = 1 /\ p[1] = DigitAt(a, 1) /\ q \in Strings /\ Len(q) = k + 1
    BY <1>10, <2>1, <2>2
  <2>4. s = p \o q
    BY <1>9, <2>2
  <2>5. /\ s \in Strings /\ Len(s) = Len(p) + Len(q) /\ (\A i \in 1..Len(p) : s[i] = p[i])
        /\ \A i \in 1..Len(q) : s[Len(p) + i] = q[i]
    BY <2>3, <2>4, Joins
  <2>6. 1 \in 1..1
    OBVIOUS
  <2>7. QED BY <2>2, <2>3, <2>5, <2>6
<1>13. /\ Above(a) \in Strings /\ Len(Above(a)) = k + 1 + 1 /\ (\A i \in 1..(k + 1) : Above(a)[i] = Base - 1)
       /\ Above(a)[k + 1 + 1] = (DigitAt(a, k + 1 + 1) + Base + 1) \div 2
  BY <1>8, AboveFacts
<1>14. DigitAt(r, k + 1) = DigitAt(a, k + 1 + 1)
  <2>1. k + 1 \in Nat \ {0} /\ 1 + (k + 1) = k + 1 + 1
    OBVIOUS
  <2>2. QED BY <1>4, <2>1
<1>15. ASSUME NEW i \in 1..(k + 1 + 1) PROVE Above(a)[i] = s[i]
  <2>1. CASE i = 1
    <3>1. 1 \in 1..(k + 1)
      OBVIOUS
    <3>2. QED BY <1>1, <1>12, <1>13, <2>1, <3>1
  <2>2. CASE i # 1 /\ i # k + 1 + 1
    <3>1. PICK j : j = i - 1
      OBVIOUS
    <3>2. j \in 1..k /\ j \in 1..(k + 1) /\ 1 + j = i /\ i \in 1..(k + 1)
      BY <2>2, <3>1
    <3>3. s[1 + j] = Above(r)[j] /\ Above(r)[j] = Base - 1 /\ Above(a)[i] = Base - 1
      BY <1>10, <1>12, <1>13, <3>2
    <3>4. QED BY <3>2, <3>3
  <2>3. CASE i = k + 1 + 1
    <3>1. k + 1 \in 1..(k + 1) /\ 1 + (k + 1) = k + 1 + 1
      OBVIOUS
    <3>2. s[1 + (k + 1)] = Above(r)[k + 1]
      BY <1>12, <3>1
    <3>3. QED BY <1>10, <1>13, <1>14, <2>3, <3>1, <3>2
  <2>4. QED BY <2>1, <2>2, <2>3
<1>16. Above(a) = s
  <2>1. Len(Above(a)) = Len(s) /\ \A i \in 1..Len(Above(a)) : Above(a)[i] = s[i]
    BY <1>12, <1>13, <1>15
  <2>2. QED BY <1>12, <1>13, <2>1, StringsEqual
<1>17. QED BY <1>1, <1>2, <1>3, <1>9, <1>16

IsCommon(a, b, n) ==
  /\ n \in 0..Len(b)
  /\ \A i \in 1..n : DigitAt(a, i) = b[i]
  /\ n < Len(b) => DigitAt(a, n + 1) # b[n + 1]

LEMMA CommonFacts ==
  ASSUME NEW a \in Seq(Digits), NEW b \in Seq(Digits)
  PROVE  IsCommon(a, b, Common(a, b)) /\ \A n : IsCommon(a, b, n) => n = Common(a, b)
PROOF
<1>0. Len(b) \in Nat
  BY DigitFacts
<1>1. \E n \in 0..Len(b) : IsCommon(a, b, n)
  <2>1. PICK T : T = {n \in Nat : n < Len(b) => DigitAt(a, n + 1) # b[n + 1]}
    OBVIOUS
  <2>2. Len(b) \in T
    BY <1>0, <2>1
  <2>3. PICK n \in T : \A m \in T : ~(m < n)
    <3>1. T \subseteq Nat /\ T # {}
      BY <2>1, <2>2
    <3>2. QED BY <3>1, LeastNumber
  <2>4. n \in Nat /\ n <= Len(b) /\ (n < Len(b) => DigitAt(a, n + 1) # b[n + 1])
    BY <1>0, <2>1, <2>2, <2>3
  <2>5. ASSUME NEW i \in 1..n PROVE DigitAt(a, i) = b[i]
    <3>1. i - 1 \in Nat /\ i - 1 < n /\ i - 1 + 1 = i
      BY <2>4
    <3>2. i - 1 \notin T
      BY <2>3, <3>1
    <3>3. QED BY <2>1, <3>1, <3>2
  <2>6. n \in 0..Len(b)
    BY <1>0, <2>4
  <2>7. QED BY <2>4, <2>5, <2>6 DEF IsCommon
<1>2. ASSUME NEW n, NEW m, IsCommon(a, b, n), IsCommon(a, b, m) PROVE ~(n < m)
  <2>1. SUFFICES ASSUME n < m PROVE FALSE
    OBVIOUS
  <2>2. /\ n \in 0..Len(b) /\ m \in 0..Len(b) /\ (n < Len(b) => DigitAt(a, n + 1) # b[n + 1])
        /\ \A i \in 1..m : DigitAt(a, i) = b[i]
    BY <1>2 DEF IsCommon
  <2>3. n + 1 \in 1..m /\ n < Len(b)
    BY <1>0, <2>1, <2>2
  <2>4. QED BY <2>2, <2>3
<1>3. IsCommon(a, b, Common(a, b))
  BY <1>1 DEF Common, IsCommon
<1>4. ASSUME NEW n, IsCommon(a, b, n) PROVE n = Common(a, b)
  <2>1. ~(n < Common(a, b)) /\ ~(Common(a, b) < n)
    BY <1>2, <1>3, <1>4
  <2>2. n \in Int /\ Common(a, b) \in Int
    BY <1>0, <1>3, <1>4 DEF IsCommon
  <2>3. QED BY <2>1, <2>2
<1>5. QED BY <1>3, <1>4

Shared(a, b) == IF b = None THEN 0 ELSE Common(a, b)

\* midpoint of strings whose first digits differ, and of any two.
Parted(a, b) ==
  IF b = None THEN Above(a)
  ELSE IF b[1] - DigitAt(a, 1) > 1 THEN <<(DigitAt(a, 1) + b[1] + 1) \div 2>>
  ELSE IF Len(b) > 1 THEN <<b[1]>>
  ELSE <<DigitAt(a, 1)>> \o Above(Rest(a, 1))

Mid(a, b) == SubSeq(b, 1, Shared(a, b)) \o Parted(Rest(a, Shared(a, b)), Rest(b, Shared(a, b)))

Pairs == Seq(Digits) \X Seq(Digits)

LEMMA NoneDigits ==
  None \in Seq(Digits) /\ Len(None) = 0 /\ \A i \in Nat \ {0} : DigitAt(None, i) = 0
PROOF
<1>1. None \in Seq(Digits) /\ Len(None) = 0
  BY EmptySeq DEF None
<1>2. QED BY <1>1 DEF DigitAt

LEMMA RestZero ==
  ASSUME NEW a \in Seq(Digits)
  PROVE  Rest(a, 0) = a
  BY SubSeqFull DEF Rest

LEMMA DigitsNonEmpty ==
  ASSUME NEW b \in Seq(Digits)
  PROVE  b = None <=> Len(b) = 0
  BY EmptySeq DEF None

LEMMA PartedFacts ==
  ASSUME NEW a \in Seq(Digits), NEW b \in Seq(Digits)
  PROVE  Parted(a, b) \in Seq(Digits) /\ Len(Parted(a, b)) >= 1
PROOF
<1>0. /\ Len(a) \in Nat /\ Len(b) \in Nat /\ DigitAt(a, 1) \in Digits
      /\ b # None => b[1] \in Digits
  BY DigitFacts, DigitsNonEmpty
<1>1. CASE b = None
  <2>1. Parted(a, b) = Above(a)
    BY <1>1 DEF Parted
  <2>2. QED BY <2>1, AboveFacts
<1>2. CASE b # None /\ b[1] - DigitAt(a, 1) > 1
  <2>1. PICK h : h = (DigitAt(a, 1) + b[1] + 1) \div 2
    OBVIOUS
  <2>2. DigitAt(a, 1) \in Int /\ b[1] \in Int /\ DigitAt(a, 1) >= 0 /\ b[1] <= Base - 1
    BY <1>0, <1>2, Constants DEF Digits
  <2>3. h \in Int /\ DigitAt(a, 1) < h /\ h < b[1]
    BY <1>2, <2>1, <2>2, Half
  <2>4. h \in Digits
    BY <2>2, <2>3, Constants DEF Digits
  <2>5. Parted(a, b) = <<h>>
    BY <1>2, <2>1 DEF Parted
  <2>6. QED BY <2>4, <2>5
<1>3. CASE b # None /\ ~(b[1] - DigitAt(a, 1) > 1) /\ Len(b) > 1
  <2>1. Parted(a, b) = <<b[1]>>
    BY <1>3 DEF Parted
  <2>2. QED BY <1>0, <1>3, <2>1
<1>4. CASE b # None /\ ~(b[1] - DigitAt(a, 1) > 1) /\ ~(Len(b) > 1)
  <2>1. Parted(a, b) = <<DigitAt(a, 1)>> \o Above(Rest(a, 1))
    BY <1>4 DEF Parted
  <2>2. Above(Rest(a, 1)) \in Seq(Digits)
    BY RestFacts, AboveFacts
  <2>3. <<DigitAt(a, 1)>> \in Seq(Digits) /\ Len(<<DigitAt(a, 1)>>) = 1
    BY <1>0
  <2>4. Len(Above(Rest(a, 1))) \in Nat
    BY <2>2, LenProperties
  <2>5. QED BY <2>1, <2>2, <2>3, <2>4, ConcatProperties
<1>5. QED BY <1>1, <1>2, <1>3, <1>4

LEMMA SharedFacts ==
  ASSUME NEW a \in Seq(Digits), NEW b \in Seq(Digits)
  PROVE  /\ Shared(a, b) \in 0..Len(b)
         /\ Shared(Rest(a, Shared(a, b)), Rest(b, Shared(a, b))) = 0
PROOF
<1>0. Len(b) \in Nat
  BY DigitFacts
<1>1. CASE b = None
  <2>1. Shared(a, b) = 0
    BY <1>1 DEF Shared
  <2>2. Rest(b, 0) = b
    BY RestZero
  <2>3. QED BY <1>0, <1>1, <2>1, <2>2 DEF Shared
<1>2. CASE b # None
  <2>1. PICK n : n = Shared(a, b)
    OBVIOUS
  <2>2. IsCommon(a, b, n)
    BY <1>2, <2>1, CommonFacts DEF Shared
  <2>3. n \in 0..Len(b) /\ n \in Nat /\ (n < Len(b) => DigitAt(a, n + 1) # b[n + 1])
    BY <1>0, <2>2 DEF IsCommon
  <2>4. PICK r, q : r = Rest(a, n) /\ q = Rest(b, n)
    OBVIOUS
  <2>5. /\ r \in Seq(Digits) /\ q \in Seq(Digits) /\ Len(q) = Len(b) - n
        /\ \A i \in Nat \ {0} : DigitAt(r, i) = DigitAt(a, n + i)
        /\ \A i \in 1..(Len(b) - n) : q[i] = b[n + i]
    <3>1. /\ r \in Seq(Digits) /\ \A i \in Nat \ {0} : DigitAt(r, i) = DigitAt(a, n + i)
      BY <2>3, <2>4, RestFacts
    <3>2. /\ q \in Seq(Digits) /\ Len(q) = (IF n <= Len(b) THEN Len(b) - n ELSE 0)
          /\ \A i \in 1..(Len(b) - n) : q[i] = b[n + i]
      BY <2>3, <2>4, RestFacts
    <3>3. QED BY <1>0, <2>3, <3>1, <3>2
  <2>6. Shared(r, q) = 0
    <3>1. CASE q = None
      BY <3>1 DEF Shared
    <3>2. CASE q # None
      <4>1. n < Len(b)
        BY <1>0, <2>3, <2>5, <3>2, DigitsNonEmpty
      <4>2. 1 \in Nat \ {0} /\ 1 \in 1..(Len(b) - n)
        BY <1>0, <2>3, <4>1
      <4>3. DigitAt(r, 1) # q[1]
        BY <2>3, <2>5, <4>1, <4>2
      <4>4. IsCommon(r, q, 0)
        <5>1. 0 \in 0..Len(q) /\ 0 + 1 = 1
          BY <1>0, <2>3, <2>5
        <5>2. \A i \in 1..0 : DigitAt(r, i) = q[i]
          OBVIOUS
        <5>3. QED BY <4>3, <5>1, <5>2 DEF IsCommon
      <4>5. QED BY <2>5, <3>2, <4>4, CommonFacts DEF Shared
    <3>3. QED BY <3>1, <3>2
  <2>7. QED BY <2>1, <2>3, <2>4, <2>6
<1>3. QED BY <1>1, <1>2

LEMMA StartDigits ==
  ASSUME NEW b \in Seq(Digits), NEW n \in 0..Len(b)
  PROVE  /\ SubSeq(b, 1, n) \in Seq(Digits) /\ Len(SubSeq(b, 1, n)) = n
         /\ \A i \in 1..n : SubSeq(b, 1, n)[i] = b[i]
PROOF
<1>1. Len(b) \in Nat /\ \A i \in 1..Len(b) : b[i] \in Digits
  BY DigitFacts
<1>2. n \in Int /\ \A i \in 1..n : b[i] \in Digits
  BY <1>1
<1>3. /\ SubSeq(b, 1, n) \in Seq(Digits) /\ Len(SubSeq(b, 1, n)) = IF 1 <= n THEN n - 1 + 1 ELSE 0
      /\ \A i \in 1..(n - 1 + 1) : SubSeq(b, 1, n)[i] = b[1 + i - 1]
  BY <1>2, SubSeqProperties
<1>4. Len(SubSeq(b, 1, n)) = n
  BY <1>1, <1>3
<1>5. \A i \in 1..n : i \in 1..(n - 1 + 1) /\ 1 + i - 1 = i
  BY <1>1
<1>6. QED BY <1>3, <1>4, <1>5

LEMMA MidOne ==
  ASSUME NEW a \in Seq(Digits), NEW b \in Seq(Digits), Shared(a, b) = 0
  PROVE  Mid(a, b) = Parted(a, b)
PROOF
<1>0. Parted(a, b) \in Strings
  BY PartedFacts, DigitsAreStrings
<1>1. SubSeq(b, 1, 0) = None
  BY SubSeqEmpty DEF None
<1>2. Mid(a, b) = None \o Parted(a, b)
  BY <1>1, RestZero DEF Mid
<1>3. QED BY <1>0, <1>2, JoinNothing

\* The body of midpoint, with f for the function itself.
MidStep(f, ab) ==
  LET a == ab[1]  b == ab[2]
      n == IF b = None THEN 0 ELSE Common(a, b)
      digitA == DigitAt(a, 1)
      digitB == IF b = None THEN Base ELSE b[1]
  IN  IF n > 0
      THEN SubSeq(b, 1, n) \o f[<<SubSeq(a, n + 1, Len(a)), SubSeq(b, n + 1, Len(b))>>]
      ELSE IF digitB - digitA > 1 THEN <<(digitA + digitB + 1) \div 2>>
      ELSE IF Len(b) > 1 THEN <<b[1]>>
      ELSE <<digitA>> \o f[<<SubSeq(a, 2, Len(a)), None>>]

LEMMA MidSteps ==
  ASSUME NEW f, NEW a \in Seq(Digits), NEW b \in Seq(Digits)
  PROVE  /\ Shared(a, b) > 0 =>
              MidStep(f, <<a, b>>) = SubSeq(b, 1, Shared(a, b)) \o f[<<Rest(a, Shared(a, b)), Rest(b, Shared(a, b))>>]
         /\ Shared(a, b) = 0 /\ b = None =>
              MidStep(f, <<a, b>>) = IF Base - DigitAt(a, 1) > 1 THEN <<(DigitAt(a, 1) + Base + 1) \div 2>>
                                     ELSE <<DigitAt(a, 1)>> \o f[<<Rest(a, 1), None>>]
         /\ Shared(a, b) = 0 /\ b # None =>
              MidStep(f, <<a, b>>) = IF b[1] - DigitAt(a, 1) > 1 THEN <<(DigitAt(a, 1) + b[1] + 1) \div 2>>
                                     ELSE IF Len(b) > 1 THEN <<b[1]>>
                                     ELSE <<DigitAt(a, 1)>> \o f[<<Rest(a, 1), None>>]
PROOF
<1>1. PICK ab : ab = <<a, b>>
  OBVIOUS
<1>2. ab[1] = a /\ ab[2] = b
  BY <1>1
<1>3. PICK n : n = Shared(a, b)
  OBVIOUS
<1>4. n = IF b = None THEN 0 ELSE Common(a, b)
  BY <1>3 DEF Shared
<1>5. n \in Nat
  <2>1. Len(b) \in Nat
    BY DigitFacts
  <2>2. n \in 0..Len(b)
    BY <1>3, SharedFacts
  <2>3. QED BY <2>1, <2>2
<1>6. Rest(a, 1) = SubSeq(a, 2, Len(a))
  BY DEF Rest
<1>7. ASSUME n > 0 PROVE MidStep(f, ab) = SubSeq(b, 1, n) \o f[<<Rest(a, n), Rest(b, n)>>]
  BY <1>2, <1>4, <1>7 DEF MidStep, Rest
<1>8. ASSUME n = 0, b = None
      PROVE  MidStep(f, ab) = IF Base - DigitAt(a, 1) > 1 THEN <<(DigitAt(a, 1) + Base + 1) \div 2>>
                              ELSE <<DigitAt(a, 1)>> \o f[<<Rest(a, 1), None>>]
  <2>1. ~(n > 0) /\ ~(Len(b) > 1)
    BY <1>8, NoneDigits
  <2>2. QED BY <1>2, <1>4, <1>6, <1>8, <2>1 DEF MidStep
<1>9. ASSUME n = 0, b # None
      PROVE  MidStep(f, ab) = IF b[1] - DigitAt(a, 1) > 1 THEN <<(DigitAt(a, 1) + b[1] + 1) \div 2>>
                              ELSE IF Len(b) > 1 THEN <<b[1]>>
                              ELSE <<DigitAt(a, 1)>> \o f[<<Rest(a, 1), None>>]
  <2>1. ~(n > 0)
    BY <1>9
  <2>2. QED BY <1>2, <1>4, <1>6, <1>9, <2>1 DEF MidStep
<1>10. QED BY <1>1, <1>3, <1>7, <1>8, <1>9

\* Without an upper bound, by the length of the lower one: the shortest string
\* for which the function would not give the closed form cannot be.
LEMMA OpenSolution ==
  ASSUME NEW f, f = [ab \in Pairs |-> MidStep(f, ab)], NEW a \in Seq(Digits)
  PROVE  f[<<a, None>>] = Above(a)
PROOF
<1>1. ASSUME NEW x \in Seq(Digits)
      PROVE  f[<<x, None>>] = IF Base - DigitAt(x, 1) > 1 THEN <<(DigitAt(x, 1) + Base + 1) \div 2>>
                              ELSE <<DigitAt(x, 1)>> \o f[<<Rest(x, 1), None>>]
  <2>1. <<x, None>> \in Pairs
    BY NoneDigits DEF Pairs
  <2>2. f[<<x, None>>] = MidStep(f, <<x, None>>)
    BY <2>1
  <2>3. Shared(x, None) = 0
    BY DEF Shared
  <2>4. QED BY <2>2, <2>3, NoneDigits, MidSteps
<1>2. SUFFICES ASSUME f[<<a, None>>] # Above(a) PROVE FALSE
  OBVIOUS
<1>3. PICK T : T = {k \in Nat : \E x \in Seq(Digits) : Len(x) = k /\ f[<<x, None>>] # Above(x)}
  OBVIOUS
<1>4. PICK k \in T : \A m \in T : ~(m < k)
  <2>1. Len(a) \in T
    BY <1>2, <1>3, DigitFacts
  <2>2. T \subseteq Nat /\ T # {}
    BY <1>3, <2>1
  <2>3. QED BY <2>2, LeastNumber
<1>5. PICK x \in Seq(Digits) : Len(x) = k /\ f[<<x, None>>] # Above(x)
  BY <1>3, <1>4
<1>6. CASE Base - DigitAt(x, 1) > 1
  BY <1>1, <1>5, <1>6, AboveFirst
<1>7. CASE ~(Base - DigitAt(x, 1) > 1)
  <2>1. f[<<x, None>>] = <<DigitAt(x, 1)>> \o f[<<Rest(x, 1), None>>]
    BY <1>1, <1>7
  <2>2. Len(x) \in Nat /\ Len(x) >= 1 /\ Above(x) = <<DigitAt(x, 1)>> \o Above(Rest(x, 1))
    BY <1>7, AboveNext, DigitFacts
  <2>3. f[<<Rest(x, 1), None>>] # Above(Rest(x, 1))
    BY <1>5, <2>1, <2>2
  <2>4. Rest(x, 1) \in Seq(Digits) /\ Len(Rest(x, 1)) = (IF 1 <= Len(x) THEN Len(x) - 1 ELSE 0)
    BY RestFacts
  <2>5. Len(Rest(x, 1)) \in Nat /\ Len(Rest(x, 1)) < k
    BY <1>5, <2>2, <2>4
  <2>6. Len(Rest(x, 1)) \in T
    BY <1>3, <2>3, <2>4, <2>5
  <2>7. QED BY <1>4, <2>5, <2>6
<1>8. QED BY <1>6, <1>7

LEMMA PartedSolution ==
  ASSUME NEW f, f = [ab \in Pairs |-> MidStep(f, ab)], NEW a \in Seq(Digits), NEW b \in Seq(Digits), Shared(a, b) = 0
  PROVE  f[<<a, b>>] = Parted(a, b)
PROOF
<1>1. CASE b = None
  BY <1>1, OpenSolution DEF Parted
<1>2. CASE b # None
  <2>1. <<a, b>> \in Pairs
    BY DEF Pairs
  <2>2. f[<<a, b>>] = MidStep(f, <<a, b>>)
    BY <2>1
  <2>3. f[<<Rest(a, 1), None>>] = Above(Rest(a, 1))
    BY RestFacts, OpenSolution
  <2>4. MidStep(f, <<a, b>>) = IF b[1] - DigitAt(a, 1) > 1 THEN <<(DigitAt(a, 1) + b[1] + 1) \div 2>>
                               ELSE IF Len(b) > 1 THEN <<b[1]>>
                               ELSE <<DigitAt(a, 1)>> \o f[<<Rest(a, 1), None>>]
    BY <1>2, MidSteps
  <2>5. QED BY <1>2, <2>2, <2>3, <2>4 DEF Parted
<1>3. QED BY <1>1, <1>2

LEMMA MidSolution ==
  ASSUME NEW f, f = [ab \in Pairs |-> MidStep(f, ab)], NEW a \in Seq(Digits), NEW b \in Seq(Digits)
  PROVE  f[<<a, b>>] = Mid(a, b)
PROOF
<1>1. CASE Shared(a, b) = 0
  BY <1>1, PartedSolution, MidOne
<1>2. CASE Shared(a, b) # 0
  <2>1. PICK n : n = Shared(a, b)
    OBVIOUS
  <2>2. Len(b) \in Nat /\ n \in 0..Len(b)
    BY <2>1, SharedFacts, DigitFacts
  <2>3. n \in Nat /\ n > 0
    BY <1>2, <2>1, <2>2
  <2>4. <<a, b>> \in Pairs
    BY DEF Pairs
  <2>5. f[<<a, b>>] = MidStep(f, <<a, b>>)
    BY <2>4
  <2>6. MidStep(f, <<a, b>>) = SubSeq(b, 1, n) \o f[<<Rest(a, n), Rest(b, n)>>]
    BY <2>1, <2>3, MidSteps
  <2>7. Rest(a, n) \in Seq(Digits) /\ Rest(b, n) \in Seq(Digits) /\ Shared(Rest(a, n), Rest(b, n)) = 0
    BY <2>1, <2>3, RestFacts, SharedFacts
  <2>8. f[<<Rest(a, n), Rest(b, n)>>] = Parted(Rest(a, n), Rest(b, n))
    BY <2>7, PartedSolution
  <2>9. QED BY <2>1, <2>5, <2>6, <2>8 DEF Mid
<1>3. QED BY <1>1, <1>2

\* The closed form solves the equation, so the recursion defines a function.
LEMMA MidExists ==
  \E f : f = [ab \in Pairs |-> MidStep(f, ab)]
PROOF
<1>1. PICK f : f = [ab \in Pairs |-> Mid(ab[1], ab[2])]
  OBVIOUS
<1>2. ASSUME NEW a \in Seq(Digits), NEW b \in Seq(Digits) PROVE f[<<a, b>>] = Mid(a, b)
  <2>1. PICK ab \in Pairs : ab = <<a, b>>
    BY DEF Pairs
  <2>2. ab[1] = a /\ ab[2] = b
    BY <2>1
  <2>3. f[ab] = Mid(ab[1], ab[2])
    BY <1>1
  <2>4. QED BY <2>1, <2>2, <2>3
<1>3. ASSUME NEW a \in Seq(Digits), NEW b \in Seq(Digits) PROVE f[<<a, b>>] = MidStep(f, <<a, b>>)
  <2>0. /\ Rest(a, 1) \in Seq(Digits) /\ None \in Seq(Digits)
        /\ \A x \in Seq(Digits) : Shared(x, None) = 0
    BY RestFacts, NoneDigits DEF Shared
  <2>1. f[<<Rest(a, 1), None>>] = Above(Rest(a, 1))
    <3>1. Mid(Rest(a, 1), None) = Parted(Rest(a, 1), None)
      BY <2>0, MidOne
    <3>2. QED BY <1>2, <2>0, <3>1 DEF Parted
  <2>2. CASE Shared(a, b) = 0 /\ b = None
    <3>1. f[<<a, b>>] = Above(a)
      BY <1>2, <2>2, MidOne DEF Parted
    <3>2. MidStep(f, <<a, b>>) = IF Base - DigitAt(a, 1) > 1 THEN <<(DigitAt(a, 1) + Base + 1) \div 2>>
                                 ELSE <<DigitAt(a, 1)>> \o f[<<Rest(a, 1), None>>]
      BY <2>2, MidSteps
    <3>3. CASE Base - DigitAt(a, 1) > 1
      BY <3>1, <3>2, <3>3, AboveFirst
    <3>4. CASE ~(Base - DigitAt(a, 1) > 1)
      BY <2>1, <3>1, <3>2, <3>4, AboveNext
    <3>5. QED BY <3>3, <3>4
  <2>3. CASE Shared(a, b) = 0 /\ b # None
    <3>1. f[<<a, b>>] = Parted(a, b)
      BY <1>2, <2>3, MidOne
    <3>2. MidStep(f, <<a, b>>) = IF b[1] - DigitAt(a, 1) > 1 THEN <<(DigitAt(a, 1) + b[1] + 1) \div 2>>
                                 ELSE IF Len(b) > 1 THEN <<b[1]>>
                                 ELSE <<DigitAt(a, 1)>> \o f[<<Rest(a, 1), None>>]
      BY <2>3, MidSteps
    <3>3. QED BY <2>1, <2>3, <3>1, <3>2 DEF Parted
  <2>4. CASE Shared(a, b) # 0
    <3>1. PICK n : n = Shared(a, b)
      OBVIOUS
    <3>2. Len(b) \in Nat /\ n \in 0..Len(b)
      BY <3>1, SharedFacts, DigitFacts
    <3>3. n \in Nat /\ n > 0
      BY <2>4, <3>1, <3>2
    <3>4. Rest(a, n) \in Seq(Digits) /\ Rest(b, n) \in Seq(Digits) /\ Shared(Rest(a, n), Rest(b, n)) = 0
      BY <3>1, <3>3, RestFacts, SharedFacts
    <3>5. f[<<Rest(a, n), Rest(b, n)>>] = Parted(Rest(a, n), Rest(b, n))
      BY <1>2, <3>4, MidOne
    <3>6. MidStep(f, <<a, b>>) = SubSeq(b, 1, n) \o f[<<Rest(a, n), Rest(b, n)>>]
      BY <3>1, <3>3, MidSteps
    <3>7. QED BY <1>2, <3>1, <3>5, <3>6 DEF Mid
  <2>5. QED BY <2>2, <2>3, <2>4
<1>4. ASSUME NEW ab \in Pairs PROVE Mid(ab[1], ab[2]) = MidStep(f, ab)
  <2>1. ab[1] \in Seq(Digits) /\ ab[2] \in Seq(Digits) /\ ab = <<ab[1], ab[2]>>
    BY DEF Pairs
  <2>2. QED BY <1>2, <1>3, <2>1
<1>5. f = [ab \in Pairs |-> MidStep(f, ab)]
  BY <1>1, <1>4
<1>6. QED BY <1>5

LEMMA MidpointIs ==
  ASSUME NEW a \in Seq(Digits), NEW b \in Seq(Digits)
  PROVE  midpoint[<<a, b>>] = Mid(a, b)
PROOF
<1>1. midpoint = CHOOSE f : f = [ab \in Pairs |-> MidStep(f, ab)]
  BY DEF midpoint, Pairs, MidStep
<1>2. midpoint = [ab \in Pairs |-> MidStep(midpoint, ab)]
  BY <1>1, MidExists
<1>3. QED BY <1>2, MidSolution

-----------------------------------------------------------------------------
(* What midpoint returns is between its bounds and does not end in a zero.  *)

LastNot0(s) == Len(s) >= 1 /\ s[Len(s)] # 0

LEMMA MidOpen ==
  ASSUME NEW a \in Seq(Digits)
  PROVE  /\ midpoint[<<a, None>>] \in Seq(Digits) /\ midpoint[<<a, None>>] \in Strings
         /\ LastNot0(midpoint[<<a, None>>]) /\ Before(a, midpoint[<<a, None>>])
PROOF
<1>1. Shared(a, None) = 0 /\ None \in Seq(Digits)
  BY NoneDigits DEF Shared
<1>2. midpoint[<<a, None>>] = Above(a)
  BY <1>1, MidpointIs, MidOne DEF Parted
<1>3. Top(a) + 1 >= 1
  BY AboveFacts
<1>4. QED BY <1>2, <1>3, AboveFacts DEF LastNot0

LEMMA PartedBetween ==
  ASSUME NEW a \in Seq(Digits), NEW b \in Seq(Digits), b # None, b[1] > DigitAt(a, 1)
  PROVE  LastNot0(Parted(a, b)) /\ Before(a, Parted(a, b)) /\ Before(Parted(a, b), b)
PROOF
<1>0. /\ Len(a) \in Nat /\ Len(b) \in Nat /\ Len(b) >= 1 /\ a \in Strings /\ b \in Strings
      /\ DigitAt(a, 1) \in Digits /\ b[1] \in Digits
      /\ Len(a) > 0 => DigitAt(a, 1) = a[1]
  BY DigitFacts, DigitsNonEmpty
<1>1. DigitAt(a, 1) \in Int /\ b[1] \in Int /\ DigitAt(a, 1) >= 0 /\ b[1] > 0
  BY <1>0, Constants DEF Digits
<1>2. ASSUME NEW h \in Int, DigitAt(a, 1) < h PROVE LastNot0(<<h>>) /\ Before(a, <<h>>)
  <2>1. <<h>> \in Strings /\ Len(<<h>>) = 1 /\ <<h>>[1] = h
    BY One
  <2>2. h # 0
    BY <1>1, <1>2
  <2>3. Parts(a, <<h>>, 0)
    <3>1. 0 < Len(a) => a[0 + 1] < <<h>>[0 + 1]
      BY <1>0, <1>2, <2>1
    <3>2. \A i \in 1..0 : a[i] = <<h>>[i]
      OBVIOUS
    <3>3. QED BY <1>0, <2>1, <3>1, <3>2 DEF Parts
  <2>4. QED BY <1>0, <2>1, <2>2, <2>3, PartsBefore DEF LastNot0
<1>3. ASSUME NEW s \in Strings, Len(s) >= 1, s[1] < b[1] PROVE Before(s, b)
  <2>1. Len(s) \in Nat /\ \A i \in 1..0 : s[i] = b[i]
    BY StringFacts
  <2>2. Parts(s, b, 0)
    BY <1>0, <1>3, <2>1 DEF Parts
  <2>3. QED BY <1>0, <2>2, PartsBefore
<1>4. CASE b[1] - DigitAt(a, 1) > 1
  <2>1. PICK h : h = (DigitAt(a, 1) + b[1] + 1) \div 2
    OBVIOUS
  <2>2. h \in Int /\ DigitAt(a, 1) < h /\ h < b[1]
    BY <1>1, <1>4, <2>1, Half
  <2>3. Parted(a, b) = <<h>>
    BY <1>4, <2>1 DEF Parted
  <2>4. <<h>> \in Strings /\ Len(<<h>>) = 1 /\ <<h>>[1] = h
    BY <2>2, One
  <2>5. Before(<<h>>, b)
    BY <1>3, <2>2, <2>4
  <2>6. QED BY <1>2, <2>2, <2>3, <2>5
<1>5. CASE ~(b[1] - DigitAt(a, 1) > 1) /\ Len(b) > 1
  <2>1. Parted(a, b) = <<b[1]>>
    BY <1>5 DEF Parted
  <2>2. <<b[1]>> \in Strings /\ Len(<<b[1]>>) = 1 /\ <<b[1]>>[1] = b[1]
    BY <1>1, One
  <2>3. Parts(<<b[1]>>, b, 1)
    BY <1>5, <2>2 DEF Parts
  <2>4. Before(<<b[1]>>, b)
    BY <1>0, <2>2, <2>3, PartsBefore
  <2>5. QED BY <1>1, <1>2, <2>1, <2>4
<1>6. CASE ~(b[1] - DigitAt(a, 1) > 1) /\ ~(Len(b) > 1)
  <2>1. PICK r, t, d : r = Rest(a, 1) /\ t = Above(r) /\ d = DigitAt(a, 1)
    OBVIOUS
  <2>2. PICK s : s = <<d>> \o t
    OBVIOUS
  <2>3. Parted(a, b) = s
    BY <1>6, <2>1, <2>2 DEF Parted
  <2>4. r \in Seq(Digits) /\ r \in Strings
    BY <2>1, RestFacts, DigitsAreStrings
  <2>5. t \in Strings /\ Before(r, t) /\ Len(t) \in Nat /\ Len(t) >= 1 /\ t[Len(t)] # 0
    BY <2>1, <2>4, AboveFacts
  <2>6. <<d>> \in Strings /\ Len(<<d>>) = 1 /\ <<d>>[1] = d
    BY <1>1, <2>1, One
  <2>7. s \in Strings /\ Len(s) = 1 + Len(t) /\ s[1] = d /\ s[1 + Len(t)] = t[Len(t)]
    <3>1. 1 \in 1..1 /\ Len(t) \in 1..Len(t)
      BY <2>5
    <3>2. QED BY <2>2, <2>5, <2>6, <3>1, Joins
  <2>8. LastNot0(s)
    BY <2>5, <2>7 DEF LastNot0
  <2>9. Before(s, b)
    <3>1. Len(s) >= 1 /\ s[1] < b[1]
      BY <2>1, <2>5, <2>7
    <3>2. QED BY <1>3, <2>7, <3>1
  <2>10. Before(a, s)
    <3>1. CASE Len(a) = 0
      <4>1. Parts(a, s, 0)
        BY <2>5, <2>7, <3>1 DEF Parts
      <4>2. QED BY <1>0, <2>7, <4>1, PartsBefore
    <3>2. CASE Len(a) > 0
      <4>1. a = <<d>> \o r
        <5>1. Len(r) = Len(a) - 1 /\ \A i \in 1..(Len(a) - 1) : r[i] = a[1 + i]
          <6>1. Len(r) = (IF 1 <= Len(a) THEN Len(a) - 1 ELSE 0) /\ \A i \in 1..(Len(a) - 1) : r[i] = a[1 + i]
            BY <2>1, RestFacts
          <6>2. QED BY <1>0, <3>2, <6>1
        <5>2. PICK x : x = <<d>> \o r
          OBVIOUS
        <5>3. x \in Strings /\ Len(x) = 1 + Len(r) /\ x[1] = d /\ \A i \in 1..Len(r) : x[1 + i] = r[i]
          <6>1. 1 \in 1..1
            OBVIOUS
          <6>2. QED BY <2>4, <2>6, <5>2, <6>1, Joins
        <5>4. ASSUME NEW i \in 1..Len(a) PROVE a[i] = x[i]
          <6>1. CASE i = 1
            BY <1>0, <2>1, <3>2, <5>3, <6>1
          <6>2. CASE i # 1
            <7>1. PICK j : j = i - 1
              OBVIOUS
            <7>2. j \in 1..(Len(a) - 1) /\ j \in 1..Len(r) /\ 1 + j = i
              BY <1>0, <5>1, <6>2, <7>1
            <7>3. x[1 + j] = r[j] /\ r[j] = a[1 + j]
              BY <5>1, <5>3, <7>2
            <7>4. QED BY <7>2, <7>3
          <6>3. QED BY <6>1, <6>2
        <5>5. Len(a) = Len(x)
          BY <1>0, <5>1, <5>3
        <5>6. QED BY <1>0, <5>2, <5>3, <5>4, <5>5, StringsEqual
      <4>2. QED BY <2>2, <2>4, <2>5, <2>6, <4>1, SameStart
    <3>3. QED BY <1>0, <3>1, <3>2
  <2>11. QED BY <2>3, <2>8, <2>9, <2>10
<1>7. QED BY <1>4, <1>5, <1>6

\* Where two strings in order part, the upper one has the greater digit.
LEMMA Grows ==
  ASSUME NEW a \in Seq(Digits), NEW b \in Seq(Digits), Before(a, b), b[Len(b)] # 0, NEW n, IsCommon(a, b, n)
  PROVE  n < Len(b) /\ b[n + 1] > DigitAt(a, n + 1)
PROOF
<1>0. /\ Len(a) \in Nat /\ Len(b) \in Nat /\ a \in Strings /\ b \in Strings
      /\ \A i \in 1..Len(a) : DigitAt(a, i) = a[i]
      /\ \A i \in Nat : i > Len(a) => DigitAt(a, i) = 0
      /\ \A i \in 1..Len(b) : b[i] \in Digits
  BY DigitFacts
<1>1. /\ n \in Nat /\ n <= Len(b) /\ (\A i \in 1..n : DigitAt(a, i) = b[i])
      /\ n < Len(b) => DigitAt(a, n + 1) # b[n + 1]
  BY <1>0 DEF IsCommon
<1>2. PICK k \in Nat : Parts(a, b, k)
  BY <1>0, PartsBefore
<1>3. k < Len(b) /\ k <= Len(a) /\ (\A i \in 1..k : a[i] = b[i]) /\ (k < Len(a) => a[k + 1] < b[k + 1])
  BY <1>2 DEF Parts
<1>4. ASSUME k < n PROVE k = Len(a)
  <2>1. SUFFICES ASSUME k < Len(a) PROVE FALSE
    BY <1>0, <1>3
  <2>2. k + 1 \in 1..n /\ k + 1 \in 1..Len(a) /\ k + 1 \in 1..Len(b)
    BY <1>0, <1>1, <1>3, <1>4, <2>1
  <2>3. DigitAt(a, k + 1) = b[k + 1] /\ DigitAt(a, k + 1) = a[k + 1]
    BY <1>0, <1>1, <2>2
  <2>4. b[k + 1] \in Int
    BY <1>0, <2>2, StringFacts
  <2>5. a[k + 1] < b[k + 1]
    BY <1>3, <2>1
  <2>6. QED BY <2>3, <2>4, <2>5
<1>5. n < Len(b)
  <2>1. SUFFICES ASSUME n = Len(b) PROVE FALSE
    BY <1>0, <1>1
  <2>2. k = Len(a)
    BY <1>3, <1>4, <2>1
  <2>3. Len(b) \in 1..n /\ Len(b) \in Nat /\ Len(b) > Len(a)
    BY <1>0, <1>3, <2>1, <2>2
  <2>4. QED BY <1>0, <1>1, <2>3
<1>6. n + 1 \in 1..Len(b) /\ b[n + 1] \in Digits /\ b[n + 1] # DigitAt(a, n + 1)
  <2>1. n + 1 \in 1..Len(b)
    BY <1>0, <1>1, <1>5
  <2>2. QED BY <1>0, <1>1, <1>5, <2>1
<1>7. b[n + 1] \in Int /\ b[n + 1] >= 0
  BY <1>6, Constants DEF Digits
<1>8. CASE (k < n) \/ (k = n /\ k = Len(a))
  <2>1. n + 1 > Len(a) /\ n + 1 \in Nat
    BY <1>0, <1>1, <1>4, <1>8
  <2>2. DigitAt(a, n + 1) = 0
    BY <1>0, <2>1
  <2>3. QED BY <1>5, <1>6, <1>7, <2>2
<1>9. CASE k = n /\ k # Len(a)
  <2>1. k < Len(a) /\ n + 1 \in 1..Len(a)
    BY <1>0, <1>3, <1>9
  <2>2. a[n + 1] < b[n + 1] /\ DigitAt(a, n + 1) = a[n + 1] /\ a[n + 1] \in Int
    <3>1. a[n + 1] \in Int /\ DigitAt(a, n + 1) = a[n + 1]
      BY <1>0, <2>1, StringFacts
    <3>2. QED BY <1>3, <1>9, <2>1, <3>1
  <2>3. QED BY <1>5, <1>7, <2>2
<1>10. CASE k > n
  <2>1. n + 1 \in 1..k /\ n + 1 \in 1..Len(a)
    BY <1>0, <1>1, <1>3, <1>10
  <2>2. a[n + 1] = b[n + 1] /\ DigitAt(a, n + 1) = a[n + 1]
    BY <1>0, <1>3, <2>1
  <2>3. QED BY <1>6, <2>2
<1>11. k < n \/ k = n \/ k > n
  BY <1>1
<1>12. n < Len(b) /\ b[n + 1] > DigitAt(a, n + 1)
  BY <1>8, <1>9, <1>10, <1>11
<1>13. QED BY <1>12

LEMMA StartAndRest ==
  ASSUME NEW a \in Strings, NEW n \in 0..Len(a)
  PROVE  /\ SubSeq(a, 1, n) \in Strings /\ Len(SubSeq(a, 1, n)) = n /\ (\A i \in 1..n : SubSeq(a, 1, n)[i] = a[i])
         /\ Rest(a, n) \in Strings /\ Len(Rest(a, n)) = Len(a) - n /\ (\A i \in 1..(Len(a) - n) : Rest(a, n)[i] = a[n + i])
         /\ a = SubSeq(a, 1, n) \o Rest(a, n)
PROOF
<1>0. Len(a) \in Nat
  BY StringFacts
<1>1. PICK p : p = SubSeq(a, 1, n)
  OBVIOUS
<1>2. PICK r : r = Rest(a, n)
  OBVIOUS
<1>3. p \in Strings /\ Len(p) = n /\ \A i \in 1..n : p[i] = a[i]
  <2>1. 1 \in 1..(Len(a) + 1) /\ n \in (1 - 1)..Len(a)
    BY <1>0
  <2>2. p \in Strings /\ Len(p) = n - 1 + 1 /\ \A i \in 1..(n - 1 + 1) : p[i] = a[1 + i - 1]
    BY <1>1, <2>1, Cuts
  <2>3. n - 1 + 1 = n /\ \A i \in 1..n : i \in 1..(n - 1 + 1) /\ 1 + i - 1 = i
    BY <1>0
  <2>4. QED BY <2>2, <2>3
<1>4. r \in Strings /\ Len(r) = Len(a) - n /\ \A i \in 1..(Len(a) - n) : r[i] = a[n + i]
  <2>1. n + 1 \in 1..(Len(a) + 1) /\ Len(a) \in (n + 1 - 1)..Len(a)
    BY <1>0
  <2>2. r \in Strings /\ Len(r) = Len(a) - (n + 1) + 1 /\ \A i \in 1..(Len(a) - (n + 1) + 1) : r[i] = a[n + 1 + i - 1]
    BY <1>2, <2>1, Cuts DEF Rest
  <2>3. /\ Len(a) - (n + 1) + 1 = Len(a) - n
        /\ \A i \in 1..(Len(a) - n) : i \in 1..(Len(a) - (n + 1) + 1) /\ n + 1 + i - 1 = n + i
    BY <1>0
  <2>4. QED BY <2>2, <2>3
<1>5. PICK x : x = p \o r
  OBVIOUS
<1>6. /\ x \in Strings /\ Len(x) = n + Len(r) /\ (\A i \in 1..n : x[i] = p[i])
      /\ \A i \in 1..Len(r) : x[n + i] = r[i]
  BY <1>3, <1>4, <1>5, Joins
<1>7. ASSUME NEW i \in 1..Len(a) PROVE a[i] = x[i]
  <2>1. CASE i <= n
    <3>1. i \in 1..n
      BY <1>0, <2>1
    <3>2. QED BY <1>3, <1>6, <3>1
  <2>2. CASE ~(i <= n)
    <3>1. PICK j : j = i - n
      OBVIOUS
    <3>2. j \in 1..(Len(a) - n) /\ j \in 1..Len(r) /\ n + j = i
      BY <1>0, <1>4, <2>2, <3>1
    <3>3. x[n + j] = r[j] /\ r[j] = a[n + j]
      BY <1>4, <1>6, <3>2
    <3>4. QED BY <3>2, <3>3
  <2>3. QED BY <2>1, <2>2
<1>8. Len(a) = Len(x)
  BY <1>0, <1>4, <1>6
<1>9. a = x
  BY <1>6, <1>7, <1>8, StringsEqual
<1>10. QED BY <1>1, <1>2, <1>3, <1>4, <1>5, <1>9

LEMMA MidBetween ==
  ASSUME NEW a \in Seq(Digits), NEW b \in Seq(Digits), Before(a, b), LastNot0(b)
  PROVE  /\ midpoint[<<a, b>>] \in Seq(Digits) /\ midpoint[<<a, b>>] \in Strings
         /\ LastNot0(midpoint[<<a, b>>])
         /\ Before(a, midpoint[<<a, b>>]) /\ Before(midpoint[<<a, b>>], b)
PROOF
<1>0. Len(a) \in Nat /\ Len(b) \in Nat /\ a \in Strings /\ b \in Strings
  BY DigitFacts
<1>1. b # None /\ b[Len(b)] # 0 /\ Len(b) >= 1
  BY DigitsNonEmpty DEF LastNot0
<1>2. PICK n : n = Common(a, b)
  OBVIOUS
<1>3. IsCommon(a, b, n) /\ n = Shared(a, b)
  BY <1>1, <1>2, CommonFacts DEF Shared
<1>4. n \in Nat /\ n \in 0..Len(b) /\ n < Len(b) /\ (\A i \in 1..n : DigitAt(a, i) = b[i]) /\ b[n + 1] > DigitAt(a, n + 1)
  <2>1. n \in 0..Len(b) /\ \A i \in 1..n : DigitAt(a, i) = b[i]
    BY <1>3 DEF IsCommon
  <2>2. n < Len(b) /\ b[n + 1] > DigitAt(a, n + 1)
    BY <1>1, <1>3, Grows
  <2>3. QED BY <1>0, <2>1, <2>2
<1>5. PICK p, r, q : p = SubSeq(b, 1, n) /\ r = Rest(a, n) /\ q = Rest(b, n)
  OBVIOUS
<1>6. p \in Strings /\ p \in Seq(Digits) /\ Len(p) = n /\ (\A i \in 1..n : p[i] = b[i]) /\ b = p \o q /\ q \in Strings
  BY <1>0, <1>4, <1>5, StartAndRest, StartDigits
<1>7. r \in Seq(Digits) /\ q \in Seq(Digits) /\ DigitAt(r, 1) = DigitAt(a, n + 1) /\ Len(q) = Len(b) - n /\ q[1] = b[n + 1]
  <2>1. 1 \in Nat \ {0} /\ 1 \in 1..(Len(b) - n)
    BY <1>0, <1>4
  <2>2. r \in Seq(Digits) /\ DigitAt(r, 1) = DigitAt(a, n + 1)
    BY <1>4, <1>5, <2>1, RestFacts
  <2>3. q \in Seq(Digits) /\ q[1] = b[n + 1]
    BY <1>4, <1>5, <2>1, RestFacts
  <2>4. Len(q) = Len(b) - n
    BY <1>0, <1>4, <1>5, StartAndRest
  <2>5. QED BY <2>2, <2>3, <2>4
<1>8. q # None
  BY <1>0, <1>4, <1>7, NoneDigits
<1>9. PICK m : m = Parted(r, q)
  OBVIOUS
<1>10. m \in Seq(Digits) /\ m \in Strings /\ LastNot0(m) /\ Before(r, m) /\ Before(m, q)
  <2>1. q[1] > DigitAt(r, 1)
    BY <1>4, <1>7
  <2>2. m \in Seq(Digits)
    BY <1>7, <1>9, PartedFacts
  <2>3. LastNot0(m) /\ Before(r, m) /\ Before(m, q)
    BY <1>7, <1>8, <1>9, <2>1, PartedBetween
  <2>4. QED BY <2>2, <2>3, DigitsAreStrings
<1>11. PICK x : x = p \o m
  OBVIOUS
<1>12. midpoint[<<a, b>>] = x
  BY <1>3, <1>5, <1>9, <1>11, MidpointIs DEF Mid
<1>13. x \in Strings /\ x \in Seq(Digits) /\ Len(x) = n + Len(m) /\ (\A i \in 1..n : x[i] = p[i]) /\ x[n + Len(m)] = m[Len(m)]
  <2>1. x \in Seq(Digits)
    BY <1>6, <1>10, <1>11, ConcatProperties
  <2>2. Len(m) \in 1..Len(m)
    BY <1>10, StringFacts DEF LastNot0
  <2>3. QED BY <1>6, <1>10, <1>11, <2>1, <2>2, Joins
<1>14. LastNot0(x)
  <2>1. Len(m) \in Nat /\ Len(m) >= 1 /\ m[Len(m)] # 0
    BY <1>10, StringFacts DEF LastNot0
  <2>2. QED BY <1>4, <1>13, <2>1 DEF LastNot0
<1>15. Before(x, b)
  BY <1>6, <1>10, <1>11, SameStart
<1>16. Before(a, x)
  <2>1. CASE n <= Len(a)
    <3>1. n \in 0..Len(a)
      BY <1>0, <1>4, <2>1
    <3>2. PICK s : s = SubSeq(a, 1, n)
      OBVIOUS
    <3>3. s \in Strings /\ Len(s) = n /\ (\A i \in 1..n : s[i] = a[i]) /\ a = s \o r /\ r \in Strings
      BY <1>0, <1>5, <3>1, <3>2, StartAndRest
    <3>4. \A i \in 1..n : a[i] = b[i]
      <4>1. \A i \in 1..n : i \in 1..Len(a)
        BY <1>0, <2>1, <3>1
      <4>2. \A i \in 1..Len(a) : DigitAt(a, i) = a[i]
        BY DigitFacts
      <4>3. QED BY <1>4, <4>1, <4>2
    <3>5. s = p
      BY <1>6, <3>3, <3>4, StringsEqual
    <3>6. QED BY <1>10, <1>11, <3>3, <3>5, SameStart
  <2>2. CASE ~(n <= Len(a))
    <3>1. \A i \in 1..Len(a) : a[i] = x[i]
      <4>1. \A i \in 1..Len(a) : i \in 1..n
        BY <1>0, <1>4, <2>2
      <4>2. \A i \in 1..Len(a) : DigitAt(a, i) = a[i]
        BY DigitFacts
      <4>3. QED BY <1>4, <1>6, <1>13, <4>1, <4>2
    <3>2. Len(a) < Len(x)
      <4>1. Len(m) \in Nat
        BY <1>10, StringFacts
      <4>2. QED BY <1>0, <1>4, <1>13, <2>2, <4>1
    <3>3. Parts(a, x, Len(a))
      BY <1>0, <3>1, <3>2 DEF Parts
    <3>4. QED BY <1>0, <1>13, <3>3, PartsBefore
  <2>3. QED BY <2>1, <2>2
<1>17. QED BY <1>12, <1>13, <1>14, <1>15, <1>16

-----------------------------------------------------------------------------
(* Keys: a head, as many digits as it says, and a fraction that does not    *)
(* end in a zero.                                                           *)

HeadSet == (-Heads)..(Heads - 1)

IsInt(x) ==
  /\ x \in Strings /\ Len(x) >= 2 /\ x[1] \in HeadSet /\ Len(x) = getIntLen(x[1])
  /\ \A i \in 2..Len(x) : x[i] \in Digits

IsKey(k) ==
  /\ k \in Strings /\ Len(k) >= 2 /\ k[1] \in HeadSet /\ getIntLen(k[1]) <= Len(k)
  /\ \A i \in 2..Len(k) : k[i] \in Digits
  /\ getIntLen(k[1]) < Len(k) => k[Len(k)] # 0

LEMMA HeadLength ==
  ASSUME NEW h \in HeadSet
  PROVE  h \in Int /\ getIntLen(h) \in Nat /\ getIntLen(h) >= 2
PROOF
<1>1. h \in Int
  BY Constants DEF HeadSet
<1>2. CASE h >= 0
  BY <1>1, <1>2 DEF getIntLen
<1>3. CASE ~(h >= 0)
  BY <1>1, <1>3 DEF getIntLen
<1>4. QED BY <1>1, <1>2, <1>3

LEMMA KeyParts ==
  ASSUME NEW k, IsKey(k)
  PROVE  /\ IsInt(getIntPart(k)) /\ getIntPart(k)[1] = k[1]
         /\ Fraction(k) \in Seq(Digits) /\ Fraction(k) \in Strings /\ (Fraction(k) # None => LastNot0(Fraction(k)))
         /\ k = getIntPart(k) \o Fraction(k)
         /\ validateOrderKey(k) <=> k # smallestInt
         /\ k # None /\ k # Failed
PROOF
<1>0. /\ k \in Strings /\ Len(k) \in Nat /\ Len(k) >= 2 /\ k[1] \in HeadSet /\ getIntLen(k[1]) <= Len(k)
      /\ \A i \in 2..Len(k) : k[i] \in Digits
      /\ getIntLen(k[1]) < Len(k) => k[Len(k)] # 0
  BY StringFacts DEF IsKey
<1>1. PICK n \in Nat : n = getIntLen(k[1]) /\ n >= 2
  BY <1>0, HeadLength
<1>2. n \in 0..Len(k)
  BY <1>0, <1>1
<1>3. PICK x, f : x = SubSeq(k, 1, n) /\ f = Rest(k, n)
  OBVIOUS
<1>4. /\ x \in Strings /\ Len(x) = n /\ (\A i \in 1..n : x[i] = k[i])
      /\ f \in Strings /\ Len(f) = Len(k) - n /\ (\A i \in 1..(Len(k) - n) : f[i] = k[n + i])
      /\ k = x \o f
  BY <1>0, <1>2, <1>3, StartAndRest
<1>5. getIntPart(k) = x /\ Fraction(k) = f
  <2>1. ~(n > Len(k))
    BY <1>0, <1>1
  <2>2. QED BY <1>1, <1>3, <2>1 DEF getIntPart, Fraction, Rest
<1>6. IsInt(x) /\ x[1] = k[1]
  <2>1. 1 \in 1..n
    BY <1>1
  <2>2. x[1] = k[1]
    BY <1>4, <2>1
  <2>3. \A i \in 2..n : i \in 1..n /\ i \in 2..Len(k)
    BY <1>0, <1>1
  <2>4. \A i \in 2..n : x[i] \in Digits
    BY <1>0, <1>4, <2>3
  <2>5. QED BY <1>0, <1>1, <1>4, <2>2, <2>4 DEF IsInt
<1>7. f \in Seq(Digits)
  <2>1. \A i \in 1..Len(f) : i \in 1..(Len(k) - n) /\ n + i \in 2..Len(k)
    BY <1>0, <1>1, <1>4
  <2>2. \A i \in 1..Len(f) : f[i] \in Digits
    BY <1>0, <1>4, <2>1
  <2>3. QED BY <1>4, <2>2, DigitStrings
<1>8. ASSUME f # None PROVE LastNot0(f) /\ k[Len(k)] # 0
  <2>1. Len(f) # 0 /\ Len(f) \in Nat
    BY <1>4, <1>8, Nothing, StringFacts
  <2>2. Len(f) \in 1..(Len(k) - n) /\ n + Len(f) = Len(k) /\ n < Len(k)
    BY <1>0, <1>1, <1>4, <2>1
  <2>3. f[Len(f)] = k[Len(k)]
    BY <1>4, <2>2
  <2>4. QED BY <1>0, <1>1, <2>1, <2>2, <2>3 DEF LastNot0
<1>9. x # Failed /\ k # None /\ k # Failed
  <2>1. Len(Failed) = 1
    BY DEF Failed
  <2>2. QED BY <1>0, <1>1, <1>4, <2>1, Nothing
<1>10. validateOrderKey(k) <=> k # smallestInt
  <2>1. Last(k) = k[Len(k)]
    BY DEF Last
  <2>2. validateOrderKey(k) <=> (k # smallestInt /\ x # Failed /\ (f # None => k[Len(k)] # 0))
    BY <1>5, <2>1 DEF validateOrderKey, None
  <2>3. QED BY <1>8, <1>9, <2>2
<1>11. QED BY <1>4, <1>5, <1>6, <1>7, <1>8, <1>9, <1>10

LEMMA KeyMade ==
  ASSUME NEW x, IsInt(x), NEW f \in Seq(Digits), f # None => LastNot0(f)
  PROVE  IsKey(x \o f)
PROOF
<1>0. /\ x \in Strings /\ Len(x) \in Nat /\ Len(x) >= 2 /\ x[1] \in HeadSet /\ Len(x) = getIntLen(x[1])
      /\ \A i \in 2..Len(x) : x[i] \in Digits
  BY StringFacts DEF IsInt
<1>1. f \in Strings /\ Len(f) \in Nat /\ \A i \in 1..Len(f) : f[i] \in Digits
  BY DigitFacts
<1>2. PICK k : k = x \o f
  OBVIOUS
<1>3. /\ k \in Strings /\ Len(k) = Len(x) + Len(f) /\ (\A i \in 1..Len(x) : k[i] = x[i])
      /\ \A i \in 1..Len(f) : k[Len(x) + i] = f[i]
  BY <1>0, <1>1, <1>2, Joins
<1>4. k[1] = x[1]
  <2>1. 1 \in 1..Len(x)
    BY <1>0
  <2>2. QED BY <1>3, <2>1
<1>5. ASSUME NEW i \in 2..Len(k) PROVE k[i] \in Digits
  <2>1. CASE i <= Len(x)
    <3>1. i \in 1..Len(x) /\ i \in 2..Len(x)
      BY <1>0, <2>1
    <3>2. QED BY <1>0, <1>3, <3>1
  <2>2. CASE ~(i <= Len(x))
    <3>1. PICK j : j = i - Len(x)
      OBVIOUS
    <3>2. j \in 1..Len(f) /\ Len(x) + j = i
      BY <1>0, <1>1, <1>3, <2>2, <3>1
    <3>3. k[Len(x) + j] = f[j]
      BY <1>3, <3>2
    <3>4. QED BY <1>1, <3>2, <3>3
  <2>3. QED BY <2>1, <2>2
<1>6. ASSUME getIntLen(k[1]) < Len(k) PROVE k[Len(k)] # 0
  <2>1. Len(f) # 0
    BY <1>0, <1>1, <1>3, <1>4, <1>6
  <2>2. f[Len(f)] # 0
    BY <2>1, NoneDigits DEF LastNot0
  <2>3. Len(f) \in 1..Len(f)
    BY <1>1, <2>1
  <2>4. QED BY <1>3, <2>2, <2>3
<1>7. Len(k) >= 2 /\ getIntLen(k[1]) <= Len(k) /\ k[1] \in HeadSet
  BY <1>0, <1>1, <1>3, <1>4
<1>8. IsKey(k)
  BY <1>3, <1>5, <1>6, <1>7 DEF IsKey
<1>9. QED BY <1>2, <1>8

LEMMA IntIsKey ==
  ASSUME NEW x, IsInt(x)
  PROVE  IsKey(x) /\ x \in Strings
PROOF
<1>1. x \in Strings /\ Len(x) \in Nat /\ Len(x) = getIntLen(x[1])
  BY StringFacts DEF IsInt
<1>2. ~(Len(x) < Len(x)) /\ Len(x) <= Len(x)
  BY <1>1
<1>3. QED BY <1>1, <1>2 DEF IsInt, IsKey

LEMMA SmallestFacts ==
  /\ IsInt(smallestInt) /\ smallestInt[1] = -Heads
  /\ \A i \in 2..Len(smallestInt) : smallestInt[i] = 0
PROOF
<1>1. PICK z : z = [i \in 1..Heads |-> 0]
  OBVIOUS
<1>2. z \in Strings /\ Len(z) = Heads /\ \A i \in 1..Heads : z[i] = 0
  <2>1. z \in [1..Heads -> Int]
    BY <1>1
  <2>2. z \in Seq(Int) /\ Len(z) = Heads
    BY <1>1, <2>1, Constants
  <2>3. QED BY <1>1, <2>2 DEF Strings
<1>3. /\ <<-Heads>> \in Strings /\ Len(<<-Heads>>) = 1 /\ <<-Heads>>[1] = -Heads
  BY Constants, One
<1>4. /\ smallestInt \in Strings /\ Len(smallestInt) = 1 + Heads /\ smallestInt[1] = -Heads
      /\ \A i \in 1..Heads : smallestInt[1 + i] = z[i]
  <2>1. smallestInt = <<-Heads>> \o z
    BY <1>1 DEF smallestInt
  <2>2. 1 \in 1..1
    OBVIOUS
  <2>3. QED BY <1>2, <1>3, <2>1, <2>2, Joins
<1>5. ASSUME NEW i \in 2..Len(smallestInt) PROVE smallestInt[i] = 0
  <2>1. PICK j : j = i - 1
    OBVIOUS
  <2>2. j \in 1..Heads /\ 1 + j = i
    BY <1>4, <2>1, Constants
  <2>3. QED BY <1>2, <1>4, <2>2
<1>6. 0 \in Digits /\ -Heads \in HeadSet /\ getIntLen(-Heads) = 1 + Heads
  BY Constants DEF Digits, HeadSet, getIntLen
<1>7. Len(smallestInt) >= 2
  BY <1>4, Constants
<1>8. \A i \in 2..Len(smallestInt) : smallestInt[i] \in Digits
  BY <1>5, <1>6
<1>9. IsInt(smallestInt)
  BY <1>4, <1>6, <1>7, <1>8 DEF IsInt
<1>10. QED BY <1>4, <1>5, <1>9

LEMMA LastOther ==
  ASSUME NEW s \in Strings, NEW v
  PROVE  \/ \A i \in 1..Len(s) : s[i] = v
         \/ \E p \in 1..Len(s) : s[p] # v /\ \A j \in (p + 1)..Len(s) : s[j] = v
PROOF
<1>0. Len(s) \in Nat
  BY StringFacts
<1>1. SUFFICES ASSUME NEW i \in 1..Len(s), s[i] # v
               PROVE  \E p \in 1..Len(s) : s[p] # v /\ \A j \in (p + 1)..Len(s) : s[j] = v
  OBVIOUS
<1>2. PICK T : T = {m \in Nat : m < Len(s) /\ s[Len(s) - m] # v}
  OBVIOUS
<1>3. PICK k \in T : \A m \in T : ~(m < k)
  <2>1. Len(s) - i \in Nat /\ Len(s) - i < Len(s) /\ Len(s) - (Len(s) - i) = i
    BY <1>0
  <2>2. Len(s) - i \in T
    BY <1>1, <1>2, <2>1
  <2>3. T \subseteq Nat /\ T # {}
    BY <1>2, <2>2
  <2>4. QED BY <2>3, LeastNumber
<1>4. k \in Nat /\ k < Len(s) /\ s[Len(s) - k] # v
  BY <1>2
<1>5. PICK p : p = Len(s) - k
  OBVIOUS
<1>6. p \in 1..Len(s) /\ s[p] # v
  BY <1>0, <1>4, <1>5
<1>7. ASSUME NEW j \in (p + 1)..Len(s) PROVE s[j] = v
  <2>1. PICK m : m = Len(s) - j
    OBVIOUS
  <2>2. m \in Nat /\ m < k /\ m < Len(s) /\ Len(s) - m = j
    BY <1>0, <1>4, <1>5, <2>1
  <2>3. m \notin T
    BY <1>3, <2>2
  <2>4. QED BY <1>2, <2>2, <2>3
<1>8. QED BY <1>6, <1>7

LEMMA TailFacts ==
  ASSUME NEW x \in Strings, Len(x) >= 2
  PROVE  /\ Tail(x) \in Strings /\ Len(Tail(x)) = Len(x) - 1 /\ DOMAIN Tail(x) = 1..(Len(x) - 1)
         /\ \A i \in 1..(Len(x) - 1) : Tail(x)[i] = x[i + 1]
PROOF
<1>1. x # << >>
  BY Nothing DEF None
<1>2. Tail(x) \in Strings /\ Len(Tail(x)) = Len(x) - 1 /\ \A i \in 1..Len(Tail(x)) : Tail(x)[i] = x[i + 1]
  BY <1>1, HeadTailProperties DEF Strings
<1>3. QED BY <1>2, StringFacts

\* A head followed by given digits.
LEMMA Headed ==
  ASSUME NEW h \in Int, NEW n \in Nat, NEW d \in [1..n -> Int]
  PROVE  /\ <<h>> \o d \in Strings /\ Len(<<h>> \o d) = n + 1 /\ (<<h>> \o d)[1] = h
         /\ \A i \in 2..(n + 1) : (<<h>> \o d)[i] = d[i - 1]
PROOF
<1>1. d \in Strings /\ Len(d) = n
  BY DEF Strings
<1>2. <<h>> \in Strings /\ Len(<<h>>) = 1 /\ <<h>>[1] = h
  BY One
<1>3. PICK s : s = <<h>> \o d
  OBVIOUS
<1>4. s \in Strings /\ Len(s) = 1 + n /\ s[1] = h /\ \A i \in 1..n : s[1 + i] = d[i]
  <2>1. 1 \in 1..1
    OBVIOUS
  <2>2. QED BY <1>1, <1>2, <1>3, <2>1, Joins
<1>5. ASSUME NEW i \in 2..(n + 1) PROVE s[i] = d[i - 1]
  <2>1. i - 1 \in 1..n /\ 1 + (i - 1) = i
    OBVIOUS
  <2>2. s[1 + (i - 1)] = d[i - 1]
    BY <1>4, <2>1
  <2>3. QED BY <2>1, <2>2
<1>6. QED BY <1>3, <1>4, <1>5

LEMMA CarriedIs ==
  ASSUME NEW h \in Int, h # -1, NEW n \in Nat, n = getIntLen(h), n >= 2, NEW d, d = [i \in 1..(n - 1) |-> 0]
  PROVE  /\ Carried(h + 1, d) \in Strings /\ Len(Carried(h + 1, d)) = getIntLen(h + 1)
         /\ Carried(h + 1, d)[1] = h + 1
         /\ \A i \in 2..getIntLen(h + 1) : Carried(h + 1, d)[i] = 0
PROOF
<1>1. PICK m : m = n - 1
  OBVIOUS
<1>2. m \in Nat /\ m >= 1 /\ d = [i \in 1..m |-> 0]
  BY <1>1
<1>3. d \in Seq(Int) /\ Len(d) = m /\ \A i \in 1..m : d[i] = 0
  <2>1. d \in [1..m -> Int]
    BY <1>2
  <2>2. QED BY <1>2, <2>1
<1>4. CASE h + 1 > 0
  <2>1. PICK e : e = Append(d, 0)
    OBVIOUS
  <2>2. e \in Seq(Int) /\ Len(e) = m + 1 /\ \A i \in 1..(m + 1) : e[i] = 0
    BY <1>2, <1>3, <2>1, AppendProperties
  <2>3. e \in [1..(m + 1) -> Int]
    BY <2>2, LenProperties
  <2>4. Carried(h + 1, d) = <<h + 1>> \o e
    BY <1>4, <2>1 DEF Carried
  <2>5. getIntLen(h + 1) = m + 1 + 1
    BY <1>1, <1>4 DEF getIntLen
  <2>6. PICK c : c = <<h + 1>> \o e
    OBVIOUS
  <2>7. c \in Strings /\ Len(c) = m + 1 + 1 /\ c[1] = h + 1 /\ \A i \in 2..(m + 1 + 1) : c[i] = e[i - 1]
    <3>1. PICK g, size : g = h + 1 /\ size = m + 1
      OBVIOUS
    <3>2. g \in Int /\ size \in Nat /\ e \in [1..size -> Int] /\ c = <<g>> \o e
      BY <1>2, <2>3, <2>6, <3>1
    <3>3. /\ <<g>> \o e \in Strings /\ Len(<<g>> \o e) = size + 1 /\ (<<g>> \o e)[1] = g
          /\ \A i \in 2..(size + 1) : (<<g>> \o e)[i] = e[i - 1]
      BY <3>2, Headed
    <3>4. QED BY <3>1, <3>2, <3>3
  <2>8. \A i \in 2..(m + 1 + 1) : i - 1 \in 1..(m + 1)
    BY <1>2
  <2>9. \A i \in 2..(m + 1 + 1) : c[i] = 0
    BY <2>2, <2>7, <2>8
  <2>10. QED BY <2>4, <2>5, <2>6, <2>7, <2>9
<1>5. CASE ~(h + 1 > 0)
  <2>0. h + 1 < 0 /\ getIntLen(h + 1) = m /\ m >= 2
    <3>1. h < -1
      BY <1>5
    <3>2. n = 1 - h
      BY <3>1 DEF getIntLen
    <3>3. QED BY <1>1, <3>1, <3>2 DEF getIntLen
  <2>1. PICK e : e = Tail(d)
    OBVIOUS
  <2>2. e \in Seq(Int) /\ Len(e) = m - 1 /\ \A i \in 1..(m - 1) : e[i] = 0
    <3>1. d # << >>
      BY <1>2, <1>3
    <3>2. e \in Seq(Int) /\ Len(e) = m - 1 /\ \A i \in 1..(m - 1) : e[i] = d[i + 1]
      BY <1>3, <2>1, <3>1, HeadTailProperties
    <3>3. \A i \in 1..(m - 1) : i + 1 \in 1..m
      BY <1>2
    <3>4. QED BY <1>3, <3>2, <3>3
  <2>3. e \in [1..(m - 1) -> Int]
    BY <2>2, LenProperties
  <2>4. Carried(h + 1, d) = <<h + 1>> \o e
    BY <1>5, <2>1 DEF Carried
  <2>6. PICK c : c = <<h + 1>> \o e
    OBVIOUS
  <2>7. c \in Strings /\ Len(c) = m /\ c[1] = h + 1 /\ \A i \in 2..m : c[i] = e[i - 1]
    <3>1. PICK k \in Nat : k = m - 1 /\ k + 1 = m
      BY <1>2
    <3>2. c \in Strings /\ Len(c) = k + 1 /\ c[1] = h + 1 /\ \A i \in 2..(k + 1) : c[i] = e[i - 1]
      <4>1. h + 1 \in Int /\ e \in [1..k -> Int]
        BY <2>3, <3>1
      <4>2. QED BY <2>6, <4>1, Headed
    <3>3. QED BY <3>1, <3>2
  <2>8. \A i \in 2..m : i - 1 \in 1..(m - 1)
    BY <1>2
  <2>9. \A i \in 2..m : c[i] = 0
    BY <2>2, <2>7, <2>8
  <2>10. QED BY <2>0, <2>4, <2>6, <2>7, <2>9
<1>6. QED BY <1>4, <1>5

\* The digit that grows, and the digits with it grown.
OpenUp(d) == {i \in DOMAIN d : d[i] # Base - 1 /\ \A j \in (i + 1)..Len(d) : d[j] = Base - 1}

Grown(d, p) == [i \in DOMAIN d |-> IF i < p THEN d[i] ELSE IF i = p THEN d[i] + 1 ELSE 0]

LEMMA IncrementUnfolds ==
  ASSUME NEW x
  PROVE  incrementInt(x) =
           IF OpenUp(Tail(x)) # {} THEN <<x[1]>> \o Grown(Tail(x), CHOOSE i \in OpenUp(Tail(x)) : TRUE)
           ELSE IF x[1] = -1 THEN <<0, 0>>
           ELSE IF x[1] = Heads - 1 THEN None ELSE Carried(x[1] + 1, [i \in DOMAIN Tail(x) |-> 0])
  BY DEF incrementInt, OpenUp, Grown

\* What incrementInt returns, by the digit that grows.
LEMMA IncrementIs ==
  ASSUME NEW x, IsInt(x)
  PROVE  \/ \E q \in 2..Len(x) :
               /\ x[q] # Base - 1 /\ \A j \in (q + 1)..Len(x) : x[j] = Base - 1
               /\ incrementInt(x) \in Strings /\ Len(incrementInt(x)) = Len(x)
               /\ \A j \in 1..Len(x) : incrementInt(x)[j] = IF j < q THEN x[j] ELSE IF j = q THEN x[q] + 1 ELSE 0
         \/ /\ \A j \in 2..Len(x) : x[j] = Base - 1
            /\ \/ x[1] = Heads - 1 /\ incrementInt(x) = None
               \/ /\ x[1] < Heads - 1 /\ incrementInt(x) \in Strings /\ Len(incrementInt(x)) = getIntLen(x[1] + 1)
                  /\ incrementInt(x)[1] = x[1] + 1 /\ \A j \in 2..getIntLen(x[1] + 1) : incrementInt(x)[j] = 0
PROOF
<1>0. /\ x \in Strings /\ Len(x) \in Nat /\ Len(x) >= 2 /\ x[1] \in HeadSet /\ Len(x) = getIntLen(x[1])
      /\ (\A i \in 2..Len(x) : x[i] \in Digits) /\ x[1] \in Int /\ \A i \in 1..Len(x) : x[i] \in Int
  BY StringFacts, HeadLength DEF IsInt
<1>1. PICK n, digs : n = Len(x) - 1 /\ digs = Tail(x)
  OBVIOUS
<1>2. n \in Nat /\ n >= 1 /\ Len(x) = n + 1
  BY <1>0, <1>1
<1>3. digs \in Strings /\ Len(digs) = n /\ DOMAIN digs = 1..n /\ \A i \in 1..n : digs[i] = x[i + 1]
  BY <1>0, <1>1, TailFacts
<1>4. PICK open : open = OpenUp(digs)
  OBVIOUS
<1>5. CASE open # {}
  <2>1. PICK p : p = CHOOSE i \in open : TRUE
    OBVIOUS
  <2>2. p \in open
    BY <1>5, <2>1
  <2>3. p \in 1..n /\ digs[p] # Base - 1 /\ \A j \in (p + 1)..n : digs[j] = Base - 1
    BY <1>3, <1>4, <2>2 DEF OpenUp
  <2>4. PICK d : d = Grown(digs, p)
    OBVIOUS
  <2>5. incrementInt(x) = <<x[1]>> \o d
    BY <1>1, <1>4, <1>5, <2>1, <2>4, IncrementUnfolds
  <2>6. d = [i \in 1..n |-> IF i < p THEN digs[i] ELSE IF i = p THEN digs[i] + 1 ELSE 0]
    BY <1>3, <2>4 DEF Grown
  <2>7. d \in [1..n -> Int]
    <3>1. \A i \in 1..n : digs[i] \in Int
      BY <1>3, StringFacts
    <3>2. QED BY <2>6, <3>1
  <2>8. PICK r : r = <<x[1]>> \o d
    OBVIOUS
  <2>9. r \in Strings /\ Len(r) = n + 1 /\ r[1] = x[1] /\ \A i \in 2..(n + 1) : r[i] = d[i - 1]
    BY <1>0, <1>2, <2>7, <2>8, Headed
  <2>10. PICK q : q = p + 1
    OBVIOUS
  <2>11. q \in 2..Len(x) /\ p = q - 1 /\ x[q] = digs[p]
    BY <1>2, <1>3, <2>3, <2>10
  <2>12. ASSUME NEW j \in (q + 1)..Len(x) PROVE x[j] = Base - 1
    <3>1. j - 1 \in (p + 1)..n /\ j - 1 \in 1..n /\ j - 1 + 1 = j
      BY <1>2, <2>3, <2>10
    <3>2. digs[j - 1] = x[j - 1 + 1] /\ digs[j - 1] = Base - 1
      BY <1>3, <2>3, <3>1
    <3>3. QED BY <3>1, <3>2
  <2>13. ASSUME NEW j \in 1..Len(x) PROVE r[j] = IF j < q THEN x[j] ELSE IF j = q THEN x[q] + 1 ELSE 0
    <3>1. CASE j = 1
      BY <2>9, <2>11, <3>1
    <3>2. CASE j # 1
      <4>1. j \in 2..(n + 1) /\ j - 1 \in 1..n /\ j - 1 + 1 = j
        BY <1>2, <3>2
      <4>2. r[j] = d[j - 1] /\ digs[j - 1] = x[j]
        BY <1>3, <2>9, <4>1
      <4>3. d[j - 1] = IF j - 1 < p THEN digs[j - 1] ELSE IF j - 1 = p THEN digs[j - 1] + 1 ELSE 0
        BY <2>6, <4>1
      <4>4. (j - 1 < p <=> j < q) /\ (j - 1 = p <=> j = q)
        BY <2>3, <2>10, <4>1
      <4>5. QED BY <4>2, <4>3, <4>4
    <3>3. QED BY <3>1, <3>2
  <2>14. x[q] # Base - 1
    BY <2>3, <2>11
  <2>15. PICK i : i = incrementInt(x)
    OBVIOUS
  <2>16. i = r
    BY <2>5, <2>8, <2>15
  <2>17. /\ i \in Strings /\ Len(i) = Len(x)
         /\ \A j \in 1..Len(x) : i[j] = IF j < q THEN x[j] ELSE IF j = q THEN x[q] + 1 ELSE 0
    BY <1>2, <2>9, <2>13, <2>16
  <2>18. QED BY <2>11, <2>12, <2>14, <2>15, <2>17
<1>6. CASE open = {}
  <2>1. \A i \in 1..n : digs[i] = Base - 1
    BY <1>3, <1>4, <1>6, LastOther DEF OpenUp
  <2>2. ASSUME NEW j \in 2..Len(x) PROVE x[j] = Base - 1
    <3>1. j - 1 \in 1..n /\ j - 1 + 1 = j
      BY <1>2
    <3>2. digs[j - 1] = x[j - 1 + 1]
      BY <1>3, <3>1
    <3>3. QED BY <2>1, <3>1, <3>2
  <2>3. PICK d : d = [i \in DOMAIN digs |-> 0]
    OBVIOUS
  <2>4. incrementInt(x) = IF x[1] = -1 THEN <<0, 0>>
                          ELSE IF x[1] = Heads - 1 THEN None ELSE Carried(x[1] + 1, d)
    BY <1>1, <1>4, <1>6, <2>3, IncrementUnfolds
  <2>5. CASE x[1] = -1
    <3>1. x[1] < Heads - 1 /\ getIntLen(x[1] + 1) = 2 /\ x[1] + 1 = 0
      BY <2>5, Constants DEF getIntLen
    <3>2. PICK z : z = <<0, 0>>
      OBVIOUS
    <3>3. z \in Strings /\ Len(z) = 2 /\ z[1] = 0 /\ z[2] = 0
      BY <3>2 DEF Strings
    <3>4. \A j \in 2..2 : z[j] = 0
      BY <3>3
    <3>5. incrementInt(x) = z
      BY <2>4, <2>5, <3>2
    <3>6. QED BY <2>2, <3>1, <3>3, <3>4, <3>5
  <2>6. CASE x[1] # -1 /\ x[1] = Heads - 1
    BY <2>2, <2>4, <2>6
  <2>7. CASE x[1] # -1 /\ x[1] # Heads - 1
    <3>1. x[1] < Heads - 1
      BY <1>0, <2>7, Constants DEF HeadSet
    <3>2. PICK c : c = Carried(x[1] + 1, d)
      OBVIOUS
    <3>3. incrementInt(x) = c
      BY <2>4, <2>7, <3>2
    <3>4. d = [i \in 1..(Len(x) - 1) |-> 0]
      BY <1>1, <1>3, <2>3
    <3>5. c \in Strings /\ Len(c) = getIntLen(x[1] + 1) /\ c[1] = x[1] + 1 /\ \A i \in 2..getIntLen(x[1] + 1) : c[i] = 0
      BY <1>0, <2>7, <3>2, <3>4, CarriedIs
    <3>6. QED BY <2>2, <3>1, <3>3, <3>5
  <2>8. QED BY <2>5, <2>6, <2>7
<1>7. QED BY <1>5, <1>6

LEMMA IntFacts ==
  ASSUME NEW x, IsInt(x)
  PROVE  /\ x \in Strings /\ Len(x) \in Nat /\ Len(x) >= 2 /\ x[1] \in HeadSet /\ Len(x) = getIntLen(x[1])
         /\ (\A i \in 2..Len(x) : x[i] \in Digits) /\ x[1] \in Int /\ \A i \in 1..Len(x) : x[i] \in Int
  BY StringFacts, HeadLength DEF IsInt

\* Of the integers with given first digits, the one that goes on with zeros is the least.
LEMMA ZerosLeast ==
  ASSUME NEW i, IsInt(i), NEW y, IsInt(y), NEW q \in 1..Len(i),
         \A j \in 1..q : i[j] = y[j], \A j \in (q + 1)..Len(i) : i[j] = 0
  PROVE  i = y \/ Lower(i, y)
PROOF
<1>0. /\ i \in Strings /\ Len(i) \in Nat /\ Len(i) = getIntLen(i[1])
      /\ y \in Strings /\ Len(y) \in Nat /\ Len(y) = getIntLen(y[1]) /\ \A j \in 2..Len(y) : y[j] \in Digits
  BY IntFacts
<1>1. 1 \in 1..q
  BY <1>0
<1>2. Len(i) = Len(y)
  BY <1>0, <1>1
<1>3. SUFFICES ASSUME i # y PROVE Lower(i, y)
  OBVIOUS
<1>4. PICK j \in 1..Len(i) : i[j] # y[j]
  BY <1>0, <1>2, <1>3, StringsEqual
<1>5. PICK T : T = {m \in Nat : m < Len(i) /\ i[m + 1] # y[m + 1]}
  OBVIOUS
<1>6. PICK k \in T : \A m \in T : ~(m < k)
  <2>1. j - 1 \in Nat /\ j - 1 < Len(i) /\ j - 1 + 1 = j
    BY <1>0
  <2>2. j - 1 \in T
    BY <1>4, <1>5, <2>1
  <2>3. T \subseteq Nat /\ T # {}
    BY <1>5, <2>2
  <2>4. QED BY <2>3, LeastNumber
<1>7. k \in Nat /\ k < Len(i) /\ i[k + 1] # y[k + 1]
  BY <1>5
<1>8. ASSUME NEW m \in 1..k PROVE i[m] = y[m]
  <2>1. m - 1 \in Nat /\ m - 1 < k /\ m - 1 < Len(i) /\ m - 1 + 1 = m
    BY <1>0, <1>7
  <2>2. m - 1 \notin T
    BY <1>6, <2>1
  <2>3. QED BY <1>5, <2>1, <2>2
<1>9. k >= q
  <2>1. SUFFICES ASSUME k < q PROVE FALSE
    BY <1>0, <1>7
  <2>2. k + 1 \in 1..q
    BY <1>0, <1>7, <2>1
  <2>3. QED BY <1>7, <2>2
<1>10. i[k + 1] = 0 /\ y[k + 1] \in Digits
  <2>1. k + 1 \in (q + 1)..Len(i) /\ k + 1 \in 2..Len(y)
    BY <1>0, <1>2, <1>7, <1>9
  <2>2. QED BY <1>0, <2>1
<1>11. i[k + 1] < y[k + 1]
  BY <1>7, <1>10, Constants DEF Digits
<1>12. QED BY <1>2, <1>7, <1>8, <1>11 DEF Lower

\* incrementInt gives the next integer, or none after the last one.
LEMMA IncrementFacts ==
  ASSUME NEW x, IsInt(x)
  PROVE  /\ incrementInt(x) = None \/ (IsInt(incrementInt(x)) /\ Lower(x, incrementInt(x)))
         /\ \A y : IsInt(y) /\ Lower(x, y) =>
                     incrementInt(x) # None /\ (incrementInt(x) = y \/ Lower(incrementInt(x), y))
PROOF
<1>0. /\ x \in Strings /\ Len(x) \in Nat /\ Len(x) >= 2 /\ x[1] \in HeadSet /\ Len(x) = getIntLen(x[1])
      /\ (\A i \in 2..Len(x) : x[i] \in Digits) /\ x[1] \in Int /\ \A i \in 1..Len(x) : x[i] \in Int
  BY IntFacts
<1>d. 0 \in Digits /\ \A d \in Digits : d \in Int /\ d <= Base - 1 /\ (d # Base - 1 => d + 1 \in Digits)
  BY Constants DEF Digits
<1>h. \A h \in HeadSet : h \in Int /\ h <= Heads - 1
  BY Constants DEF HeadSet
<1>1. PICK i : i = incrementInt(x)
  OBVIOUS
<1>2. ASSUME NEW q \in 2..Len(x), x[q] # Base - 1, \A j \in (q + 1)..Len(x) : x[j] = Base - 1,
             i \in Strings, Len(i) = Len(x),
             \A j \in 1..Len(x) : i[j] = IF j < q THEN x[j] ELSE IF j = q THEN x[q] + 1 ELSE 0
      PROVE  /\ IsInt(i) /\ Lower(x, i)
             /\ \A y : IsInt(y) /\ Lower(x, y) => i = y \/ Lower(i, y)
  <2>1. /\ \A j \in 1..(q - 1) : i[j] = x[j]
        /\ i[q] = x[q] + 1
        /\ \A j \in (q + 1)..Len(x) : i[j] = 0
    <3>1. \A j \in 1..(q - 1) : j \in 1..Len(x) /\ j < q
      BY <1>0
    <3>2. q \in 1..Len(x) /\ ~(q < q)
      BY <1>0
    <3>3. \A j \in (q + 1)..Len(x) : j \in 1..Len(x) /\ ~(j < q) /\ j # q
      BY <1>0
    <3>4. QED BY <1>2, <3>1, <3>2, <3>3
  <2>2. x[q] \in Digits /\ x[q] \in Int /\ x[q] + 1 \in Digits
    BY <1>0, <1>2, <1>d
  <2>3. i[1] = x[1]
    <3>1. 1 \in 1..(q - 1)
      BY <1>0
    <3>2. QED BY <2>1, <3>1
  <2>4. ASSUME NEW j \in 2..Len(i) PROVE i[j] \in Digits
    <3>1. CASE j < q
      <4>1. j \in 1..(q - 1) /\ j \in 2..Len(x)
        BY <1>0, <1>2, <3>1
      <4>2. QED BY <1>0, <2>1, <4>1
    <3>2. CASE j = q
      BY <2>1, <2>2, <3>2
    <3>3. CASE ~(j < q) /\ j # q
      <4>1. j \in (q + 1)..Len(x)
        BY <1>0, <1>2, <3>3
      <4>2. QED BY <2>1, <4>1, <1>d
    <3>4. QED BY <3>1, <3>2, <3>3
  <2>5. IsInt(i)
    BY <1>0, <1>2, <2>3, <2>4 DEF IsInt
  <2>6. PICK k \in Nat : k = q - 1 /\ k + 1 = q /\ k < Len(x)
    BY <1>0
  <2>7. Lower(x, i)
    <3>1. x[k + 1] < i[k + 1]
      BY <2>1, <2>2, <2>6
    <3>2. \A j \in 1..k : x[j] = i[j]
      BY <2>1, <2>6
    <3>3. QED BY <1>2, <2>6, <3>1, <3>2 DEF Lower
  <2>8. ASSUME NEW y, IsInt(y), Lower(x, y) PROVE i = y \/ Lower(i, y)
    <3>1. PICK n \in Nat : n < Len(x) /\ n < Len(y) /\ x[n + 1] < y[n + 1] /\ \A j \in 1..n : x[j] = y[j]
      BY <2>8 DEF Lower
    <3>2. y \in Strings /\ Len(y) \in Nat /\ (\A j \in 2..Len(y) : y[j] \in Digits) /\ \A j \in 1..Len(y) : y[j] \in Int
      BY <2>8, IntFacts
    <3>3. CASE n < k
      <4>1. n + 1 \in 1..(q - 1) /\ \A j \in 1..n : j \in 1..(q - 1)
        BY <1>0, <2>6, <3>3
      <4>2. i[n + 1] < y[n + 1] /\ \A j \in 1..n : i[j] = y[j]
        BY <2>1, <3>1, <4>1
      <4>3. QED BY <1>2, <3>1, <4>2 DEF Lower
    <3>4. CASE n = k
      <4>0. \A j \in 1..n : i[j] = y[j]
        BY <2>1, <2>6, <3>1, <3>4
      <4>1. y[q] \in Int /\ x[q] < y[q] /\ n + 1 = q
        <5>1. q \in 1..Len(y)
          BY <2>6, <3>1, <3>2, <3>4
        <5>2. QED BY <2>6, <3>1, <3>2, <3>4, <5>1
      <4>2. CASE i[q] < y[q]
        <5>1. i[n + 1] < y[n + 1]
          BY <4>1, <4>2
        <5>2. QED BY <1>2, <3>1, <4>0, <5>1 DEF Lower
      <4>3. CASE ~(i[q] < y[q])
        <5>1. i[q] = y[q]
          BY <2>1, <2>2, <4>1, <4>3
        <5>2. \A j \in 1..q : j = q \/ j \in 1..n
          BY <4>1
        <5>3. \A j \in 1..q : i[j] = y[j]
          BY <4>0, <5>1, <5>2
        <5>4. q \in 1..Len(i) /\ \A j \in (q + 1)..Len(i) : i[j] = 0
          BY <1>0, <1>2, <2>1
        <5>5. QED BY <2>5, <2>8, <5>3, <5>4, ZerosLeast
      <4>4. QED BY <4>2, <4>3
    <3>5. CASE n > k
      <4>1. n + 1 \in (q + 1)..Len(x) /\ n + 1 \in 2..Len(y)
        BY <1>0, <2>6, <3>1, <3>2, <3>5
      <4>2. x[n + 1] = Base - 1 /\ y[n + 1] \in Digits
        BY <1>2, <3>2, <4>1
      <4>3. y[n + 1] \in Int /\ y[n + 1] <= Base - 1 /\ Base \in Int
        BY <4>2, <1>d, Constants
      <4>4. FALSE
        BY <3>1, <4>2, <4>3
      <4>5. QED BY <4>4
    <3>6. n < k \/ n = k \/ n > k
      BY <2>6
    <3>7. QED BY <3>3, <3>4, <3>5, <3>6
  <2>9. QED BY <2>5, <2>7, <2>8
<1>3. ASSUME \A j \in 2..Len(x) : x[j] = Base - 1, NEW y, IsInt(y), Lower(x, y)
      PROVE  x[1] < y[1] /\ x[1] < Heads - 1 /\ y[1] \in Int
  <2>1. PICK n \in Nat : n < Len(x) /\ n < Len(y) /\ x[n + 1] < y[n + 1] /\ \A j \in 1..n : x[j] = y[j]
    BY <1>3 DEF Lower
  <2>2. y[1] \in HeadSet /\ Len(y) \in Nat /\ (\A j \in 2..Len(y) : y[j] \in Digits) /\ y[1] \in Int
    BY <1>3, IntFacts
  <2>3. CASE n = 0
    <3>1. x[1] < y[1] /\ y[1] <= Heads - 1
      BY <2>1, <2>2, <2>3, <1>h
    <3>2. QED BY <1>0, <2>2, <3>1, Constants
  <2>4. CASE n # 0
    <3>1. n + 1 \in 2..Len(x) /\ n + 1 \in 2..Len(y)
      BY <1>0, <2>1, <2>2, <2>4
    <3>2. x[n + 1] = Base - 1 /\ y[n + 1] \in Digits
      BY <1>3, <2>2, <3>1
    <3>3. y[n + 1] \in Int /\ y[n + 1] <= Base - 1 /\ Base \in Int
      BY <3>2, <1>d, Constants
    <3>4. FALSE
      BY <2>1, <3>2, <3>3
    <3>5. QED BY <3>4
  <2>5. QED BY <2>3, <2>4
<1>4. ASSUME \A j \in 2..Len(x) : x[j] = Base - 1,
             x[1] < Heads - 1, i \in Strings, Len(i) = getIntLen(x[1] + 1), i[1] = x[1] + 1,
             \A j \in 2..getIntLen(x[1] + 1) : i[j] = 0
      PROVE  /\ IsInt(i) /\ Lower(x, i)
             /\ \A y : IsInt(y) /\ Lower(x, y) => i = y \/ Lower(i, y)
  <2>1. x[1] + 1 \in HeadSet
    BY <1>0, <1>4, Constants DEF HeadSet
  <2>2. Len(i) \in Nat /\ Len(i) >= 2
    BY <1>4, <2>1, HeadLength
  <2>3. \A j \in 2..Len(i) : i[j] = 0 /\ i[j] \in Digits
    BY <1>4, <1>d
  <2>4. IsInt(i)
    BY <1>4, <2>1, <2>2, <2>3 DEF IsInt
  <2>5. Lower(x, i)
    <3>1. 0 \in Nat /\ 0 < Len(x) /\ 0 < Len(i) /\ x[0 + 1] < i[0 + 1] /\ \A j \in 1..0 : x[j] = i[j]
      BY <1>0, <1>4, <2>2
    <3>2. QED BY <3>1 DEF Lower
  <2>6. ASSUME NEW y, IsInt(y), Lower(x, y) PROVE i = y \/ Lower(i, y)
    <3>1. x[1] < y[1] /\ y[1] \in Int /\ Len(y) \in Nat /\ Len(y) >= 2
      BY <1>3, <1>4, <2>6, IntFacts
    <3>2. CASE i[1] < y[1]
      <4>1. 0 \in Nat /\ 0 < Len(y) /\ 0 < Len(i) /\ i[0 + 1] < y[0 + 1] /\ \A j \in 1..0 : i[j] = y[j]
        BY <2>2, <3>1, <3>2
      <4>2. QED BY <4>1 DEF Lower
    <3>3. CASE ~(i[1] < y[1])
      <4>1. i[1] = y[1]
        BY <1>0, <1>4, <3>1, <3>3
      <4>2. 1 \in 1..Len(i) /\ (\A j \in 1..1 : i[j] = y[j]) /\ \A j \in (1 + 1)..Len(i) : i[j] = 0
        BY <2>2, <2>3, <4>1
      <4>3. QED BY <2>4, <2>6, <4>2, ZerosLeast
    <3>4. QED BY <3>2, <3>3
  <2>7. QED BY <2>4, <2>5, <2>6
<1>5. IsInt(i) => i # None
  BY Nothing DEF IsInt
<1>6. CASE \E q \in 2..Len(x) :
             /\ x[q] # Base - 1 /\ \A j \in (q + 1)..Len(x) : x[j] = Base - 1
             /\ i \in Strings /\ Len(i) = Len(x)
             /\ \A j \in 1..Len(x) : i[j] = IF j < q THEN x[j] ELSE IF j = q THEN x[q] + 1 ELSE 0
  BY <1>1, <1>2, <1>5, <1>6
<1>7. CASE /\ \A j \in 2..Len(x) : x[j] = Base - 1
           /\ x[1] = Heads - 1 /\ i = None
  <2>1. ASSUME NEW y, IsInt(y), Lower(x, y) PROVE FALSE
    <3>1. x[1] < Heads - 1
      BY <1>3, <1>7, <2>1
    <3>2. QED BY <1>0, <1>7, <3>1
  <2>2. QED BY <1>1, <1>7, <2>1
<1>8. CASE /\ \A j \in 2..Len(x) : x[j] = Base - 1
           /\ x[1] < Heads - 1 /\ i \in Strings /\ Len(i) = getIntLen(x[1] + 1)
           /\ i[1] = x[1] + 1 /\ \A j \in 2..getIntLen(x[1] + 1) : i[j] = 0
  BY <1>1, <1>4, <1>5, <1>8
<1>9. QED BY <1>1, <1>6, <1>7, <1>8, IncrementIs

\* The digit that shrinks, and the digits with it smaller.
OpenDown(d) == {i \in DOMAIN d : d[i] # 0 /\ \A j \in (i + 1)..Len(d) : d[j] = 0}

Shrunk(d, p) == [i \in DOMAIN d |-> IF i < p THEN d[i] ELSE IF i = p THEN d[i] - 1 ELSE Base - 1]

Nines(d) == [i \in DOMAIN d |-> Base - 1]

LEMMA DecrementUnfolds ==
  ASSUME NEW x
  PROVE  decrementInt(x) =
           IF OpenDown(Tail(x)) # {} THEN <<x[1]>> \o Shrunk(Tail(x), CHOOSE i \in OpenDown(Tail(x)) : TRUE)
           ELSE IF x[1] = 0 THEN <<-1, Base - 1>>
           ELSE IF x[1] = -Heads THEN None
           ELSE <<x[1] - 1>> \o (IF x[1] - 1 < -1 THEN Append(Nines(Tail(x)), Base - 1) ELSE Tail(Nines(Tail(x))))
  BY DEF decrementInt, OpenDown, Shrunk, Nines

\* decrementInt gives a smaller integer, but for the smallest one.
LEMMA DecrementFacts ==
  ASSUME NEW x, IsInt(x), x # smallestInt
  PROVE  IsInt(decrementInt(x)) /\ Lower(decrementInt(x), x)
PROOF
<1>0. /\ x \in Strings /\ Len(x) \in Nat /\ Len(x) >= 2 /\ x[1] \in HeadSet /\ Len(x) = getIntLen(x[1])
      /\ (\A i \in 2..Len(x) : x[i] \in Digits) /\ x[1] \in Int /\ \A i \in 1..Len(x) : x[i] \in Int
  BY IntFacts
<1>d. Base - 1 \in Digits /\ Base - 1 \in Int /\ \A d \in Digits : d \in Int /\ (d # 0 => d - 1 \in Digits)
  BY Constants DEF Digits
<1>1. PICK n, digs : n = Len(x) - 1 /\ digs = Tail(x)
  OBVIOUS
<1>2. n \in Nat /\ n >= 1 /\ Len(x) = n + 1
  BY <1>0, <1>1
<1>3. digs \in Strings /\ Len(digs) = n /\ DOMAIN digs = 1..n /\ \A i \in 1..n : digs[i] = x[i + 1]
  BY <1>0, <1>1, TailFacts
<1>4. PICK open : open = OpenDown(digs)
  OBVIOUS
<1>5. CASE open # {}
  <2>1. PICK p : p = CHOOSE i \in open : TRUE
    OBVIOUS
  <2>2. p \in open
    BY <1>5, <2>1
  <2>3. p \in 1..n /\ digs[p] # 0
    BY <1>3, <1>4, <2>2 DEF OpenDown
  <2>4. PICK d : d = Shrunk(digs, p)
    OBVIOUS
  <2>5. decrementInt(x) = <<x[1]>> \o d
    BY <1>1, <1>4, <1>5, <2>1, <2>4, DecrementUnfolds
  <2>6. d = [i \in 1..n |-> IF i < p THEN digs[i] ELSE IF i = p THEN digs[i] - 1 ELSE Base - 1]
    BY <1>3, <2>4 DEF Shrunk
  <2>7. \A i \in 1..n : digs[i] \in Digits /\ digs[i] \in Int
    <3>1. \A i \in 1..n : i + 1 \in 2..Len(x)
      BY <1>2
    <3>2. QED BY <1>0, <1>3, <1>d, <3>1
  <2>8. \A i \in 1..n : d[i] \in Digits
    BY <1>d, <2>3, <2>6, <2>7
  <2>9. d \in [1..n -> Int]
    BY <1>d, <2>6, <2>7
  <2>10. PICK r : r = <<x[1]>> \o d
    OBVIOUS
  <2>11. r \in Strings /\ Len(r) = n + 1 /\ r[1] = x[1] /\ \A i \in 2..(n + 1) : r[i] = d[i - 1]
    BY <1>0, <1>2, <2>9, <2>10, Headed
  <2>12. ASSUME NEW j \in 2..Len(r) PROVE r[j] \in Digits
    <3>1. j \in 2..(n + 1) /\ j - 1 \in 1..n
      BY <1>2, <2>11
    <3>2. QED BY <2>8, <2>11, <3>1
  <2>13. IsInt(r)
    BY <1>0, <1>2, <2>11, <2>12 DEF IsInt
  <2>14. Lower(r, x)
    <3>1. p \in Nat /\ p < Len(r) /\ p < Len(x)
      BY <1>2, <2>3, <2>11
    <3>2. r[p + 1] < x[p + 1]
      <4>1. p + 1 \in 2..(n + 1) /\ p + 1 - 1 = p
        BY <1>2, <2>3
      <4>2. r[p + 1] = d[p] /\ d[p] = digs[p] - 1 /\ x[p + 1] = digs[p] /\ digs[p] \in Int
        BY <1>3, <2>3, <2>6, <2>7, <2>11, <4>1
      <4>3. QED BY <4>2
    <3>3. ASSUME NEW j \in 1..p PROVE r[j] = x[j]
      <4>1. CASE j = 1
        BY <2>11, <4>1
      <4>2. CASE j # 1
        <5>1. j \in 2..(n + 1) /\ j - 1 \in 1..n /\ j - 1 < p /\ j - 1 + 1 = j
          BY <1>2, <2>3, <4>2
        <5>2. r[j] = d[j - 1] /\ digs[j - 1] = x[j]
          BY <1>3, <2>11, <5>1
        <5>3. d[j - 1] = digs[j - 1]
          BY <2>6, <5>1
        <5>4. QED BY <5>2, <5>3
      <4>3. QED BY <4>1, <4>2
    <3>4. QED BY <3>1, <3>2, <3>3 DEF Lower
  <2>15. QED BY <2>5, <2>10, <2>13, <2>14
<1>6. CASE open = {}
  <2>1. \A i \in 1..n : digs[i] = 0
    BY <1>3, <1>4, <1>6, LastOther DEF OpenDown
  <2>2. ASSUME NEW j \in 2..Len(x) PROVE x[j] = 0
    <3>1. j - 1 \in 1..n /\ j - 1 + 1 = j
      BY <1>2
    <3>2. digs[j - 1] = x[j - 1 + 1]
      BY <1>3, <3>1
    <3>3. QED BY <2>1, <3>1, <3>2
  <2>3. x[1] # -Heads
    <3>1. SUFFICES ASSUME x[1] = -Heads PROVE x = smallestInt
      OBVIOUS
    <3>2. /\ smallestInt \in Strings /\ Len(smallestInt) = getIntLen(smallestInt[1]) /\ smallestInt[1] = -Heads
          /\ \A i \in 2..Len(smallestInt) : smallestInt[i] = 0
      BY SmallestFacts, IntFacts
    <3>3. Len(x) = Len(smallestInt)
      BY <1>0, <3>1, <3>2
    <3>4. \A i \in 1..Len(x) : i = 1 \/ i \in 2..Len(x)
      BY <1>0
    <3>5. \A i \in 1..Len(x) : x[i] = smallestInt[i]
      BY <2>2, <3>1, <3>2, <3>3, <3>4
    <3>6. QED BY <1>0, <3>2, <3>3, <3>5, StringsEqual
  <2>4. x[1] - 1 \in HeadSet /\ getIntLen(x[1] - 1) >= 2
    <3>1. x[1] - 1 \in HeadSet
      BY <1>0, <2>3, Constants DEF HeadSet
    <3>2. QED BY <3>1, HeadLength
  <2>5. ASSUME NEW r \in Strings, Len(r) = getIntLen(x[1] - 1), r[1] = x[1] - 1, \A j \in 2..Len(r) : r[j] = Base - 1
        PROVE  IsInt(r) /\ Lower(r, x)
    <3>1. \A j \in 2..Len(r) : r[j] \in Digits
      BY <1>d, <2>5
    <3>2. IsInt(r)
      BY <2>4, <2>5, <3>1 DEF IsInt
    <3>3. Len(r) \in Nat /\ r[0 + 1] < x[0 + 1] /\ \A j \in 1..0 : r[j] = x[j]
      BY <1>0, <2>5, StringFacts
    <3>4. 0 \in Nat /\ 0 < Len(r) /\ 0 < Len(x)
      BY <1>0, <2>4, <2>5, <3>3
    <3>5. QED BY <3>2, <3>3, <3>4 DEF Lower
  <2>6. PICK d : d = Nines(digs)
    OBVIOUS
  <2>7. d = [i \in 1..n |-> Base - 1]
    BY <1>3, <2>6 DEF Nines
  <2>8. d \in Seq(Int) /\ Len(d) = n /\ \A i \in 1..n : d[i] = Base - 1
    <3>1. d \in [1..n -> Int]
      BY <1>d, <2>7
    <3>2. QED BY <1>2, <2>7, <3>1
  <2>9. CASE x[1] = 0
    <3>1. decrementInt(x) = <<-1, Base - 1>>
      BY <1>1, <1>4, <1>6, <2>9, DecrementUnfolds
    <3>2. PICK r : r = <<-1, Base - 1>>
      OBVIOUS
    <3>3. r \in Strings /\ Len(r) = 2 /\ r[1] = -1 /\ r[2] = Base - 1
      BY <1>d, <3>2 DEF Strings
    <3>4. getIntLen(x[1] - 1) = 2 /\ x[1] - 1 = -1
      BY <2>9 DEF getIntLen
    <3>5. \A j \in 2..Len(r) : r[j] = Base - 1
      BY <3>3
    <3>6. QED BY <2>5, <3>1, <3>2, <3>3, <3>4, <3>5
  <2>10. CASE x[1] < 0
    <3>1. decrementInt(x) = <<x[1] - 1>> \o Append(d, Base - 1)
      <4>1. x[1] # 0 /\ x[1] - 1 < -1
        BY <1>0, <2>10
      <4>2. QED BY <1>1, <1>4, <1>6, <2>3, <2>6, <4>1, DecrementUnfolds
    <3>2. PICK e : e = Append(d, Base - 1)
      OBVIOUS
    <3>3. e \in Seq(Int) /\ Len(e) = n + 1 /\ \A i \in 1..(n + 1) : e[i] = Base - 1
      BY <1>2, <1>d, <2>8, <3>2, AppendProperties
    <3>4. e \in [1..(n + 1) -> Int]
      BY <3>3, LenProperties
    <3>5. PICK r : r = <<x[1] - 1>> \o e
      OBVIOUS
    <3>6. r \in Strings /\ Len(r) = n + 1 + 1 /\ r[1] = x[1] - 1 /\ \A i \in 2..(n + 1 + 1) : r[i] = e[i - 1]
      <4>1. x[1] - 1 \in Int /\ n + 1 \in Nat
        BY <1>0, <1>2
      <4>2. QED BY <3>4, <3>5, <4>1, Headed
    <3>7. getIntLen(x[1] - 1) = n + 1 + 1
      <4>1. Len(x) = 1 - x[1]
        BY <1>0, <2>10 DEF getIntLen
      <4>2. getIntLen(x[1] - 1) = 1 - (x[1] - 1)
        BY <1>0, <2>10 DEF getIntLen
      <4>3. QED BY <1>0, <1>2, <4>1, <4>2
    <3>8. \A i \in 2..Len(r) : r[i] = Base - 1
      <4>1. \A i \in 2..(n + 1 + 1) : i - 1 \in 1..(n + 1)
        BY <1>2
      <4>2. QED BY <3>3, <3>6, <4>1
    <3>9. QED BY <2>5, <3>1, <3>2, <3>5, <3>6, <3>7, <3>8
  <2>11. CASE x[1] > 0
    <3>1. decrementInt(x) = <<x[1] - 1>> \o Tail(d)
      <4>1. x[1] # 0 /\ ~(x[1] - 1 < -1)
        BY <1>0, <2>11
      <4>2. QED BY <1>1, <1>4, <1>6, <2>3, <2>6, <4>1, DecrementUnfolds
    <3>2. PICK e : e = Tail(d)
      OBVIOUS
    <3>3. PICK k \in Nat : k = n - 1 /\ k + 1 = n
      BY <1>2
    <3>4. e \in Seq(Int) /\ Len(e) = k /\ \A i \in 1..k : e[i] = Base - 1
      <4>1. d # << >>
        BY <1>2, <2>8
      <4>2. e \in Seq(Int) /\ Len(e) = n - 1 /\ \A i \in 1..Len(e) : e[i] = d[i + 1]
        BY <2>8, <3>2, <4>1, HeadTailProperties
      <4>3. \A i \in 1..k : i + 1 \in 1..n
        BY <3>3
      <4>4. QED BY <2>8, <3>3, <4>2, <4>3
    <3>5. e \in [1..k -> Int]
      BY <3>4, LenProperties
    <3>6. PICK r : r = <<x[1] - 1>> \o e
      OBVIOUS
    <3>7. r \in Strings /\ Len(r) = k + 1 /\ r[1] = x[1] - 1 /\ \A i \in 2..(k + 1) : r[i] = e[i - 1]
      <4>1. x[1] - 1 \in Int
        BY <1>0
      <4>2. QED BY <3>5, <3>6, <4>1, Headed
    <3>8. getIntLen(x[1] - 1) = k + 1
      <4>1. Len(x) = x[1] + 2
        BY <1>0, <2>11 DEF getIntLen
      <4>2. getIntLen(x[1] - 1) = x[1] - 1 + 2
        BY <1>0, <2>11 DEF getIntLen
      <4>3. QED BY <1>0, <1>2, <3>3, <4>1, <4>2
    <3>9. \A i \in 2..Len(r) : r[i] = Base - 1
      <4>1. \A i \in 2..(k + 1) : i - 1 \in 1..k
        OBVIOUS
      <4>2. QED BY <3>4, <3>7, <4>1
    <3>10. QED BY <2>5, <3>1, <3>2, <3>6, <3>7, <3>8, <3>9
  <2>12. x[1] = 0 \/ x[1] < 0 \/ x[1] > 0
    BY <1>0
  <2>13. QED BY <2>9, <2>10, <2>11, <2>12
<1>7. QED BY <1>5, <1>6

-----------------------------------------------------------------------------
(* KeyBetween: the new key is a key, above the lower bound and below the    *)
(* upper one, whatever bounds there are.                                    *)

LEMMA IntsLower ==
  ASSUME NEW a, IsKey(a), NEW b, IsKey(b), Before(a, b), getIntPart(a) # getIntPart(b)
  PROVE  Lower(getIntPart(a), getIntPart(b))
PROOF
<1>1. PICK x, y, f, g : x = getIntPart(a) /\ y = getIntPart(b) /\ f = Fraction(a) /\ g = Fraction(b)
  OBVIOUS
<1>2. /\ IsInt(x) /\ IsInt(y) /\ f \in Strings /\ g \in Strings /\ a = x \o f /\ b = y \o g
  BY <1>1, KeyParts
<1>3. /\ x \in Strings /\ Len(x) \in Nat /\ Len(x) >= 2 /\ Len(x) = getIntLen(x[1]) /\ x[1] \in Int
      /\ y \in Strings /\ Len(y) \in Nat /\ Len(y) >= 2 /\ Len(y) = getIntLen(y[1]) /\ y[1] \in Int
  BY <1>2, IntFacts
<1>4. /\ a \in Strings /\ Len(a) = Len(x) + Len(f) /\ (\A i \in 1..Len(x) : a[i] = x[i])
      /\ b \in Strings /\ Len(b) = Len(y) + Len(g) /\ (\A i \in 1..Len(y) : b[i] = y[i])
      /\ Len(f) \in Nat /\ Len(g) \in Nat
  <2>1. x \o f \in Strings /\ Len(x \o f) = Len(x) + Len(f) /\ \A i \in 1..Len(x) : (x \o f)[i] = x[i]
    BY <1>2, <1>3, Joins
  <2>2. y \o g \in Strings /\ Len(y \o g) = Len(y) + Len(g) /\ \A i \in 1..Len(y) : (y \o g)[i] = y[i]
    BY <1>2, <1>3, Joins
  <2>3. Len(f) \in Nat /\ Len(g) \in Nat
    BY <1>2, StringFacts
  <2>4. QED BY <1>2, <2>1, <2>2, <2>3
<1>5. PICK n \in Nat : Parts(a, b, n)
  BY <1>4, PartsBefore
<1>6. n < Len(b) /\ n <= Len(a) /\ (\A i \in 1..n : a[i] = b[i]) /\ (n < Len(a) => a[n + 1] < b[n + 1])
  BY <1>5 DEF Parts
<1>7. 1 \in 1..Len(x) /\ 1 \in 1..Len(y)
  BY <1>3
<1>8. CASE n = 0
  <2>1. x[1] < y[1]
    <3>1. n < Len(a) /\ n + 1 = 1
      BY <1>3, <1>4, <1>8
    <3>2. QED BY <1>4, <1>6, <1>7, <3>1
  <2>2. 0 \in Nat /\ 0 < Len(x) /\ 0 < Len(y) /\ x[0 + 1] < y[0 + 1] /\ \A i \in 1..0 : x[i] = y[i]
    BY <1>3, <2>1
  <2>3. QED BY <1>1, <2>2 DEF Lower
<1>9. CASE n # 0
  <2>1. x[1] = y[1]
    <3>1. 1 \in 1..n
      BY <1>9
    <3>2. QED BY <1>4, <1>6, <1>7, <3>1
  <2>2. Len(x) = Len(y)
    BY <1>3, <2>1
  <2>3. n < Len(x)
    <3>1. SUFFICES ASSUME n >= Len(x) PROVE FALSE
      BY <1>3
    <3>2. \A i \in 1..Len(x) : i \in 1..n /\ i \in 1..Len(y)
      BY <1>3, <2>2, <3>1
    <3>3. \A i \in 1..Len(x) : x[i] = y[i]
      BY <1>4, <1>6, <3>2
    <3>4. x = y
      BY <1>3, <2>2, <3>3, StringsEqual
    <3>5. QED BY <1>1, <3>4
  <2>4. n < Len(a) /\ n + 1 \in 1..Len(x) /\ n + 1 \in 1..Len(y)
    BY <1>3, <1>4, <2>2, <2>3
  <2>5. x[n + 1] < y[n + 1]
    BY <1>4, <1>6, <2>4
  <2>6. \A i \in 1..n : i \in 1..Len(x) /\ i \in 1..Len(y)
    BY <1>3, <2>2, <2>3
  <2>7. \A i \in 1..n : x[i] = y[i]
    BY <1>4, <1>6, <2>6
  <2>8. QED BY <1>1, <2>2, <2>3, <2>5, <2>7 DEF Lower
<1>10. QED BY <1>8, <1>9

Between(c, a, b) ==
  /\ IsKey(c)
  /\ a # None => Before(a, c)
  /\ b # None => Before(c, b)

LEMMA KeyBelowFacts ==
  ASSUME NEW b, IsKey(b), b # smallestInt
  PROVE  IsKey(KeyBelow(b)) /\ Before(KeyBelow(b), b)
PROOF
<1>1. PICK y, g : y = getIntPart(b) /\ g = Fraction(b)
  OBVIOUS
<1>2. /\ IsInt(y) /\ g \in Seq(Digits) /\ g \in Strings /\ (g # None => LastNot0(g)) /\ b = y \o g
      /\ y \in Strings /\ b \in Strings
  BY <1>1, KeyParts, IntIsKey DEF IsKey
<1>3. CASE y = smallestInt
  <2>1. PICK m : m = midpoint[<<None, g>>]
    OBVIOUS
  <2>2. KeyBelow(b) = y \o m
    BY <1>1, <1>3, <2>1 DEF KeyBelow
  <2>3. g # None
    BY <1>2, <1>3, JoinNothing
  <2>4. Before(None, g)
    <3>1. Len(g) > 0
      BY <2>3, Nothing, StringFacts, <1>2
    <3>2. Before(None, None \o g)
      BY <1>2, <3>1, Nothing, PrefixBefore
    <3>3. QED BY <1>2, <3>2, JoinNothing
  <2>5. m \in Seq(Digits) /\ m \in Strings /\ LastNot0(m) /\ Before(m, g)
    BY <1>2, <2>1, <2>3, <2>4, NoneDigits, MidBetween
  <2>6. Before(y \o m, y \o g)
    BY <1>2, <2>5, SameStart
  <2>7. QED BY <1>2, <2>2, <2>5, <2>6, KeyMade
<1>4. CASE y # smallestInt /\ Before(y, b)
  <2>1. KeyBelow(b) = y
    BY <1>1, <1>4 DEF KeyBelow
  <2>2. QED BY <1>2, <1>4, <2>1, IntIsKey
<1>5. CASE y # smallestInt /\ ~Before(y, b)
  <2>1. PICK d : d = decrementInt(y)
    OBVIOUS
  <2>2. KeyBelow(b) = d
    BY <1>1, <1>5, <2>1 DEF KeyBelow
  <2>3. IsInt(d) /\ Lower(d, y)
    BY <1>2, <1>5, <2>1, DecrementFacts
  <2>4. IsKey(d) /\ d \in Strings
    BY <2>3, IntIsKey
  <2>5. Before(d \o None, y \o g)
    BY <1>2, <2>3, <2>4, Nothing, LowerExtends
  <2>6. QED BY <1>2, <2>2, <2>4, <2>5, JoinNothing
<1>6. QED BY <1>3, <1>4, <1>5

LEMMA KeyAboveFacts ==
  ASSUME NEW a, IsKey(a)
  PROVE  IsKey(KeyAbove(a)) /\ Before(a, KeyAbove(a))
PROOF
<1>1. PICK x, f, i : x = getIntPart(a) /\ f = Fraction(a) /\ i = incrementInt(x)
  OBVIOUS
<1>2. IsInt(x) /\ f \in Seq(Digits) /\ f \in Strings /\ a = x \o f /\ x \in Strings
  BY <1>1, KeyParts, IntIsKey
<1>3. CASE i = None
  <2>1. PICK m : m = midpoint[<<f, None>>]
    OBVIOUS
  <2>2. KeyAbove(a) = x \o m
    BY <1>1, <1>3, <2>1 DEF KeyAbove
  <2>3. m \in Seq(Digits) /\ m \in Strings /\ LastNot0(m) /\ Before(f, m)
    BY <1>2, <2>1, MidOpen
  <2>4. Before(x \o f, x \o m)
    BY <1>2, <2>3, SameStart
  <2>5. QED BY <1>2, <2>2, <2>3, <2>4, KeyMade
<1>4. CASE i # None
  <2>1. KeyAbove(a) = i
    BY <1>1, <1>4 DEF KeyAbove
  <2>2. IsInt(i) /\ Lower(x, i)
    BY <1>1, <1>2, <1>4, IncrementFacts
  <2>3. IsKey(i) /\ i \in Strings
    BY <2>2, IntIsKey
  <2>4. Before(x \o f, i \o None)
    BY <1>2, <2>2, <2>3, Nothing, LowerExtends
  <2>5. QED BY <1>2, <2>1, <2>3, <2>4, JoinNothing
<1>5. QED BY <1>3, <1>4

LEMMA KeyInsideFacts ==
  ASSUME NEW a, IsKey(a), NEW b, IsKey(b), Before(a, b)
  PROVE  IsKey(KeyInside(a, b)) /\ Before(a, KeyInside(a, b)) /\ Before(KeyInside(a, b), b)
PROOF
<1>1. PICK x, y, f, g, i : /\ x = getIntPart(a) /\ f = Fraction(a) /\ i = incrementInt(x)
                           /\ y = getIntPart(b) /\ g = Fraction(b)
  OBVIOUS
<1>2. /\ IsInt(x) /\ f \in Seq(Digits) /\ f \in Strings /\ a = x \o f /\ x \in Strings
      /\ IsInt(y) /\ g \in Seq(Digits) /\ g \in Strings /\ b = y \o g /\ y \in Strings
      /\ g # None => LastNot0(g)
  BY <1>1, KeyParts, IntIsKey
<1>3. CASE x = y
  <2>1. PICK m : m = midpoint[<<f, g>>]
    OBVIOUS
  <2>2. KeyInside(a, b) = x \o m
    BY <1>1, <1>3, <2>1 DEF KeyInside
  <2>3. Before(f, g)
    BY <1>2, <1>3, SameStart
  <2>4. g # None
    <3>1. PICK n \in Nat : Parts(f, g, n)
      BY <1>2, <2>3, PartsBefore
    <3>2. n < Len(g)
      BY <3>1 DEF Parts
    <3>3. QED BY <3>2, Nothing
  <2>5. m \in Seq(Digits) /\ m \in Strings /\ LastNot0(m) /\ Before(f, m) /\ Before(m, g)
    BY <1>2, <2>1, <2>3, <2>4, MidBetween
  <2>6. Before(x \o f, x \o m) /\ Before(x \o m, x \o g)
    BY <1>2, <2>5, SameStart
  <2>7. QED BY <1>2, <1>3, <2>2, <2>5, <2>6, KeyMade
<1>4. CASE x # y
  <2>1. Lower(x, y)
    BY <1>1, <1>4, IntsLower
  <2>2. /\ i # None /\ IsInt(i) /\ Lower(x, i) /\ (i = y \/ Lower(i, y))
    BY <1>1, <1>2, <2>1, IncrementFacts
  <2>3. IsKey(i) /\ i \in Strings
    BY <2>2, IntIsKey
  <2>4. CASE Before(i, b)
    <3>1. KeyInside(a, b) = i
      BY <1>1, <1>4, <2>2, <2>4 DEF KeyInside, Fits
    <3>2. Before(x \o f, i \o None)
      BY <1>2, <2>2, <2>3, Nothing, LowerExtends
    <3>3. QED BY <1>2, <2>3, <2>4, <3>1, <3>2, JoinNothing
  <2>5. CASE ~Before(i, b)
    <3>1. PICK m : m = midpoint[<<f, None>>]
      OBVIOUS
    <3>2. KeyInside(a, b) = x \o m
      BY <1>1, <1>4, <2>2, <2>5, <3>1 DEF KeyInside, Fits
    <3>3. m \in Seq(Digits) /\ m \in Strings /\ LastNot0(m) /\ Before(f, m)
      BY <1>2, <3>1, MidOpen
    <3>4. Before(x \o f, x \o m)
      BY <1>2, <3>3, SameStart
    <3>5. Before(x \o m, y \o g)
      BY <1>2, <2>1, <3>3, LowerExtends
    <3>6. QED BY <1>2, <3>2, <3>3, <3>4, <3>5, KeyMade
  <2>6. QED BY <2>4, <2>5
<1>5. QED BY <1>3, <1>4

IsBound(a) == a = None \/ IsKey(a)

LEMMA KeyBetweenFacts ==
  ASSUME NEW a, IsBound(a), NEW b, IsBound(b), a # None /\ b # None => Before(a, b)
  PROVE  /\ KeyBetween(a, b) = Failed \/ Between(KeyBetween(a, b), a, b)
         /\ smallestInt \notin {a, b} => KeyBetween(a, b) # Failed
PROOF
<1>1. CASE (a # None /\ ~validateOrderKey(a)) \/ (b # None /\ ~validateOrderKey(b))
  <2>1. KeyBetween(a, b) = Failed
    BY <1>1 DEF KeyBetween
  <2>2. smallestInt \in {a, b}
    BY <1>1, KeyParts DEF IsBound
  <2>3. QED BY <2>1, <2>2
<1>2. CASE ~((a # None /\ ~validateOrderKey(a)) \/ (b # None /\ ~validateOrderKey(b)))
  <2>1. PICK c : c = KeyBetween(a, b)
    OBVIOUS
  <2>2. \A k : IsKey(k) => k # Failed
    BY KeyParts
  <2>3. ~(a # None /\ b # None /\ ~Before(a, b))
    OBVIOUS
  <2>4. CASE a = None /\ b = None
    <3>1. c = <<0, 0>>
      BY <1>2, <2>1, <2>3, <2>4 DEF KeyBetween
    <3>2. <<0, 0>> \in Strings /\ Len(<<0, 0>>) = 2 /\ <<0, 0>>[1] = 0 /\ <<0, 0>>[2] = 0
      BY DEF Strings
    <3>3. 0 \in HeadSet /\ getIntLen(0) = 2 /\ 0 \in Digits
      BY Constants DEF HeadSet, getIntLen, Digits
    <3>4. \A j \in 2..2 : <<0, 0>>[j] \in Digits
      BY <3>2, <3>3
    <3>5. IsKey(c)
      BY <3>1, <3>2, <3>3, <3>4 DEF IsKey
    <3>6. QED BY <2>1, <2>2, <2>4, <3>5 DEF Between
  <2>5. CASE a = None /\ b # None
    <3>1. c = KeyBelow(b)
      BY <1>2, <2>1, <2>3, <2>5 DEF KeyBetween
    <3>2. IsKey(b) /\ b # smallestInt
      BY <1>2, <2>5, KeyParts DEF IsBound
    <3>3. IsKey(c) /\ Before(c, b)
      BY <3>1, <3>2, KeyBelowFacts
    <3>4. QED BY <2>1, <2>2, <2>5, <3>3 DEF Between
  <2>6. CASE a # None /\ b = None
    <3>1. c = KeyAbove(a)
      BY <1>2, <2>1, <2>3, <2>6 DEF KeyBetween
    <3>2. IsKey(c) /\ Before(a, c)
      BY <2>6, <3>1, KeyAboveFacts DEF IsBound
    <3>3. QED BY <2>1, <2>2, <2>6, <3>2 DEF Between
  <2>7. CASE a # None /\ b # None
    <3>1. c = KeyInside(a, b)
      BY <1>2, <2>1, <2>3, <2>7 DEF KeyBetween
    <3>2. IsKey(c) /\ Before(a, c) /\ Before(c, b)
      BY <2>3, <2>7, <3>1, KeyInsideFacts DEF IsBound
    <3>3. QED BY <2>1, <2>2, <2>7, <3>2 DEF Between
  <2>8. QED BY <2>4, <2>5, <2>6, <2>7
<1>3. QED BY <1>1, <1>2

-----------------------------------------------------------------------------
(* NKeysBetween: that the recursion defines a function, and that it returns *)
(* the keys asked for, in order and within the bounds.                      *)

\* The body of NKeysBetween, with f for the function itself.
NBody(f, n, a, b) ==
  LET c == KeyBetween(a, b)
  IN  IF n = 0 THEN <<>>
      ELSE IF c = Failed THEN <<Failed>>
      ELSE IF n = 1 THEN <<c>>
      ELSE IF b = None THEN <<c>> \o f[n - 1][<<c, b>>]
      ELSE IF a = None THEN f[n - 1][<<a, c>>] \o <<c>>
      ELSE f[n \div 2][<<a, c>>] \o <<c>> \o f[n - (n \div 2) - 1][<<c, b>>]

NStep(f, n) == [ab \in Strings \X Strings |-> NBody(f, n, ab[1], ab[2])]

LEMMA Halves ==
  ASSUME NEW n \in Nat, n >= 2
  PROVE  /\ n - 1 \in 0..(n - 1) /\ n \div 2 \in 0..(n - 1) /\ n - (n \div 2) - 1 \in 0..(n - 1)
         /\ n \div 2 + 1 + (n - (n \div 2) - 1) = n
  OBVIOUS

LEMMA NStepLocal ==
  ASSUME NEW f, NEW g, NEW n \in Nat, \A m \in 0..(n - 1) : f[m] = g[m]
  PROVE  NStep(f, n) = NStep(g, n)
PROOF
<1>1. ASSUME NEW a, NEW b PROVE NBody(f, n, a, b) = NBody(g, n, a, b)
  <2>1. CASE n < 2
    <3>1. n = 0 \/ n = 1
      BY <2>1
    <3>2. QED BY <3>1 DEF NBody
  <2>2. CASE n >= 2
    <3>1. f[n - 1] = g[n - 1] /\ f[n \div 2] = g[n \div 2] /\ f[n - (n \div 2) - 1] = g[n - (n \div 2) - 1]
      BY <2>2, Halves
    <3>2. QED BY <3>1 DEF NBody
  <2>3. QED BY <2>1, <2>2
<1>2. QED BY <1>1 DEF NStep

LEMMA NKeysExists ==
  \E f : f = [n \in 0..MaxKeys |-> NStep(f, n)]
PROOF
<1>1. PICK T : T = {k \in Nat : ~\E f : f = [n \in 0..k |-> NStep(f, n)]}
  OBVIOUS
<1>2. SUFFICES ASSUME T # {} PROVE FALSE
  BY <1>1, Constants
<1>3. PICK k \in T : \A m \in T : ~(m < k)
  <2>1. T \subseteq Nat
    BY <1>1
  <2>2. QED BY <1>2, <2>1, LeastNumber
<1>4. k \in Nat /\ ~\E f : f = [n \in 0..k |-> NStep(f, n)]
  BY <1>1
<1>5. SUFFICES \E g : \A n \in 0..k : n < k => g[n] = NStep(g, n)
  <2>1. PICK g : \A n \in 0..k : n < k => g[n] = NStep(g, n)
    BY <1>5
  <2>2. PICK f : f = [n \in 0..k |-> IF n = k THEN NStep(g, k) ELSE g[n]]
    OBVIOUS
  <2>3. \A n \in 0..k : n < k => f[n] = g[n]
    BY <1>4, <2>2
  <2>4. ASSUME NEW n \in 0..k PROVE NStep(f, n) = NStep(g, n)
    <3>1. n \in Nat /\ \A m \in 0..(n - 1) : m \in 0..k /\ m < k
      BY <1>4
    <3>2. \A m \in 0..(n - 1) : f[m] = g[m]
      BY <2>3, <3>1
    <3>3. QED BY <3>1, <3>2, NStepLocal
  <2>5. ASSUME NEW n \in 0..k PROVE f[n] = NStep(f, n)
    <3>1. CASE n = k
      BY <2>2, <2>4, <3>1
    <3>2. CASE n # k
      <4>1. n < k
        BY <1>4, <3>2
      <4>2. QED BY <2>1, <2>3, <2>4, <4>1
    <3>3. QED BY <3>1, <3>2
  <2>6. f = [n \in 0..k |-> f[n]]
    BY <2>2
  <2>7. f = [n \in 0..k |-> NStep(f, n)]
    BY <2>5, <2>6
  <2>8. QED BY <1>4, <2>7
<1>6. CASE k = 0
  BY <1>6
<1>7. CASE k # 0
  <2>1. k - 1 \in Nat /\ k - 1 < k
    BY <1>4, <1>7
  <2>2. k - 1 \notin T
    BY <1>3, <2>1
  <2>3. PICK g : g = [n \in 0..(k - 1) |-> NStep(g, n)]
    BY <1>1, <2>1, <2>2
  <2>4. \A n \in 0..k : n < k => n \in 0..(k - 1)
    BY <1>4
  <2>5. \A n \in 0..k : n < k => g[n] = NStep(g, n)
    BY <2>3, <2>4
  <2>6. QED BY <2>5
<1>8. QED BY <1>6, <1>7

LEMMA NKeysIs ==
  ASSUME NEW n \in 0..MaxKeys, NEW a \in Strings, NEW b \in Strings
  PROVE  NKeysBetween[n][<<a, b>>] = NBody(NKeysBetween, n, a, b)
PROOF
<1>1. NKeysBetween = CHOOSE f : f = [m \in 0..MaxKeys |-> NStep(f, m)]
  BY DEF NKeysBetween, NStep, NBody
<1>2. NKeysBetween = [m \in 0..MaxKeys |-> NStep(NKeysBetween, m)]
  BY <1>1, NKeysExists
<1>3. NKeysBetween[n] = NStep(NKeysBetween, n)
  BY <1>2
<1>4. PICK ab \in Strings \X Strings : ab = <<a, b>>
  OBVIOUS
<1>5. ab[1] = a /\ ab[2] = b
  BY <1>4
<1>6. NStep(NKeysBetween, n)[ab] = NBody(NKeysBetween, n, ab[1], ab[2])
  BY DEF NStep
<1>7. QED BY <1>3, <1>4, <1>5, <1>6

\* Keys in ascending order, all within two bounds.
Asc(ks, a, b) ==
  /\ ks \in Seq(Strings)
  /\ \A i \in 1..Len(ks) : Between(ks[i], a, b)
  /\ \A i \in 1..Len(ks), j \in 1..Len(ks) : i < j => Before(ks[i], ks[j])

LEMMA ListFacts ==
  ASSUME NEW s \in Seq(Strings)
  PROVE  Len(s) \in Nat /\ DOMAIN s = 1..Len(s) /\ \A i \in 1..Len(s) : s[i] \in Strings
  BY LenProperties, ElementOfSeq

LEMMA BoundsAreStrings ==
  ASSUME NEW a, IsBound(a)
  PROVE  a \in Strings
  BY Nothing DEF IsBound, IsKey

LEMMA BetweenNests ==
  ASSUME NEW a, IsBound(a), NEW b, IsBound(b), NEW lo, IsBound(lo), NEW hi, IsBound(hi), NEW c, Between(c, lo, hi),
         a # None => lo # None /\ (lo = a \/ Before(a, lo)),
         b # None => hi # None /\ (hi = b \/ Before(hi, b))
  PROVE  Between(c, a, b)
PROOF
<1>1. a \in Strings /\ b \in Strings /\ lo \in Strings /\ hi \in Strings /\ c \in Strings
  BY BoundsAreStrings DEF Between, IsKey
<1>2. ASSUME a # None PROVE Before(a, c)
  BY <1>1, <1>2, BeforeTransitive DEF Between
<1>3. ASSUME b # None PROVE Before(c, b)
  BY <1>1, <1>3, BeforeTransitive DEF Between
<1>4. QED BY <1>2, <1>3 DEF Between

LEMMA ThreeParts ==
  ASSUME NEW s \in Seq(Strings), NEW k \in Seq(Strings), NEW t \in Seq(Strings)
  PROVE  /\ (s \o k) \o t \in Seq(Strings) /\ Len((s \o k) \o t) = Len(s) + Len(k) + Len(t)
         /\ \A i \in 1..Len(s) : ((s \o k) \o t)[i] = s[i]
         /\ \A i \in 1..Len(k) : ((s \o k) \o t)[Len(s) + i] = k[i]
         /\ \A i \in 1..Len(t) : ((s \o k) \o t)[Len(s) + Len(k) + i] = t[i]
PROOF
<1>0. Len(s) \in Nat /\ Len(k) \in Nat /\ Len(t) \in Nat
  BY LenProperties
<1>1. PICK u : u = s \o k
  OBVIOUS
<1>2. /\ u \in Seq(Strings) /\ Len(u) = Len(s) + Len(k)
      /\ \A i \in 1..(Len(s) + Len(k)) : u[i] = IF i <= Len(s) THEN s[i] ELSE k[i - Len(s)]
  BY <1>1, ConcatProperties
<1>3. PICK w : w = u \o t
  OBVIOUS
<1>4. /\ w \in Seq(Strings) /\ Len(w) = Len(u) + Len(t)
      /\ \A i \in 1..(Len(u) + Len(t)) : w[i] = IF i <= Len(u) THEN u[i] ELSE t[i - Len(u)]
  <2>1. /\ u \o t \in Seq(Strings) /\ Len(u \o t) = Len(u) + Len(t)
        /\ \A i \in 1..(Len(u) + Len(t)) : (u \o t)[i] = IF i <= Len(u) THEN u[i] ELSE t[i - Len(u)]
    <3>1. u \in Seq(Strings)
      BY <1>2
    <3>2. QED BY <3>1, ConcatProperties
  <2>2. QED BY <1>3, <2>1
<1>5. ASSUME NEW i \in 1..Len(s) PROVE w[i] = s[i]
  <2>1. i \in 1..(Len(s) + Len(k)) /\ i \in 1..(Len(u) + Len(t)) /\ i <= Len(u)
    BY <1>0, <1>2
  <2>2. QED BY <1>2, <1>4, <2>1
<1>6. ASSUME NEW i \in 1..Len(k) PROVE w[Len(s) + i] = k[i]
  <2>1. PICK j : j = Len(s) + i
    OBVIOUS
  <2>2. j \in 1..(Len(s) + Len(k)) /\ j \in 1..(Len(u) + Len(t)) /\ j <= Len(u) /\ ~(j <= Len(s)) /\ j - Len(s) = i
    BY <1>0, <1>2, <2>1
  <2>3. w[j] = u[j] /\ u[j] = k[i]
    BY <1>2, <1>4, <2>2
  <2>4. QED BY <2>1, <2>3
<1>7. ASSUME NEW i \in 1..Len(t) PROVE w[Len(s) + Len(k) + i] = t[i]
  <2>1. PICK j : j = Len(s) + Len(k) + i
    OBVIOUS
  <2>2. j \in 1..(Len(u) + Len(t)) /\ ~(j <= Len(u)) /\ j - Len(u) = i
    BY <1>0, <1>2, <2>1
  <2>3. w[j] = t[i]
    BY <1>4, <2>2
  <2>4. QED BY <2>1, <2>3
<1>8. w = (s \o k) \o t
  BY <1>1, <1>3
<1>9. Len(w) = Len(s) + Len(k) + Len(t)
  BY <1>2, <1>4
<1>10. QED BY <1>4, <1>5, <1>6, <1>7, <1>8, <1>9

LEMMA AscFacts ==
  ASSUME NEW s, NEW a, NEW b, Asc(s, a, b)
  PROVE  /\ s \in Seq(Strings) /\ Len(s) \in Nat
         /\ \A i \in 1..Len(s) : IsKey(s[i]) /\ s[i] \in Strings /\ (a # None => Before(a, s[i])) /\ (b # None => Before(s[i], b))
         /\ \A i \in 1..Len(s), j \in 1..Len(s) : i < j => Before(s[i], s[j])
  BY ListFacts DEF Asc, Between

\* Rows on both sides of a row, the outer ones beyond its bounds.
LEMMA AscsJoin ==
  ASSUME NEW a, IsBound(a), NEW b, IsBound(b),
         NEW s \in Seq(Strings), NEW k \in Seq(Strings), NEW t \in Seq(Strings),
         \A i \in 1..Len(s) : Between(s[i], a, b),
         \A i \in 1..Len(k) : Between(k[i], a, b),
         \A i \in 1..Len(t) : Between(t[i], a, b),
         \A i \in 1..Len(s), j \in 1..Len(s) : i < j => Before(s[i], s[j]),
         \A i \in 1..Len(k), j \in 1..Len(k) : i < j => Before(k[i], k[j]),
         \A i \in 1..Len(t), j \in 1..Len(t) : i < j => Before(t[i], t[j]),
         \A i \in 1..Len(s), j \in 1..Len(k) : Before(s[i], k[j]),
         \A i \in 1..Len(s), j \in 1..Len(t) : Before(s[i], t[j]),
         \A i \in 1..Len(k), j \in 1..Len(t) : Before(k[i], t[j])
  PROVE  Asc((s \o k) \o t, a, b)
PROOF
<1>0. Len(s) \in Nat /\ Len(k) \in Nat /\ Len(t) \in Nat
  BY LenProperties
<1>1. PICK u : u = (s \o k) \o t
  OBVIOUS
<1>2. /\ u \in Seq(Strings) /\ Len(u) = Len(s) + Len(k) + Len(t)
      /\ \A i \in 1..Len(s) : u[i] = s[i]
      /\ \A i \in 1..Len(k) : u[Len(s) + i] = k[i]
      /\ \A i \in 1..Len(t) : u[Len(s) + Len(k) + i] = t[i]
  BY <1>1, ThreeParts
<1>3. ASSUME NEW i \in 1..Len(u)
      PROVE  \/ i \in 1..Len(s)
             \/ \E m \in 1..Len(k) : i = Len(s) + m
             \/ \E m \in 1..Len(t) : i = Len(s) + Len(k) + m
  <2>1. CASE i <= Len(s)
    BY <1>0, <2>1
  <2>2. CASE ~(i <= Len(s)) /\ i <= Len(s) + Len(k)
    <3>1. PICK m : m = i - Len(s)
      OBVIOUS
    <3>2. m \in 1..Len(k) /\ i = Len(s) + m
      BY <1>0, <2>2, <3>1
    <3>3. QED BY <3>2
  <2>3. CASE ~(i <= Len(s) + Len(k))
    <3>1. PICK m : m = i - (Len(s) + Len(k))
      OBVIOUS
    <3>2. m \in 1..Len(t) /\ i = Len(s) + Len(k) + m
      BY <1>0, <1>2, <2>3, <3>1
    <3>3. QED BY <3>2
  <2>4. QED BY <2>1, <2>2, <2>3
<1>4. ASSUME NEW i \in 1..Len(u) PROVE Between(u[i], a, b)
  BY <1>2, <1>3
<1>5. ASSUME NEW i \in 1..Len(u), NEW j \in 1..Len(u), i < j PROVE Before(u[i], u[j])
  <2>1. CASE i \in 1..Len(s)
    <3>1. CASE j \in 1..Len(s)
      BY <1>2, <1>5, <2>1, <3>1
    <3>2. CASE \E m \in 1..Len(k) : j = Len(s) + m
      BY <1>2, <2>1, <3>2
    <3>3. CASE \E m \in 1..Len(t) : j = Len(s) + Len(k) + m
      BY <1>2, <2>1, <3>3
    <3>4. QED BY <1>3, <3>1, <3>2, <3>3
  <2>2. ASSUME NEW p \in 1..Len(k), i = Len(s) + p PROVE Before(u[i], u[j])
    <3>1. CASE j \in 1..Len(s)
      BY <1>0, <1>5, <2>2, <3>1
    <3>2. ASSUME NEW m \in 1..Len(k), j = Len(s) + m PROVE Before(u[i], u[j])
      <4>1. p < m
        BY <1>0, <1>5, <2>2, <3>2
      <4>2. QED BY <1>2, <2>2, <3>2, <4>1
    <3>3. CASE \E m \in 1..Len(t) : j = Len(s) + Len(k) + m
      BY <1>2, <2>2, <3>3
    <3>4. QED BY <1>3, <3>1, <3>2, <3>3
  <2>3. ASSUME NEW p \in 1..Len(t), i = Len(s) + Len(k) + p PROVE Before(u[i], u[j])
    <3>1. CASE j \in 1..Len(s)
      BY <1>0, <1>5, <2>3, <3>1
    <3>2. ASSUME NEW m \in 1..Len(k), j = Len(s) + m PROVE FALSE
      BY <1>0, <1>5, <2>3, <3>2
    <3>3. ASSUME NEW m \in 1..Len(t), j = Len(s) + Len(k) + m PROVE Before(u[i], u[j])
      <4>1. p < m
        BY <1>0, <1>5, <2>3, <3>3
      <4>2. QED BY <1>2, <2>3, <3>3, <4>1
    <3>4. QED BY <1>3, <3>1, <3>2, <3>3
  <2>4. QED BY <1>3, <2>1, <2>2, <2>3
<1>6. Asc(u, a, b)
  BY <1>2, <1>4, <1>5 DEF Asc
<1>7. QED BY <1>1, <1>6

LEMMA OneKey ==
  ASSUME NEW c \in Strings
  PROVE  /\ <<c>> \in Seq(Strings) /\ Len(<<c>>) = 1 /\ <<c>>[1] = c
         /\ \A i \in 1..1 : <<c>>[i] = c
PROOF
<1>1. <<c>> \in Seq(Strings) /\ Len(<<c>>) = 1 /\ <<c>>[1] = c
  OBVIOUS
<1>2. \A i \in 1..1 : i = 1
  OBVIOUS
<1>3. QED BY <1>1, <1>2

\* A row below a key and a row above it.
LEMMA AscsAround ==
  ASSUME NEW a, IsBound(a), NEW b, IsBound(b), NEW c, Between(c, a, b),
         NEW s, Asc(s, a, c), NEW t, Asc(t, c, b)
  PROVE  Asc((s \o <<c>>) \o t, a, b)
PROOF
<1>1. c \in Strings /\ c # None /\ IsBound(c)
  BY BoundsAreStrings, KeyParts DEF Between, IsBound
<1>2. /\ s \in Seq(Strings) /\ t \in Seq(Strings)
      /\ \A i \in 1..Len(s) : s[i] \in Strings /\ Before(s[i], c) /\ Between(s[i], a, c)
      /\ \A i \in 1..Len(t) : t[i] \in Strings /\ Before(c, t[i]) /\ Between(t[i], c, b)
  <2>1. s \in Seq(Strings) /\ \A i \in 1..Len(s) : s[i] \in Strings /\ (c # None => Before(s[i], c))
    BY AscFacts
  <2>2. t \in Seq(Strings) /\ \A i \in 1..Len(t) : t[i] \in Strings /\ (c # None => Before(c, t[i]))
    BY AscFacts
  <2>3. (\A i \in 1..Len(s) : Between(s[i], a, c)) /\ (\A i \in 1..Len(t) : Between(t[i], c, b))
    BY DEF Asc
  <2>4. QED BY <1>1, <2>1, <2>2, <2>3
<1>3. PICK k : k = <<c>>
  OBVIOUS
<1>4. k \in Seq(Strings) /\ Len(k) = 1 /\ \A i \in 1..Len(k) : k[i] = c
  BY <1>1, <1>3, OneKey
<1>5. \A i \in 1..Len(s) : Between(s[i], a, b)
  <2>1. a # None => a # None /\ (a = a \/ Before(a, a))
    OBVIOUS
  <2>2. b # None => c # None /\ (c = b \/ Before(c, b))
    BY <1>1 DEF Between
  <2>3. QED BY <1>1, <1>2, <2>1, <2>2, BetweenNests
<1>6. \A i \in 1..Len(t) : Between(t[i], a, b)
  <2>1. a # None => c # None /\ (c = a \/ Before(a, c))
    BY <1>1 DEF Between
  <2>2. b # None => b # None /\ (b = b \/ Before(b, b))
    OBVIOUS
  <2>3. QED BY <1>1, <1>2, <2>1, <2>2, BetweenNests
<1>7. \A i \in 1..Len(k) : Between(k[i], a, b)
  BY <1>4
<1>8. /\ \A i \in 1..Len(s), j \in 1..Len(s) : i < j => Before(s[i], s[j])
      /\ \A i \in 1..Len(t), j \in 1..Len(t) : i < j => Before(t[i], t[j])
  BY AscFacts
<1>9. \A i \in 1..Len(k), j \in 1..Len(k) : ~(i < j)
  BY <1>4
<1>10. /\ \A i \in 1..Len(s), j \in 1..Len(k) : Before(s[i], k[j])
       /\ \A i \in 1..Len(k), j \in 1..Len(t) : Before(k[i], t[j])
  BY <1>2, <1>4
<1>11. \A i \in 1..Len(s), j \in 1..Len(t) : Before(s[i], t[j])
  BY <1>1, <1>2, BeforeTransitive
<1>12. Asc((s \o k) \o t, a, b)
  BY <1>2, <1>4, <1>5, <1>6, <1>7, <1>8, <1>9, <1>10, <1>11, AscsJoin
<1>13. QED BY <1>3, <1>12

LEMMA EmptyAsc ==
  ASSUME NEW a, NEW b
  PROVE  Asc(<<>>, a, b) /\ << >> \in Seq(Strings) /\ Len(<<>>) = 0
PROOF
<1>1. << >> \in Seq(Strings) /\ Len(<<>>) = 0
  BY EmptySeq
<1>2. QED BY <1>1 DEF Asc

\* NKeysBetween returns the keys asked for, in order, between the bounds, or fails.
NKeysRight(n, a, b) ==
  /\ NKeysBetween[n][<<a, b>>] \in Seq(Strings)
  /\ Failed \notin ToSet(NKeysBetween[n][<<a, b>>]) =>
        Len(NKeysBetween[n][<<a, b>>]) = n /\ Asc(NKeysBetween[n][<<a, b>>], a, b)

InOrder(a, b) == IsBound(a) /\ IsBound(b) /\ (a # None /\ b # None => Before(a, b))

LEMMA FailedApart ==
  ASSUME NEW s \in Seq(Strings), NEW k \in Seq(Strings), NEW t \in Seq(Strings), Failed \notin ToSet((s \o k) \o t)
  PROVE  Failed \notin ToSet(s) /\ Failed \notin ToSet(k) /\ Failed \notin ToSet(t)
PROOF
<1>0. Len(s) \in Nat /\ Len(k) \in Nat /\ Len(t) \in Nat /\ DOMAIN s = 1..Len(s) /\ DOMAIN k = 1..Len(k) /\ DOMAIN t = 1..Len(t)
  BY LenProperties
<1>1. PICK u : u = (s \o k) \o t
  OBVIOUS
<1>2. /\ u \in Seq(Strings) /\ Len(u) = Len(s) + Len(k) + Len(t)
      /\ \A i \in 1..Len(s) : u[i] = s[i]
      /\ \A i \in 1..Len(k) : u[Len(s) + i] = k[i]
      /\ \A i \in 1..Len(t) : u[Len(s) + Len(k) + i] = t[i]
  BY <1>1, ThreeParts
<1>3. DOMAIN u = 1..Len(u) /\ \A i \in 1..Len(u) : u[i] # Failed
  <2>1. DOMAIN u = 1..Len(u)
    BY <1>2, LenProperties
  <2>2. QED BY <1>1, <2>1 DEF ToSet
<1>4. /\ \A i \in 1..Len(s) : i \in 1..Len(u)
      /\ \A i \in 1..Len(k) : Len(s) + i \in 1..Len(u)
      /\ \A i \in 1..Len(t) : Len(s) + Len(k) + i \in 1..Len(u)
  BY <1>0, <1>2
<1>5. /\ \A i \in 1..Len(s) : s[i] # Failed
      /\ \A i \in 1..Len(k) : k[i] # Failed
      /\ \A i \in 1..Len(t) : t[i] # Failed
  BY <1>2, <1>3, <1>4
<1>6. QED BY <1>0, <1>5 DEF ToSet

LEMMA NKeysFacts ==
  ASSUME NEW n \in 0..MaxKeys, NEW a, NEW b, InOrder(a, b)
  PROVE  NKeysRight(n, a, b)
PROOF
<1>1. PICK T : T = {k \in Nat : k <= MaxKeys /\ \E x, y : InOrder(x, y) /\ ~NKeysRight(k, x, y)}
  OBVIOUS
<1>2. SUFFICES ASSUME ~NKeysRight(n, a, b) PROVE FALSE
  OBVIOUS
<1>3. PICK k \in T : \A m \in T : ~(m < k)
  <2>1. n \in T
    BY <1>1, <1>2, Constants
  <2>2. T \subseteq Nat /\ T # {}
    BY <1>1, <2>1
  <2>3. QED BY <2>2, LeastNumber
<1>4. k \in Nat /\ k <= MaxKeys /\ k \in 0..MaxKeys
  BY <1>1, Constants
<1>5. PICK x, y : InOrder(x, y) /\ ~NKeysRight(k, x, y)
  BY <1>1
<1>6. ASSUME NEW m \in 0..(k - 1), NEW p, NEW q, InOrder(p, q) PROVE NKeysRight(m, p, q)
  <2>1. m \in Nat /\ m < k /\ m <= MaxKeys
    BY <1>4, Constants
  <2>2. m \notin T
    BY <1>3, <2>1
  <2>3. QED BY <1>1, <1>6, <2>1, <2>2
<1>7. IsBound(x) /\ IsBound(y) /\ x \in Strings /\ y \in Strings /\ (x # None /\ y # None => Before(x, y))
  BY <1>5, BoundsAreStrings DEF InOrder
<1>8. PICK c, ks : c = KeyBetween(x, y) /\ ks = NKeysBetween[k][<<x, y>>]
  OBVIOUS
<1>9. ks = NBody(NKeysBetween, k, x, y)
  BY <1>4, <1>7, <1>8, NKeysIs
<1>10. c = Failed \/ Between(c, x, y)
  BY <1>7, <1>8, KeyBetweenFacts
<1>11. SUFFICES ks \in Seq(Strings) /\ (Failed \notin ToSet(ks) => Len(ks) = k /\ Asc(ks, x, y))
  BY <1>5, <1>8 DEF NKeysRight
<1>12. CASE k = 0
  <2>1. ks = <<>>
    BY <1>9, <1>12 DEF NBody
  <2>2. QED BY <1>12, <2>1, EmptyAsc
<1>13. CASE k # 0 /\ c = Failed
  <2>1. ks = <<c>>
    BY <1>8, <1>9, <1>13 DEF NBody
  <2>2. c \in Strings
    BY <1>13, One, Constants DEF Failed
  <2>3. ks \in Seq(Strings) /\ Len(ks) = 1 /\ ks[1] = Failed
    BY <1>13, <2>1, <2>2, OneKey
  <2>4. Failed \in ToSet(ks)
    <3>1. 1 \in DOMAIN ks
      BY <2>3, LenProperties
    <3>2. QED BY <2>3, <3>1 DEF ToSet
  <2>5. QED BY <2>3, <2>4
<1>14. CASE k # 0 /\ c # Failed
  <2>1. Between(c, x, y) /\ c \in Strings /\ IsBound(c) /\ c # None
    BY <1>10, <1>14, BoundsAreStrings, KeyParts DEF Between, IsBound
  <2>2. InOrder(x, c) /\ InOrder(c, y)
    BY <1>7, <2>1 DEF InOrder, Between
  <2>3. <<c>> \in Seq(Strings) /\ Len(<<c>>) = 1 /\ << >> \in Seq(Strings) /\ Len(<<>>) = 0
    BY <2>1, OneKey, EmptyAsc
  \* The key found, with the keys below it and the keys above it.
  <2>4. ASSUME NEW s \in Seq(Strings), NEW t \in Seq(Strings), ks = (s \o <<c>>) \o t, Len(s) + 1 + Len(t) = k \/ Failed \in ToSet(s) \/ Failed \in ToSet(t),
               Failed \notin ToSet(s) => Asc(s, x, c),
               Failed \notin ToSet(t) => Asc(t, c, y)
        PROVE  ks \in Seq(Strings) /\ (Failed \notin ToSet(ks) => Len(ks) = k /\ Asc(ks, x, y))
    <3>1. ks \in Seq(Strings) /\ Len(ks) = Len(s) + 1 + Len(t)
      BY <2>3, <2>4, ThreeParts
    <3>2. ASSUME Failed \notin ToSet(ks) PROVE Len(ks) = k /\ Asc(ks, x, y)
      <4>1. Failed \notin ToSet(s) /\ Failed \notin ToSet(t)
        BY <2>3, <2>4, <3>2, FailedApart
      <4>2. Asc(ks, x, y)
        BY <1>7, <2>1, <2>4, <4>1, AscsAround
      <4>3. QED BY <2>4, <3>1, <4>1, <4>2
    <3>3. QED BY <3>1, <3>2
  <2>5. CASE k = 1
    <3>1. ks = <<c>>
      BY <1>8, <1>9, <1>14, <2>5 DEF NBody
    <3>2. ks = (<<>> \o <<c>>) \o <<>>
      BY <2>3, <3>1, ConcatEmptySeq
    <3>3. Asc(<<>>, x, c) /\ Asc(<<>>, c, y)
      BY EmptyAsc
    <3>4. Len(<<>>) + 1 + Len(<<>>) = k
      BY <2>3, <2>5
    <3>5. QED BY <2>3, <2>4, <3>2, <3>3, <3>4
  <2>6. CASE k # 1
    <3>1. k >= 2
      BY <1>4, <1>14, <2>6
    <3>2. CASE y = None
      <4>1. PICK t : t = NKeysBetween[k - 1][<<c, y>>]
        OBVIOUS
      <4>2. ks = <<c>> \o t
        BY <1>8, <1>9, <1>14, <2>6, <3>2, <4>1 DEF NBody
      <4>3. t \in Seq(Strings) /\ (Failed \notin ToSet(t) => Len(t) = k - 1 /\ Asc(t, c, y))
        <5>1. NKeysRight(k - 1, c, y)
          BY <1>4, <1>6, <2>2, <3>1, Halves
        <5>2. QED BY <4>1, <5>1 DEF NKeysRight
      <4>4. ks = (<<>> \o <<c>>) \o t
        BY <2>3, <4>2, ConcatEmptySeq
      <4>5. Len(<<>>) + 1 + Len(t) = k \/ Failed \in ToSet(t)
        BY <1>4, <2>3, <4>3
      <4>6. Asc(<<>>, x, c)
        BY EmptyAsc
      <4>7. QED BY <2>3, <2>4, <4>3, <4>4, <4>5, <4>6
    <3>3. CASE y # None /\ x = None
      <4>1. PICK s : s = NKeysBetween[k - 1][<<x, c>>]
        OBVIOUS
      <4>2. ks = s \o <<c>>
        BY <1>8, <1>9, <1>14, <2>6, <3>3, <4>1 DEF NBody
      <4>3. s \in Seq(Strings) /\ (Failed \notin ToSet(s) => Len(s) = k - 1 /\ Asc(s, x, c))
        <5>1. NKeysRight(k - 1, x, c)
          BY <1>4, <1>6, <2>2, <3>1, Halves
        <5>2. QED BY <4>1, <5>1 DEF NKeysRight
      <4>4. ks = (s \o <<c>>) \o <<>>
        <5>1. s \o <<c>> \in Seq(Strings)
          BY <2>3, <4>3, ConcatProperties
        <5>2. QED BY <4>2, <5>1, ConcatEmptySeq
      <4>5. Len(s) + 1 + Len(<<>>) = k \/ Failed \in ToSet(s)
        BY <1>4, <2>3, <4>3
      <4>6. Asc(<<>>, c, y)
        BY EmptyAsc
      <4>7. QED BY <2>3, <2>4, <4>3, <4>4, <4>5, <4>6
    <3>4. CASE y # None /\ x # None
      <4>1. PICK s, t : s = NKeysBetween[k \div 2][<<x, c>>] /\ t = NKeysBetween[k - (k \div 2) - 1][<<c, y>>]
        OBVIOUS
      <4>2. ks = (s \o <<c>>) \o t
        BY <1>8, <1>9, <1>14, <2>6, <3>4, <4>1 DEF NBody
      <4>3. s \in Seq(Strings) /\ (Failed \notin ToSet(s) => Len(s) = k \div 2 /\ Asc(s, x, c))
        <5>1. NKeysRight(k \div 2, x, c)
          BY <1>4, <1>6, <2>2, <3>1, Halves
        <5>2. QED BY <4>1, <5>1 DEF NKeysRight
      <4>4. t \in Seq(Strings) /\ (Failed \notin ToSet(t) => Len(t) = k - (k \div 2) - 1 /\ Asc(t, c, y))
        <5>1. NKeysRight(k - (k \div 2) - 1, c, y)
          BY <1>4, <1>6, <2>2, <3>1, Halves
        <5>2. QED BY <4>1, <5>1 DEF NKeysRight
      <4>5. Len(s) + 1 + Len(t) = k \/ Failed \in ToSet(s) \/ Failed \in ToSet(t)
        BY <1>4, <3>1, <4>3, <4>4, Halves
      <4>6. QED BY <2>4, <4>2, <4>3, <4>4, <4>5
    <3>5. QED BY <3>2, <3>3, <3>4
  <2>7. QED BY <2>5, <2>6
<1>15. QED BY <1>12, <1>13, <1>14

-----------------------------------------------------------------------------
(* The inductive invariant: the keys of the channels are keys, each below   *)
(* all that come after it. Neighbours alone would not do: a removal brings  *)
(* two channels together that were apart.                                   *)

OrderInv == Asc(order, None, None)

LEMMA GivenKeys ==
  ASSUME NEW k \in Given
  PROVE  IsKey(k)
PROOF
<1>1. PICK n \in 2..StartLength : k \in [1..n -> (-Heads)..(Base - 1)]
  BY DEF Given
<1>2. k[1] < Heads /\ (\A i \in 2..Len(k) : k[i] \in Digits) /\ validateOrderKey(k)
  BY DEF Given
<1>3. n \in Nat /\ n >= 2
  BY SortKeyAssumption
<1>4. k \in [1..n -> Int]
  BY <1>1, Constants
<1>5. k \in Strings /\ Len(k) = n
  <2>1. k \in Seq(Int) /\ Len(k) = n
    BY <1>3, <1>4
  <2>2. QED BY <2>1 DEF Strings
<1>6. k[1] \in HeadSet
  <2>1. 1 \in 1..n
    BY <1>3
  <2>2. k[1] \in (-Heads)..(Base - 1)
    BY <1>1, <2>1
  <2>3. QED BY <1>2, <2>2, Constants DEF HeadSet
<1>7. PICK m \in Nat : m = getIntLen(k[1]) /\ m >= 2
  BY <1>6, HeadLength
<1>8. m <= n
  <2>1. ~(m > Len(k))
    BY <1>2, <1>7 DEF validateOrderKey, getIntPart
  <2>2. QED BY <1>3, <1>5, <1>7, <2>1
<1>9. ASSUME m < n PROVE k[n] # 0
  <2>1. m \in 0..Len(k)
    BY <1>3, <1>5, <1>7, <1>8
  <2>2. Len(Rest(k, m)) = n - m
    BY <1>5, <2>1, StartAndRest
  <2>3. Rest(k, m) # None
    BY <1>3, <1>7, <1>9, <2>2, Nothing
  <2>4. Fraction(k) # << >>
    BY <1>7, <2>3 DEF Fraction, Rest, None
  <2>5. QED BY <1>2, <1>5, <2>4 DEF validateOrderKey, Last
<1>10. QED BY <1>2, <1>3, <1>5, <1>6, <1>7, <1>8, <1>9 DEF IsKey

LEMMA OrderInit ==
  SortInit => OrderInv
PROOF
<1>1. SUFFICES ASSUME SortInit PROVE Asc(order, None, None)
  BY DEF OrderInv
<1>2. CASE order = <<>>
  BY <1>2, EmptyAsc
<1>3. CASE order # <<>>
  <2>1. PICK k \in Given : order = <<k>>
    BY <1>1, <1>3 DEF SortInit
  <2>2. IsKey(k) /\ k \in Strings
    BY GivenKeys DEF IsKey
  <2>3. Between(k, None, None)
    BY <2>2 DEF Between
  <2>4. Asc(<<>>, None, k) /\ Asc(<<>>, k, None) /\ << >> \in Seq(Strings)
    BY EmptyAsc
  <2>5. Asc((<<>> \o <<k>>) \o <<>>, None, None)
    BY <2>3, <2>4, AscsAround DEF IsBound
  <2>6. (<<>> \o <<k>>) \o <<>> = <<k>>
    BY <2>2, <2>4, OneKey, ConcatEmptySeq
  <2>7. QED BY <2>1, <2>5, <2>6
<1>4. QED BY <1>2, <1>3

LEMMA NeighboursInOrder ==
  ASSUME OrderInv, NEW i \in 0..Len(order)
  PROVE  /\ InOrder(KeyAt(i), KeyAt(i + 1))
         /\ KeyAt(i) # None => i \in 1..Len(order) /\ KeyAt(i) = order[i]
         /\ KeyAt(i + 1) # None => i + 1 \in 1..Len(order) /\ KeyAt(i + 1) = order[i + 1]
         /\ i \in 1..Len(order) => KeyAt(i) = order[i] /\ KeyAt(i) # None
         /\ i + 1 \in 1..Len(order) => KeyAt(i + 1) = order[i + 1] /\ KeyAt(i + 1) # None
PROOF
<1>1. /\ order \in Seq(Strings) /\ Len(order) \in Nat /\ DOMAIN order = 1..Len(order)
      /\ \A j \in 1..Len(order) : IsKey(order[j]) /\ order[j] # None
      /\ \A j \in 1..Len(order), k \in 1..Len(order) : j < k => Before(order[j], order[k])
  BY AscFacts, ListFacts, KeyParts DEF OrderInv
<1>2. \A j : KeyAt(j) # None => j \in 1..Len(order)
  BY <1>1 DEF KeyAt
<1>3. \A j \in 1..Len(order) : KeyAt(j) = order[j] /\ KeyAt(j) # None
  BY <1>1 DEF KeyAt
<1>4. IsBound(KeyAt(i)) /\ IsBound(KeyAt(i + 1))
  BY <1>1, <1>2, <1>3 DEF IsBound
<1>5. ASSUME KeyAt(i) # None, KeyAt(i + 1) # None PROVE Before(KeyAt(i), KeyAt(i + 1))
  <2>1. i \in 1..Len(order) /\ i + 1 \in 1..Len(order) /\ i < i + 1
    BY <1>2, <1>5
  <2>2. QED BY <1>1, <1>3, <2>1
<1>6. QED BY <1>2, <1>3, <1>4, <1>5 DEF InOrder

\* A slice of a list of strings, in places counted from its first.
LEMMA SliceFacts ==
  ASSUME NEW q \in Seq(Strings), NEW m \in 1..(Len(q) + 1), NEW n \in 0..Len(q), m <= n + 1,
         NEW s, s = SubSeq(q, m, n)
  PROVE  /\ s \in Seq(Strings) /\ Len(s) = n - m + 1
         /\ \A j \in 1..(n - m + 1) : s[j] = q[m + j - 1] /\ m + j - 1 \in 1..Len(q)
PROOF
<1>1. Len(q) \in Nat /\ m \in Int /\ n \in Int
  BY LenProperties
<1>2. \A j \in m..n : j \in 1..Len(q) /\ q[j] \in Strings
  <2>1. \A j \in m..n : j \in 1..Len(q)
    BY <1>1
  <2>2. QED BY <2>1, ListFacts
<1>3. /\ s \in Seq(Strings) /\ Len(s) = (IF m <= n THEN n - m + 1 ELSE 0)
      /\ \A j \in 1..(n - m + 1) : s[j] = q[m + j - 1]
  BY <1>1, <1>2, SubSeqProperties
<1>4. Len(s) = n - m + 1
  BY <1>1, <1>3
<1>5. \A j \in 1..(n - m + 1) : m + j - 1 \in 1..Len(q)
  BY <1>1
<1>6. QED BY <1>3, <1>4, <1>5

\* New keys between two neighbours go between all that is before and all after.
LEMMA AscPlaced ==
  ASSUME OrderInv, NEW i \in 0..Len(order), NEW ks, Asc(ks, KeyAt(i), KeyAt(i + 1))
  PROVE  Asc((SubSeq(order, 1, i) \o ks) \o SubSeq(order, i + 1, Len(order)), None, None)
PROOF
<1>1. /\ order \in Seq(Strings) /\ Len(order) \in Nat
      /\ \A j \in 1..Len(order) : IsKey(order[j]) /\ order[j] \in Strings
      /\ \A j \in 1..Len(order), k \in 1..Len(order) : j < k => Before(order[j], order[k])
  BY AscFacts DEF OrderInv
<1>2. PICK s, t : s = SubSeq(order, 1, i) /\ t = SubSeq(order, i + 1, Len(order))
  OBVIOUS
<1>3. s \in Seq(Strings) /\ Len(s) = i /\ \A j \in 1..i : s[j] = order[j] /\ j \in 1..Len(order)
  <2>1. 1 \in 1..(Len(order) + 1) /\ 1 <= i + 1 /\ i - 1 + 1 = i
    BY <1>1
  <2>2. /\ s \in Seq(Strings) /\ Len(s) = i - 1 + 1
        /\ \A j \in 1..(i - 1 + 1) : s[j] = order[1 + j - 1] /\ 1 + j - 1 \in 1..Len(order)
    BY <1>1, <1>2, <2>1, SliceFacts
  <2>3. \A j \in 1..i : 1 + j - 1 = j
    OBVIOUS
  <2>4. QED BY <2>1, <2>2, <2>3
<1>4. t \in Seq(Strings) /\ Len(t) = Len(order) - i /\ \A j \in 1..(Len(order) - i) : t[j] = order[i + j] /\ i + j \in 1..Len(order)
  <2>1. /\ i + 1 \in 1..(Len(order) + 1) /\ Len(order) \in 0..Len(order) /\ i + 1 <= Len(order) + 1
        /\ Len(order) - (i + 1) + 1 = Len(order) - i
    BY <1>1
  <2>2. /\ t \in Seq(Strings) /\ Len(t) = Len(order) - (i + 1) + 1
        /\ \A j \in 1..(Len(order) - (i + 1) + 1) : t[j] = order[i + 1 + j - 1] /\ i + 1 + j - 1 \in 1..Len(order)
    BY <1>1, <1>2, <2>1, SliceFacts
  <2>3. \A j \in 1..(Len(order) - i) : i + 1 + j - 1 = i + j
    <3>1. i \in Int
      OBVIOUS
    <3> QED  BY ONLY <3>1
  <2>4. QED BY <2>1, <2>2, <2>3
<1>5. PICK lo, hi : lo = KeyAt(i) /\ hi = KeyAt(i + 1)
  OBVIOUS
<1>6. /\ IsBound(lo) /\ IsBound(hi)
      /\ i \in 1..Len(order) => lo = order[i] /\ lo # None
      /\ i + 1 \in 1..Len(order) => hi = order[i + 1] /\ hi # None
  BY <1>5, NeighboursInOrder DEF InOrder
<1>7. /\ ks \in Seq(Strings) /\ Len(ks) \in Nat
      /\ \A j \in 1..Len(ks) : IsKey(ks[j]) /\ ks[j] \in Strings /\ (lo # None => Before(lo, ks[j])) /\ (hi # None => Before(ks[j], hi))
      /\ \A j \in 1..Len(ks), k \in 1..Len(ks) : j < k => Before(ks[j], ks[k])
  <2>1. Asc(ks, lo, hi)
    BY <1>5
  <2>2. QED BY <2>1, AscFacts
<1>8. ASSUME NEW j \in 1..Len(s), NEW k \in 1..Len(ks) PROVE Before(s[j], ks[k])
  <2>1. j \in 1..i /\ i \in 1..Len(order) /\ s[j] = order[j] /\ j \in 1..Len(order)
    BY <1>1, <1>3
  <2>2. Before(order[i], ks[k])
    BY <1>6, <1>7, <2>1
  <2>3. CASE j = i
    BY <2>1, <2>2, <2>3
  <2>4. CASE j # i
    <3>1. j < i
      BY <2>1, <2>4
    <3>2. Before(order[j], order[i])
      BY <1>1, <2>1, <3>1
    <3>3. order[j] \in Strings /\ order[i] \in Strings /\ ks[k] \in Strings
      BY <1>1, <1>7, <2>1
    <3>4. QED BY <2>1, <2>2, <3>2, <3>3, BeforeTransitive
  <2>5. QED BY <2>3, <2>4
<1>9. ASSUME NEW k \in 1..Len(ks), NEW j \in 1..Len(t) PROVE Before(ks[k], t[j])
  <2>1. PICK m \in 1..Len(order) : m = i + j
    BY <1>4
  <2>2. i + 1 \in 1..Len(order) /\ t[j] = order[m] /\ i + 1 <= m
    BY <1>1, <1>4, <2>1
  <2>3. Before(ks[k], order[i + 1])
    BY <1>6, <1>7, <2>2
  <2>4. CASE m = i + 1
    BY <2>2, <2>3, <2>4
  <2>5. CASE m # i + 1
    <3>1. i + 1 < m
      BY <1>1, <2>2, <2>5
    <3>2. Before(order[i + 1], order[m])
      BY <1>1, <2>2, <3>1
    <3>3. order[i + 1] \in Strings /\ order[m] \in Strings /\ ks[k] \in Strings
      BY <1>1, <1>7, <2>2
    <3>4. QED BY <2>2, <2>3, <3>2, <3>3, BeforeTransitive
  <2>6. QED BY <2>4, <2>5
<1>10. ASSUME NEW j \in 1..Len(s), NEW k \in 1..Len(t) PROVE Before(s[j], t[k])
  <2>1. s[j] = order[j] /\ t[k] = order[i + k] /\ j \in 1..Len(order) /\ i + k \in 1..Len(order)
    BY <1>3, <1>4
  <2>2. j < i + k
    BY <1>1, <1>3, <1>4
  <2>3. QED BY <1>1, <2>1, <2>2
<1>11. ASSUME NEW j \in 1..Len(s), NEW k \in 1..Len(s), j < k PROVE Before(s[j], s[k])
  BY <1>1, <1>3, <1>11
<1>12. ASSUME NEW j \in 1..Len(t), NEW k \in 1..Len(t), j < k PROVE Before(t[j], t[k])
  <2>1. t[j] = order[i + j] /\ t[k] = order[i + k] /\ i + j \in 1..Len(order) /\ i + k \in 1..Len(order)
    BY <1>4
  <2>2. i + j < i + k
    BY <1>1, <1>4, <1>12
  <2>3. QED BY <1>1, <2>1, <2>2
<1>13. /\ \A j \in 1..Len(s) : Between(s[j], None, None)
       /\ \A j \in 1..Len(ks) : Between(ks[j], None, None)
       /\ \A j \in 1..Len(t) : Between(t[j], None, None)
  BY <1>1, <1>3, <1>4, <1>7 DEF Between
<1>14. IsBound(None)
  BY DEF IsBound
<1>15. Asc((s \o ks) \o t, None, None)
  BY <1>3, <1>4, <1>7, <1>8, <1>9, <1>10, <1>11, <1>12, <1>13, <1>14, AscsJoin
<1>16. QED BY <1>2, <1>15

LEMMA PlaceChannelStep ==
  ASSUME OrderInv, NEW i \in 0..Len(order), PlaceChannel(i)
  PROVE  OrderInv'
PROOF
<1>1. PICK c : c = KeyBetween(KeyAt(i), KeyAt(i + 1)) /\ c # Failed /\ order' = InsertAt(order, i + 1, c)
  BY DEF PlaceChannel
<1>2. PICK lo, hi : lo = KeyAt(i) /\ hi = KeyAt(i + 1)
  OBVIOUS
<1>3. IsBound(lo) /\ IsBound(hi) /\ (lo # None /\ hi # None => Before(lo, hi))
  BY <1>2, NeighboursInOrder DEF InOrder
<1>4. Between(c, lo, hi) /\ c \in Strings
  BY <1>1, <1>2, <1>3, KeyBetweenFacts DEF Between, IsKey
<1>5. Asc(<<>>, lo, c) /\ Asc(<<>>, c, hi) /\ << >> \in Seq(Strings)
  BY EmptyAsc
<1>6. Asc((<<>> \o <<c>>) \o <<>>, lo, hi)
  BY <1>3, <1>4, <1>5, AscsAround
<1>7. (<<>> \o <<c>>) \o <<>> = <<c>>
  BY <1>4, <1>5, OneKey, ConcatEmptySeq
<1>8. Asc(<<c>>, KeyAt(i), KeyAt(i + 1))
  BY <1>2, <1>6, <1>7
<1>9. order' = (SubSeq(order, 1, i) \o <<c>>) \o SubSeq(order, i + 1, Len(order))
  <2>1. Len(order) \in Nat
    BY AscFacts DEF OrderInv
  <2>2. PICK m : m = i + 1
    OBVIOUS
  <2>3. m - 1 = i
    BY <2>1, <2>2
  <2>4. order' = (SubSeq(order, 1, m - 1) \o <<c>>) \o SubSeq(order, m, Len(order))
    BY <1>1, <2>2 DEF InsertAt
  <2>5. QED BY <2>2, <2>3, <2>4
<1>10. Asc(order', None, None)
  BY <1>8, <1>9, AscPlaced
<1>11. QED BY <1>10 DEF OrderInv

LEMMA PlaceChannelsStep ==
  ASSUME OrderInv, NEW i \in 0..Len(order), NEW n \in {2, 3}, PlaceChannels(i, n)
  PROVE  OrderInv'
PROOF
<1>1. PICK ks : /\ ks = NKeysBetween[n][<<KeyAt(i), KeyAt(i + 1)>>] /\ Failed \notin ToSet(ks)
                /\ order' = (SubSeq(order, 1, i) \o ks) \o SubSeq(order, i + 1, Len(order))
  BY DEF PlaceChannels
<1>2. n \in 0..MaxKeys
  <2>1. Len(order) \in Nat
    BY AscFacts DEF OrderInv
  <2>2. Len(order) + n <= MaxKeys
    BY DEF PlaceChannels
  <2>3. QED BY <2>1, <2>2, Constants
<1>3. NKeysRight(n, KeyAt(i), KeyAt(i + 1))
  BY <1>2, NeighboursInOrder, NKeysFacts
<1>4. Asc(ks, KeyAt(i), KeyAt(i + 1))
  BY <1>1, <1>3 DEF NKeysRight
<1>5. Asc(order', None, None)
  BY <1>1, <1>4, AscPlaced
<1>6. QED BY <1>5 DEF OrderInv

LEMMA DropChannelStep ==
  ASSUME OrderInv, NEW i \in DOMAIN order, DropChannel(i)
  PROVE  OrderInv'
PROOF
<1>1. /\ order \in Seq(Strings) /\ Len(order) \in Nat /\ i \in 1..Len(order)
      /\ \A j \in 1..Len(order) : IsKey(order[j]) /\ order[j] \in Strings
      /\ \A j \in 1..Len(order), k \in 1..Len(order) : j < k => Before(order[j], order[k])
  BY AscFacts, ListFacts DEF OrderInv
<1>2. PICK s, t : s = SubSeq(order, 1, i - 1) /\ t = SubSeq(order, i + 1, Len(order))
  OBVIOUS
<1>3. s \in Seq(Strings) /\ Len(s) = i - 1 /\ \A j \in 1..(i - 1) : s[j] = order[j] /\ j \in 1..Len(order)
  <2>1. 1 \in 1..(Len(order) + 1) /\ i - 1 \in 0..Len(order) /\ 1 <= i - 1 + 1 /\ i - 1 - 1 + 1 = i - 1
    BY <1>1
  <2>2. /\ s \in Seq(Strings) /\ Len(s) = i - 1 - 1 + 1
        /\ \A j \in 1..(i - 1 - 1 + 1) : s[j] = order[1 + j - 1] /\ 1 + j - 1 \in 1..Len(order)
    BY <1>1, <1>2, <2>1, SliceFacts
  <2>3. \A j \in 1..(i - 1) : 1 + j - 1 = j
    OBVIOUS
  <2>4. QED BY <2>1, <2>2, <2>3
<1>4. t \in Seq(Strings) /\ Len(t) = Len(order) - i /\ \A j \in 1..(Len(order) - i) : t[j] = order[i + j] /\ i + j \in 1..Len(order)
  <2>1. /\ i + 1 \in 1..(Len(order) + 1) /\ Len(order) \in 0..Len(order) /\ i + 1 <= Len(order) + 1
        /\ Len(order) - (i + 1) + 1 = Len(order) - i
    BY <1>1
  <2>2. /\ t \in Seq(Strings) /\ Len(t) = Len(order) - (i + 1) + 1
        /\ \A j \in 1..(Len(order) - (i + 1) + 1) : t[j] = order[i + 1 + j - 1] /\ i + 1 + j - 1 \in 1..Len(order)
    BY <1>1, <1>2, <2>1, SliceFacts
  <2>3. \A j \in 1..(Len(order) - i) : i + 1 + j - 1 = i + j
    <3>1. i \in Int
      BY <1>1
    <3> QED  BY ONLY <3>1
  <2>4. QED BY <2>1, <2>2, <2>3
<1>5. ASSUME NEW j \in 1..Len(s), NEW k \in 1..Len(t) PROVE Before(s[j], t[k])
  <2>1. s[j] = order[j] /\ t[k] = order[i + k] /\ j \in 1..Len(order) /\ i + k \in 1..Len(order)
    BY <1>3, <1>4
  <2>2. j < i + k
    BY <1>1, <1>3, <1>4
  <2>3. QED BY <1>1, <2>1, <2>2
<1>6. ASSUME NEW j \in 1..Len(s), NEW k \in 1..Len(s), j < k PROVE Before(s[j], s[k])
  BY <1>1, <1>3, <1>6
<1>7. ASSUME NEW j \in 1..Len(t), NEW k \in 1..Len(t), j < k PROVE Before(t[j], t[k])
  <2>1. t[j] = order[i + j] /\ t[k] = order[i + k] /\ i + j \in 1..Len(order) /\ i + k \in 1..Len(order)
    BY <1>4
  <2>2. i + j < i + k
    BY <1>1, <1>4, <1>7
  <2>3. QED BY <1>1, <2>1, <2>2
<1>8. /\ \A j \in 1..Len(s) : Between(s[j], None, None)
      /\ \A j \in 1..Len(t) : Between(t[j], None, None)
  BY <1>1, <1>3, <1>4 DEF Between
<1>9. << >> \in Seq(Strings) /\ \A j : j \notin 1..Len(<<>>)
  BY EmptyAsc
<1>10. IsBound(None)
  BY DEF IsBound
<1>11. Asc((s \o <<>>) \o t, None, None)
  BY <1>3, <1>4, <1>5, <1>6, <1>7, <1>8, <1>9, <1>10, AscsJoin
<1>12. s \o <<>> = s
  BY <1>3, ConcatEmptySeq
<1>13. order' = s \o t
  BY <1>2 DEF DropChannel, RemoveAt
<1>14. Asc(order', None, None)
  BY <1>11, <1>12, <1>13
<1>15. QED BY <1>14 DEF OrderInv

LEMMA OrderInvKept ==
  OrderInv /\ [SortNext]_sortVars => OrderInv'
PROOF
<1>1. SUFFICES ASSUME OrderInv, [SortNext]_sortVars PROVE OrderInv'
  OBVIOUS
<1>2. ASSUME NEW i \in 0..Len(order), PlaceChannel(i) PROVE OrderInv'
  BY <1>1, <1>2, PlaceChannelStep
<1>3. ASSUME NEW i \in 0..Len(order), PlaceChannels(i, 2) \/ PlaceChannels(i, 3) PROVE OrderInv'
  BY <1>1, <1>3, PlaceChannelsStep
<1>4. ASSUME NEW i \in DOMAIN order, DropChannel(i) PROVE OrderInv'
  BY <1>1, <1>4, DropChannelStep
<1>5. CASE UNCHANGED sortVars
  <2>1. order' = order
    BY <1>5 DEF sortVars
  <2>2. QED BY <1>1, <2>1 DEF OrderInv
<1>6. QED BY <1>1, <1>2, <1>3, <1>4, <1>5 DEF SortNext

LEMMA OrderInvGives ==
  OrderInv => OrderKept
PROOF
<1>1. SUFFICES ASSUME OrderInv PROVE OrderKept
  OBVIOUS
<1>2. /\ Len(order) \in Nat /\ DOMAIN order = 1..Len(order)
      /\ \A j \in 1..Len(order) : IsKey(order[j])
      /\ \A j \in 1..Len(order), k \in 1..Len(order) : j < k => Before(order[j], order[k])
  BY <1>1, AscFacts, ListFacts DEF OrderInv
<1>3. ASSUME NEW i \in 1..(Len(order) - 1) PROVE Before(order[i], order[i + 1])
  <2>1. i \in 1..Len(order) /\ i + 1 \in 1..Len(order) /\ i < i + 1
    BY <1>2
  <2>2. QED BY <1>2, <2>1
<1>4. \A i \in DOMAIN order : validateOrderKey(order[i]) \/ order[i] = smallestInt
  BY <1>2, KeyParts
<1>5. ASSUME NEW i \in 0..Len(order), smallestInt \notin {KeyAt(i), KeyAt(i + 1)}
      PROVE  KeyBetween(KeyAt(i), KeyAt(i + 1)) \notin {None, Failed}
  <2>1. PICK lo, hi : lo = KeyAt(i) /\ hi = KeyAt(i + 1)
    OBVIOUS
  <2>2. IsBound(lo) /\ IsBound(hi) /\ (lo # None /\ hi # None => Before(lo, hi))
    BY <1>1, <2>1, NeighboursInOrder DEF InOrder
  <2>3. smallestInt \notin {lo, hi}
    BY <1>5, <2>1
  <2>4. KeyBetween(lo, hi) # Failed /\ Between(KeyBetween(lo, hi), lo, hi)
    BY <2>2, <2>3, KeyBetweenFacts
  <2>5. KeyBetween(lo, hi) # None
    BY <2>4, KeyParts DEF Between
  <2>6. QED BY <2>1, <2>4, <2>5
<1>6. QED BY <1>3, <1>4, <1>5 DEF OrderKept

\* Sorting channels by key gives the order the user arranged, however many
\* channels are placed and removed and whatever the number of digits: a key that
\* KeyBetween or NKeysBetween returns is between its neighbours, and there is
\* always one, but next to the smallest integer
\* (fracdex/fracdex.go KeyBetween, NKeysBetween, midpoint).
THEOREM KeysKeepOrder ==
  SortSpec => []OrderKept
PROOF
<1>1. OrderInv => OrderKept
  BY OrderInvGives
<1>2. QED BY OrderInit, OrderInvKept, <1>1, PTL DEF SortSpec
=============================================================================
