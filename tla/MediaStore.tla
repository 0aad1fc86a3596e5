------------------------------- MODULE MediaStore -------------------------------
(***************************************************************************)
(* Media: files in S3 and their rows (MediaService), and the upload        *)
(* sessions through which a phone adds files to a vehicle or a buyer       *)
(* (UploadSessionService).  File and row are written and deleted in        *)
(* separate steps, each of which may fail.  A confirmation names whatever  *)
(* key the client gives: its own, once or again, or another one's.         *)
(***************************************************************************)
EXTENDS Naturals, FiniteSets

CONSTANTS
  Requests,
  Keys,      \* S3 keys; each is generated once
  Owners,    \* "vehicle", "buyer", "part": what media can belong to
  MaxRow     \* bound: rows ever written

Bounds ==
  /\ MaxRow \in Nat
  /\ "none" \notin Keys
  /\ {"vehicle", "buyer"} \subseteq Owners

VARIABLES
  s3,        \* the keys under which a file is stored, by size: "ok" or "big"
  media,     \* the rows by id
  lastRow,   \* the last id given
  owners,    \* which of them are there
  session,   \* the upload session
  presigned, \* the keys to which the client may upload a file
  req,
  \* What the requests have done so far, for the properties:
  named,     \* keys of an upload or a confirmation that was not refused
  again,     \* keys that another confirmation has named since
  condemned, \* rows whose removal has begun
  raced      \* rows that were last updated by a request that did not see their buyer

vars == <<s3, media, lastRow, owners, session, presigned, req, named, again, condemned, raced>>
history == <<named, again, condemned, raced>>

Ids     == 1 .. MaxRow
NoKey   == "none"
NoRow   == [key |-> NoKey, of |-> {}, public |-> FALSE]
NoSession == [state |-> "none", of |-> "vehicle", public |-> FALSE]
Idle    == [at |-> "idle", key |-> NoKey, of |-> {}, saw |-> FALSE, public |-> FALSE, id |-> 0]
There   == {i \in Ids : media[i].key # NoKey}

Goes(r, next) == req' = [req EXCEPT ![r] = next]
End(r)        == Goes(r, Idle)

\* Mutated form: the key is made from the name of the file.
NewKeyByName(k) == k \in Keys

\* A key has a random part: it was not given to anybody before.
NewKey(k) == k \notin presigned \cup named

\* isPrivate: the files of a buyer always, others as the client wishes.
IsPublic(of, wish) == "buyer" \notin of /\ wish

\* Mutated form: only what the update itself brings is looked at.
FinalIsPublicNew(before, of, wish) == "buyer" \notin of /\ wish

\* The same for an update: the row had a buyer, or gets one.
FinalIsPublic(before, of, wish) == "buyer" \notin of \cup before.of /\ wish

-----------------------------------------------------------------------------
(* Uploads *)

\* uploadAndCreate: the owners are there; the file is stored, or S3 fails.
UploadAndCreate(r) ==
  /\ req[r].at = "idle"
  /\ \E k \in Keys, of \in SUBSET owners, wish \in BOOLEAN :
       /\ NewKey(k)
       /\ s3' = [s3 EXCEPT ![k] = "ok"]
       /\ Goes(r, [Idle EXCEPT !.at = "row", !.key = k, !.of = of, !.public = IsPublic(of, wish)])
       /\ named' = named \cup {k}
  /\ UNCHANGED <<media, lastRow, owners, session, presigned, again, condemned, raced>>

\* presign: the owners are only looked up; the client gets a URL for a new key.
Presign ==
  /\ \E k \in Keys : NewKey(k) /\ presigned' = presigned \cup {k}
  /\ UNCHANGED <<s3, media, lastRow, owners, session, req, history>>

\* The client stores a file at the URL, too big perhaps, or another one later.
PutObject(k) ==
  /\ k \in presigned
  /\ \E size \in {"ok", "big"} : s3' = [s3 EXCEPT ![k] = size]
  /\ UNCHANGED <<media, lastRow, owners, session, presigned, req, history>>

\* Without a file under the key nothing happens.  One that is too big is deleted, unless S3
\* fails; with one that is not, and when the owners are there, the row is written next.
Confirm(r, k, of, wish) ==
  /\ s3[k] # "none"
  /\ \/ /\ s3[k] = "big"
        /\ s3' = [s3 EXCEPT ![k] = "none"] \/ UNCHANGED s3
        /\ UNCHANGED <<req, named>>
     \/ /\ s3[k] = "ok" /\ of \subseteq owners
        /\ Goes(r, [Idle EXCEPT !.at = "row", !.key = k, !.of = of, !.public = IsPublic(of, wish)])
        /\ named' = named \cup {k}
        /\ UNCHANGED s3
  /\ again' = again \cup ({k} \cap named)
  /\ UNCHANGED <<media, lastRow, owners, presigned, condemned, raced>>

\* confirmUpload: the key, the owners and the wish are the client's.
ConfirmUpload(r) ==
  /\ req[r].at = "idle"
  /\ \E k \in Keys, of \in SUBSET Owners, wish \in BOOLEAN : Confirm(r, k, of, wish)
  /\ UNCHANGED session

\* The row is written; when it cannot be, because an owner is gone or the database fails,
\* the file is deleted again ...
CreateRow(r) ==
  LET q == req[r]
  IN /\ q.at = "row"
     /\ \/ /\ q.of \subseteq owners /\ lastRow < MaxRow
           /\ lastRow' = lastRow + 1
           /\ media' = [media EXCEPT ![lastRow + 1] = [key |-> q.key, of |-> q.of, public |-> q.public]]
           /\ End(r)
        \/ Goes(r, [Idle EXCEPT !.at = "cleanup", !.key = q.key]) /\ UNCHANGED <<media, lastRow>>
     /\ UNCHANGED <<s3, owners, session, presigned, history>>

\* ... as part of the same request, or stays because S3 fails as well.
CleanUp(r) ==
  /\ req[r].at = "cleanup"
  /\ s3' = [s3 EXCEPT ![req[r].key] = "none"] \/ UNCHANGED s3
  /\ End(r)
  /\ UNCHANGED <<media, lastRow, owners, session, presigned, history>>

-----------------------------------------------------------------------------
(* update and remove *)

\* update reads the row, and the owners it brings ...
UpdateRead(r) ==
  /\ req[r].at = "idle"
  /\ \E i \in There, of \in SUBSET (owners \ {"part"}), wish \in {"yes", "no", "asis"} :
       LET before == media[i] IN
       Goes(r, [Idle EXCEPT !.at = "update", !.of = of, !.saw = "buyer" \in before.of, !.id = i,
                  !.public = FinalIsPublic(before, of, wish = "yes" \/ (wish = "asis" /\ before.public))])
  /\ UNCHANGED <<s3, media, lastRow, owners, session, presigned, history>>

\* ... and writes what it has concluded from them.  An owner can be taken off as well.
UpdateWrite(r) ==
  LET i == req[r].id  q == req[r]
      overtaken == "buyer" \in media[i].of /\ ~q.saw
  IN /\ q.at = "update"
     /\ IF i \in There /\ q.of \subseteq owners
        THEN /\ \E off \in SUBSET {"vehicle", "buyer"} :
                  media' = [media EXCEPT ![i] = [key |-> @.key, of |-> (@.of \ off) \cup q.of,
                                                 public |-> q.public]]
             /\ raced' = IF overtaken THEN raced \cup {i} ELSE raced \ {i}
        ELSE UNCHANGED <<media, raced>>
     /\ End(r)
     /\ UNCHANGED <<s3, lastRow, owners, session, presigned, named, again, condemned>>

\* remove: the file is deleted, and an error of S3 is swallowed ...
RemoveFile(r) ==
  /\ req[r].at = "idle"
  /\ \E i \in There :
       /\ s3' = [s3 EXCEPT ![media[i].key] = "none"] \/ UNCHANGED s3
       /\ Goes(r, [Idle EXCEPT !.at = "unrow", !.id = i])
       /\ condemned' = condemned \cup {i}
  /\ UNCHANGED <<media, lastRow, owners, session, presigned, named, again, raced>>

\* ... then the row, or the database fails.
RemoveRow(r) ==
  /\ req[r].at = "unrow"
  /\ media' = [media EXCEPT ![req[r].id] = NoRow] \/ UNCHANGED media
  /\ End(r)
  /\ UNCHANGED <<s3, lastRow, owners, session, presigned, history>>

\* An owner is deleted; its rows go with it and their files stay in S3.
RemoveOwner(o) ==
  /\ o \in owners
  /\ owners' = owners \ {o}
  /\ media' = [i \in Ids |-> IF o \in media[i].of THEN NoRow ELSE media[i]]
  /\ UNCHANGED <<s3, lastRow, session, presigned, req, history>>

-----------------------------------------------------------------------------
(* Upload sessions *)

\* create: a session for the vehicle or the buyer.
CreateSession ==
  /\ session.state = "none"
  /\ \E o \in {"vehicle", "buyer"}, wish \in BOOLEAN :
       session' = [state |-> "open", of |-> o, public |-> wish]
  /\ UNCHANGED <<s3, media, lastRow, owners, presigned, req, history>>

\* validate: neither closed nor expired.  (That it was used is stored, and never read.)
Validate == session.state = "open" /\ UNCHANGED session

\* presign: for the session's vehicle or buyer.
SessionPresign ==
  /\ Validate
  /\ session.of \in owners
  /\ \E k \in Keys : NewKey(k) /\ presigned' = presigned \cup {k}
  /\ UNCHANGED <<s3, media, lastRow, owners, req, history>>

\* confirm: the session says what the media belongs to and whether it is public; the key
\* and other owners are the client's.
SessionConfirm(r) ==
  /\ req[r].at = "idle"
  /\ Validate
  /\ \E k \in Keys, of \in SUBSET Owners : Confirm(r, k, of \cup {session.of}, session.public)

\* close, by the user who has opened it, or the fifteen minutes are over; the hourly job
\* deletes it a day later.
Close == session.state = "open" /\ session' = [NoSession EXCEPT !.state = "over"]
CleanupExpiredSessions == session.state = "over" /\ session' = NoSession
SessionEnds ==
  /\ Close \/ CleanupExpiredSessions
  /\ UNCHANGED <<s3, media, lastRow, owners, presigned, req, history>>

Init ==
  /\ s3 = [k \in Keys |-> "none"] /\ media = [i \in Ids |-> NoRow] /\ lastRow = 0
  /\ owners = Owners /\ presigned = {}
  /\ session = NoSession
  /\ req = [r \in Requests |-> Idle]
  /\ named = {} /\ again = {} /\ condemned = {} /\ raced = {}

Next ==
  \/ \E r \in Requests : \/ UploadAndCreate(r) \/ ConfirmUpload(r) \/ SessionConfirm(r)
                         \/ CreateRow(r) \/ CleanUp(r)
                         \/ UpdateRead(r) \/ UpdateWrite(r) \/ RemoveFile(r) \/ RemoveRow(r)
  \/ \E k \in Keys : PutObject(k)
  \/ \E o \in Owners : RemoveOwner(o)
  \/ Presign \/ SessionPresign \/ CreateSession \/ SessionEnds

TypeOK ==
  /\ s3 \in [Keys -> {"none", "ok", "big"}]
  /\ media \in [Ids -> [key : Keys \cup {NoKey}, of : SUBSET Owners, public : BOOLEAN]]
  /\ lastRow \in 0 .. MaxRow /\ owners \subseteq Owners /\ presigned \subseteq Keys
  /\ session \in [state : {"none", "open", "over"}, of : Owners, public : BOOLEAN]
  /\ req \in [Requests -> [at : {"idle", "row", "cleanup", "update", "unrow"},
                           key : Keys \cup {NoKey}, of : SUBSET Owners, saw : BOOLEAN,
                           public : BOOLEAN, id : 0 .. MaxRow]]
  /\ again \subseteq named /\ named \subseteq Keys
  /\ condemned \subseteq Ids /\ raced \subseteq Ids

\* "Files associated with a buyer are ALWAYS private", whatever the uploads, sessions and
\* overlapping updates say: only an update that has read the row before its buyer was put
\* on can leave it public (README, "Counterexamples"), and the next update that has seen
\* the buyer makes it private again.
BuyerMediaPrivate == \A i \in There \ raced : "buyer" \in media[i].of => ~media[i].public

\* A row has its file until its own removal begins, in spite of clean-ups, deleted owners,
\* files that are replaced or too big, and rows that stay when the database fails; but not
\* when two confirmations have named its key (README, "Counterexamples").
RowsHaveFiles ==
  \A i \in There \ condemned : media[i].key \notin again => s3[media[i].key] # "none"

\* The same, however often the key is confirmed.
ConfirmedTwiceHasFile == \A i \in There \ condemned : s3[media[i].key] # "none"
=============================================================================
