-------------------------------- MODULE CallLog --------------------------------
(***************************************************************************)
(* The rows of one call in the log: created, moved on by status webhooks,  *)
(* completed by recordings (of one segment, or of the whole call) and by   *)
(* transcriptions that run in the background, edited and deleted by users.  *)
(* Everything interleaves at its awaits.                                  *)
(* Who the segments belong to is in CallSegments.                          *)
(***************************************************************************)
EXTENDS Naturals, FiniteSets

CONSTANTS
  Last,      \* the number of the last segment; Last + 1 names the whole call
  Recorded   \* how a call may be recorded: sets of segments and of the whole call

VARIABLES
  rows,       \* the rows of the segments
  jobs,       \* recordings and transcriptions being worked on
  recordings, \* recordings that Twilio has not posted yet
  edits       \* changes by users

vars == <<rows, jobs, recordings, edits>>

Segments == 0 .. Last
Whole    == Last + 1
Missing  == Last + 2         \* no recording
Statuses == {"ringing", "in-progress", "transferred", "completed", "no-answer"}
NoRow == [there |-> FALSE, outbound |-> FALSE, status |-> "ringing", url |-> Missing,
          sid |-> Missing, transcript |-> "none", text |-> {}]

\* What is said during segment k, at a time that falls into segment `at' of the call.
Words == [said : Segments, at : Segments]
\* The times in a transcription count from the start of its recording.
TextOf(rec) == IF rec = Whole THEN {w \in Words : w.said = w.at} ELSE {[said |-> rec, at |-> 0]}

There  == {k \in Segments : rows[k].there}

-----------------------------------------------------------------------------
(* The call *)

\* createCall: ringing, when it comes in (handleIncomingVoice) ...
CreateCall(outbound) ==
  /\ There = {} /\ recordings # {} /\ edits = 0
  /\ rows' = [rows EXCEPT ![0] = [NoRow EXCEPT !.there = TRUE, !.outbound = outbound]]
  /\ UNCHANGED <<jobs, recordings, edits>>

\* ... or initiated, from a browser: the dialled leg is recorded as a whole.
HandleOutgoingCall == Whole \in recordings /\ CreateCall(TRUE)

\* A transfer appends a segment.
AppendSegment(k) ==
  /\ k \in Segments \ (There \cup {0}) /\ k - 1 \in There /\ rows[k - 1].status = "in-progress"
  /\ rows' = [rows EXCEPT ![k - 1].status = "transferred",
                          ![k] = [NoRow EXCEPT !.there = TRUE, !.status = "in-progress"]]
  /\ UNCHANGED <<jobs, recordings, edits>>

\* updateCallByTwilioSid: nothing without a row.
Update(k, status) == rows' = IF rows[k].there THEN [rows EXCEPT ![k].status = status] ELSE rows

\* getLatestCallSegment
Active == {k \in There : rows[k].status # "transferred"}
Latest == CHOOSE k \in Active : \A l \in Active : l <= k

\* handleVoiceStatus: the end goes to the newest segment that is not transferred, a status
\* on the way to the first; they may arrive in any order.
HandleVoiceStatus ==
  /\ \/ /\ Active # {}
        /\ \E s \in {"completed", "no-answer"} : Update(Latest, s)
     \/ /\ 0 \in Active
        /\ \E s \in {"ringing", "in-progress"} : Update(0, s)
  /\ ~rows[0].outbound
  /\ UNCHANGED <<jobs, recordings, edits>>

\* handleOutgoingStatus: the end of a call from the browser, always of the first row.
HandleOutgoingStatus ==
  /\ rows[0].outbound
  /\ \E s \in {"completed", "no-answer"} : Update(0, s)
  /\ UNCHANGED <<jobs, recordings, edits>>

-----------------------------------------------------------------------------
(* Recordings *)

Job(kind, rec, ks, seg, step) ==
  [kind |-> kind, rec |-> rec, rows |-> ks, seg |-> seg, step |-> step]

\* The rows that processRecording, processSegmentRecording find; then two seconds' wait,
\* and the way to S3.
RowsOf(rec) == IF rec = Whole THEN There ELSE There \cap {rec}

StartRecord(rec) ==
  /\ rec \in recordings /\ There # {}
  /\ recordings' = recordings \ {rec}
  /\ jobs' = IF RowsOf(rec) = {} THEN jobs
             ELSE jobs \cup {Job("record", rec, {<<k, rows[k].text # {}, rows[k].transcript>> :
                                                 k \in RowsOf(rec)}, Last, "upload")}
  /\ UNCHANGED edits

\* handleRecordingStatus, handleSegmentRecordingStatus.
ProcessRecording(rec) == StartRecord(rec) /\ UNCHANGED rows

\* handleVoicemailRecording: the row is completed first.
HandleVoicemailRecording ==
  /\ StartRecord(Whole) /\ ~rows[0].outbound
  /\ Update(0, "completed")

Finish(j) == jobs' = jobs \ {j}
SegmentsOf(j) == {t[1] : t \in j.rows}

\* The upload is done: every row gets the recording; the newest (or the only one) is
\* transcribed in the background.  A row that is gone makes the whole fail.
RecordStored(j) ==
  /\ j.kind = "record"
  /\ LET found == {t \in j.rows : rows[t[1]].there}
         last  == CHOOSE k \in SegmentsOf(j) : \A l \in SegmentsOf(j) : l <= k
         Stored(k) ==
           LET t == CHOOSE t \in j.rows : t[1] = k
           IN [rows[k] EXCEPT !.url = j.rec, !.sid = j.rec,
                 !.transcript = IF j.rec = Whole /\ t[2] THEN t[3] ELSE "pending"]
     IN /\ rows' = [k \in Segments |-> IF \E t \in found : t[1] = k THEN Stored(k) ELSE rows[k]]
        /\ IF found = j.rows
           THEN jobs' = (jobs \ {j}) \cup {Job("transcribe", j.rec, {}, last, "start")}
           ELSE Finish(j)
  /\ UNCHANGED <<recordings, edits>>

\* The download or the upload fails: only the SID is kept.
RecordFails(j) ==
  /\ j.kind = "record"
  /\ rows' = [k \in Segments |-> IF k \in SegmentsOf(j) /\ rows[k].there
                                 THEN [rows[k] EXCEPT !.sid = j.rec] ELSE rows[k]]
  /\ Finish(j)
  /\ UNCHANGED <<recordings, edits>>

-----------------------------------------------------------------------------
(* Transcriptions *)

\* transcribeRecording, transcribeSegmentRecording: an update of a row that is gone throws.
TranscribeStart(j) ==
  /\ j.kind = "transcribe" /\ j.step = "start"
  /\ IF rows[j.seg].there
     THEN /\ rows' = [rows EXCEPT ![j.seg].transcript = "processing"]
          /\ jobs' = (jobs \ {j}) \cup {[j EXCEPT !.step = "ask"]}
     ELSE Finish(j) /\ UNCHANGED rows
  /\ UNCHANGED <<recordings, edits>>

\* Mutated form: a transcription that fails is only logged.
TranscribeEndSilent(j) ==
  /\ j.kind = "transcribe" /\ j.step = "ask"
  /\ \/ rows' = IF rows[j.seg].there
                THEN [rows EXCEPT ![j.seg].transcript = "completed", ![j.seg].text = TextOf(j.rec)]
                ELSE rows
     \/ UNCHANGED rows
  /\ Finish(j)
  /\ UNCHANGED <<recordings, edits>>

TranscribeEnd(j) ==
  /\ j.kind = "transcribe" /\ j.step = "ask"
  /\ rows' \in IF rows[j.seg].there
               THEN {[rows EXCEPT ![j.seg].transcript = "completed", ![j.seg].text = TextOf(j.rec)],
                     [rows EXCEPT ![j.seg].transcript = "failed"]}
               ELSE {rows}
  /\ Finish(j)
  /\ UNCHANGED <<recordings, edits>>

\* updateTranscription: a call of several rows has the text cut at the rows' times, and
\* the times counted anew from each row's start; a text without times goes to all.
UpdateTranscription(text) ==
  rows' = [k \in Segments |->
             IF ~rows[k].there THEN rows[k]
             ELSE [rows[k] EXCEPT !.transcript = "completed",
                     !.text = IF Cardinality(There) = 1 THEN text
                              ELSE {[w EXCEPT !.at = 0] : w \in {v \in text : v.at = k}}]]

\* handleTranscription: Twilio's own text of a voicemail, without times.
HandleTranscription ==
  /\ There # {} /\ Whole \notin recordings /\ edits = 0
  /\ edits' = 1
  /\ rows' = [k \in Segments |->
                IF rows[k].there
                THEN [rows[k] EXCEPT !.transcript = "completed", !.text = {[said |-> 0, at |-> 0]}]
                ELSE rows[k]]
  /\ UNCHANGED <<jobs, recordings>>

\* resegmentTranscription, for one call or, resegmentAllTranscriptionsForTenant, for all:
\* some completed row that has a text is taken for the text of the whole call.
ResegmentTranscription ==
  /\ edits = 0 /\ edits' = 1
  /\ \E k \in There : /\ rows[k].status = "completed" /\ rows[k].text # {}
                      /\ UpdateTranscription(rows[k].text)
  /\ UNCHANGED <<jobs, recordings>>

-----------------------------------------------------------------------------
(* Users: PhoneCallsService *)

\* update.
EditCall(k) ==
  /\ edits = 0 /\ edits' = 1 /\ k \in There
  /\ \E s \in Statuses, t \in {"pending", "completed", "failed"} :
       rows' = [rows EXCEPT ![k].status = s, ![k].transcript = t]
  /\ UNCHANGED <<jobs, recordings>>

RemoveCall(k) ==
  /\ edits = 0 /\ edits' = 1 /\ k \in There
  /\ rows' = [rows EXCEPT ![k] = NoRow]
  /\ UNCHANGED <<jobs, recordings>>

Init ==
  /\ rows = [k \in Segments |-> NoRow]
  /\ jobs = {} /\ edits = 0
  /\ recordings \in Recorded

Work == \E j \in jobs : RecordStored(j) \/ RecordFails(j) \/ TranscribeStart(j) \/ TranscribeEnd(j)

Next ==
  \/ CreateCall(FALSE) \/ HandleOutgoingCall \/ HandleVoiceStatus \/ HandleOutgoingStatus
  \/ HandleVoicemailRecording
  \/ \E k \in Segments : AppendSegment(k) \/ EditCall(k) \/ RemoveCall(k)
  \/ \E rec \in recordings : ProcessRecording(rec)
  \/ Work \/ HandleTranscription \/ ResegmentTranscription

Spec == Init /\ [][Next]_vars /\ WF_vars(Work)

TypeOK ==
  /\ rows \in [Segments -> [there : BOOLEAN, outbound : BOOLEAN, status : Statuses,
                            url : 0 .. Missing, sid : 0 .. Missing,
                            transcript : {"none", "pending", "processing", "completed", "failed"},
                            text : SUBSET Words]]
  /\ \A j \in jobs : j.kind = "transcribe" => j.rec # Missing
  /\ recordings \subseteq 0 .. Whole /\ edits \in 0 .. 1

\* A transcription that has begun comes to an end, whatever is recorded, edited, deleted
\* or transcribed anew meanwhile.
ProcessingEnds ==
  \A k \in 0 .. 3 : k \in Segments =>
    (rows[k].transcript = "processing" ~> rows[k].transcript # "processing")

\* "LAST segment (will share with all)": no row waits for a transcription for ever, unless
\* users make it (README, "Findings": only the last row gets it).
PendingEnds ==
  \A k \in 0 .. 3 : k \in Segments =>
    (rows[k].transcript = "pending" ~> (rows[k].transcript # "pending" \/ edits = 1))

\* No words are lost when transcriptions are cut anew (README, "Counterexamples": the text
\* of one row is taken for the text of the call).
NothingLost ==
  UNION {rows[k].text : k \in Segments} # {} =>
    LET said(table) == {w.said : w \in UNION {table[k].text : k \in Segments}}
    IN ((edits = 0 /\ edits' = 1 /\ \A k \in Segments : rows'[k].there = rows[k].there)
          => said(rows) \subseteq said(rows'))

\* The recording that is played is the one the row names (README, "Counterexamples": of two
\* recordings the second fails).
UrlIsOfSid == \A k \in Segments : rows[k].url # Missing => rows[k].url = rows[k].sid

=============================================================================
