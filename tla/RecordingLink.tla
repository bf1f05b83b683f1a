--------------------------- MODULE RecordingLink ---------------------------
(***************************************************************************)
(* How Fathom's recordings are linked to the rows of event_mappings: the   *)
(* webhook, which an administrator registers and Fathom delivers at least  *)
(* once or never (httpx/fathom.go, httpx/fathomadmin.go), and the worker's *)
(* periodic poll, its backup (cmd/worker).  Both find the rows by the URL  *)
(* of the meeting, which co-attendees and all occurrences of a recurring   *)
(* meeting share.                                                          *)
(***************************************************************************)
EXTENDS Naturals, Sequences, FiniteSets

CONSTANTS
  Rows,              \* ids of event_mappings
  Urls, Recordings, UrlOf,   \* UrlOf[r]: the meeting a recording was made of
  Subscriptions,     \* bound: webhook ids Fathom can hand out
  PollPage,          \* meetings in the page of ListMeetings
  MaxMoves,          \* bound: changes of the calendars and new recordings
  LinkFaults,        \* the kinds of failure that may happen
  NoUrl, Null        \* no such row, or one without a URL; SQL NULL

ASSUME RecordingLinkAssumption ==
  /\ UrlOf \in [Recordings -> Urls]
  /\ PollPage \in Nat /\ MaxMoves \in Nat
  /\ NoUrl \notin Urls /\ Null \notin Recordings \cup Subscriptions

VARIABLES
  recorded,      \* Fathom's meetings, newest first
  rowUrl,        \* meeting_url of each row
  link,          \* the recording columns of each row
  moves, settled,
  subscribed,    \* webhook subscriptions Fathom serves
  registered,    \* table fathom_webhook: the one the server knows
  registering,   \* the id a register request has obtained and not yet stored
  inflight,      \* deliveries Fathom has not had an answer to
  found,         \* those whose handler has found a row and not yet saved
  polled         \* meetings of the current poll that are still to be linked

linkVars == <<recorded, rowUrl, link, moves, settled, subscribed, registered,
              registering, inflight, found, polled>>

-----------------------------------------------------------------------------
\* by is who wrote the columns: a webhook brings the transcript and summary
\* flags, a poll leaves them false.
Columns == [rec: Recordings \cup {Null}, by: {"nobody", "webhook", "poll"}]
NoLink == [rec |-> Null, by |-> "nobody"]
Delivery == Subscriptions \X Recordings

RecordingLinkTypeOK ==
  /\ recorded \in Seq(Recordings)
  /\ rowUrl \in [Rows -> Urls \cup {NoUrl}]
  /\ link \in [Rows -> Columns]
  /\ moves \in 0..MaxMoves /\ settled \in BOOLEAN
  /\ subscribed \subseteq Subscriptions
  /\ registered \in Subscriptions \cup {Null}
  /\ registering \in Subscriptions \cup {Null}
  /\ inflight \subseteq Delivery /\ found \subseteq Delivery
  /\ polled \in Seq(Recordings)

RecordingLinkInit ==
  /\ recorded = <<>>
  /\ rowUrl = [r \in Rows |-> NoUrl]
  /\ link = [r \in Rows |-> NoLink]
  /\ moves = 0 /\ settled = FALSE
  /\ subscribed = {}
  /\ registered = Null /\ registering = Null
  /\ inflight = {} /\ found = {}
  /\ polled = <<>>

RowsAt(url) == {r \in Rows : rowUrl[r] = url}
Listed == {recorded[i] : i \in DOMAIN recorded}
Breaks(kind) == kind \in LinkFaults /\ ~settled

-----------------------------------------------------------------------------
Move ==
  /\ ~settled
  /\ moves < MaxMoves /\ moves' = moves + 1
  /\ UNCHANGED <<settled, subscribed, registered, registering, found, polled>>

\* UpsertMapping sets the URL, of a new row or an edited one, and leaves the
\* recording columns of the row alone.
ScanRow(r, url) ==
  /\ Move
  /\ rowUrl[r] # url
  /\ rowUrl' = [rowUrl EXCEPT ![r] = url]
  /\ UNCHANGED <<recorded, link, inflight>>

\* The retention purge takes the row and its columns.
PurgeRow(r) ==
  /\ Move
  /\ rowUrl[r] # NoUrl
  /\ rowUrl' = [rowUrl EXCEPT ![r] = NoUrl]
  /\ link' = [link EXCEPT ![r] = NoLink]
  /\ UNCHANGED <<recorded, inflight>>

\* Fathom has processed a recording: it tells every subscription.
Record(rec) ==
  /\ Move
  /\ rec \notin Listed
  /\ recorded' = <<rec>> \o recorded
  /\ inflight' = inflight \cup (subscribed \X {rec})
  /\ UNCHANGED <<rowUrl, link>>

Settle ==
  /\ ~settled /\ settled' = TRUE
  /\ UNCHANGED <<recorded, rowUrl, link, moves, subscribed, registered, registering,
                 inflight, found, polled>>

-----------------------------------------------------------------------------
\* register: Fathom hands out an id, which is stored in a second step; an older
\* subscription is neither looked for nor deleted.
CreateWebhook ==
  /\ registering = Null
  /\ \E s \in Subscriptions \ subscribed :
       /\ subscribed' = subscribed \cup {s}
       /\ registering' = s
  /\ UNCHANGED <<recorded, rowUrl, link, moves, settled, registered, inflight, found, polled>>

SaveWebhook ==
  /\ registering # Null
  /\ \/ registered' = registering
     \/ Breaks("db") /\ UNCHANGED registered
  /\ registering' = Null
  /\ UNCHANGED <<recorded, rowUrl, link, moves, settled, subscribed, inflight, found, polled>>

-----------------------------------------------------------------------------
\* receive.  Whatever comes of it Fathom gets a 204, so that a delivery which
\* finds no row, or a database that fails, is not repeated.

\* A delivery that never arrives, or arrives with a stale timestamp.
LoseDelivery ==
  /\ Breaks("lost")
  /\ \E d \in inflight \ found : inflight' = inflight \ {d}
  /\ UNCHANGED <<recorded, rowUrl, link, moves, settled, subscribed, registered,
                 registering, found, polled>>

FindByMeetingURL ==
  /\ \E d \in inflight \ found :
       \/ /\ RowsAt(UrlOf[d[2]]) # {}
          /\ found' = found \cup {d}
          /\ UNCHANGED inflight
       \/ /\ RowsAt(UrlOf[d[2]]) = {} \/ Breaks("db")
          /\ inflight' = inflight \ {d}
          /\ UNCHANGED found
  /\ UNCHANGED <<recorded, rowUrl, link, moves, settled, subscribed, registered,
                 registering, polled>>

\* Every row of that URL is overwritten.  When the answer is lost Fathom delivers
\* again.
SaveRecording ==
  /\ \E d \in found :
       /\ \/ link' = [r \in Rows |-> IF r \in RowsAt(UrlOf[d[2]])
                                       THEN [rec |-> d[2], by |-> "webhook"] ELSE link[r]]
          \/ Breaks("db") /\ UNCHANGED link
       /\ found' = found \ {d}
       /\ \/ inflight' = inflight \ {d}
          \/ Breaks("lost") /\ UNCHANGED inflight
  /\ UNCHANGED <<recorded, rowUrl, moves, settled, subscribed, registered, registering, polled>>

-----------------------------------------------------------------------------
\* mutant: the newest meeting is missed
MutantListMeetings ==
  /\ polled = <<>>
  /\ polled' = SubSeq(recorded, 2, IF PollPage < Len(recorded) THEN PollPage ELSE Len(recorded))
  /\ UNCHANGED <<recorded, rowUrl, link, moves, settled, subscribed, registered,
                 registering, inflight, found>>

\* pollFathomRecordings: one page, then the rows one meeting after another.
ListMeetings ==
  /\ polled = <<>>
  /\ polled' = SubSeq(recorded, 1, IF PollPage < Len(recorded) THEN PollPage ELSE Len(recorded))
  /\ UNCHANGED <<recorded, rowUrl, link, moves, settled, subscribed, registered,
                 registering, inflight, found>>

\* mutant: whatever is in the columns is overwritten
MutantLinkIfAbsent ==
  /\ polled # <<>>
  /\ link' = [r \in Rows |-> IF r \in RowsAt(UrlOf[Head(polled)])
                               THEN [rec |-> Head(polled), by |-> "poll"] ELSE link[r]]
  /\ polled' = Tail(polled)
  /\ UNCHANGED <<recorded, rowUrl, moves, settled, subscribed, registered, registering,
                 inflight, found>>

LinkRecordingIfAbsent ==
  /\ polled # <<>>
  /\ \/ link' = [r \in Rows |->
           IF r \in RowsAt(UrlOf[Head(polled)]) /\ link[r].rec = Null
             THEN [rec |-> Head(polled), by |-> "poll"] ELSE link[r]]
     \/ Breaks("db") /\ UNCHANGED link
  /\ polled' = Tail(polled)
  /\ UNCHANGED <<recorded, rowUrl, moves, settled, subscribed, registered, registering,
                 inflight, found>>

\* The worker stops in the middle of a poll.
WorkerStops ==
  /\ Breaks("crash")
  /\ polled # <<>> /\ polled' = <<>>
  /\ UNCHANGED <<recorded, rowUrl, link, moves, settled, subscribed, registered,
                 registering, inflight, found>>

\* The server stops: deliveries it was working on get no answer.
HandlerStops ==
  /\ Breaks("crash")
  /\ found # {} /\ found' = {}
  /\ UNCHANGED <<recorded, rowUrl, link, moves, settled, subscribed, registered,
                 registering, inflight, polled>>

Poll == ListMeetings \/ LinkRecordingIfAbsent
Deliver == FindByMeetingURL \/ SaveRecording

RecordingLinkNext ==
  \/ \E r \in Rows : PurgeRow(r) \/ \E u \in Urls : ScanRow(r, u)
  \/ \E rec \in Recordings : Record(rec)
  \/ Settle
  \/ CreateWebhook \/ SaveWebhook
  \/ LoseDelivery \/ Deliver \/ Poll
  \/ WorkerStops \/ HandlerStops

\* RunPeriodic polls for ever; Fathom delivers what it has not lost.
RecordingLinkFairness == WF_linkVars(Poll) /\ WF_linkVars(Deliver)

RecordingLinkSpec ==
  RecordingLinkInit /\ [][RecordingLinkNext]_linkVars /\ RecordingLinkFairness

-----------------------------------------------------------------------------
(* Properties.                                                             *)

\* Whatever the webhook misses (never registered, lost, failed, delivered before
\* the row was scanned), the poll makes up for: once things are quiet every row
\* whose meeting is in the page of recent recordings is linked.
EventuallyLinked ==
  <>[]settled => <>[](\A r \in Rows :
    (\E i \in DOMAIN recorded : i <= PollPage /\ UrlOf[recorded[i]] = rowUrl[r])
      => link[r].rec # Null)

\* Poll and webhook may come in either order: a delivery under way once things
\* are quiet leaves the rows of its meeting with the webhook's details, and no
\* poll, however old its page, takes them away again.
DetailsArrive ==
  \A url \in Urls :
    (settled /\ \E d \in found : UrlOf[d[2]] = url) ~>
      [](\A r \in RowsAt(url) : link[r].by = "webhook")

=============================================================================
