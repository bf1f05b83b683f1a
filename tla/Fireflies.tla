----------------------------- MODULE Fireflies -----------------------------
(***************************************************************************)
(* The downloads of Fireflies transcripts: webhook deliveries, each served *)
(* by a goroutine that outlives the answer (httpx/fireflies.go), and the   *)
(* administrator's import and back-fill (httpx/recordings.go).  All of     *)
(* them write the same folders, named by day, title and transcript id      *)
(* (fireflies/client.go); only the webhook mails the attendees, and a      *)
(* marker file in the folder is all it remembers of that.                  *)
(*                                                                         *)
(* A call to Fireflies, to the disk, to Postgres or to the mail server is  *)
(* one step.  The two JSON copies of transcript and summary, the media     *)
(* files and the manual "send", none of which any decision here depends    *)
(* on, are left out, and so is the day of a folder, which never changes.   *)
(***************************************************************************)
EXTENDS Naturals, Sequences, FiniteSets

CONSTANTS
  Transcripts, Titles, People,
  Invited,        \* Invited[t, n]: whose mappings match transcript t titled n
  Predating,      \* the listing when the server starts, newest first
  GivenTitle,     \* the title Fireflies gives each transcript
  Hooks, Imports, Backfills,  \* the goroutines and requests under way at a time
  PageSize, MaxSkip,          \* 50 and 5000 in the code
  MaxDeliveries,  \* bound: webhook deliveries, imports and back-fills
  MaxEvents,      \* bound: changes of the Fireflies workspace
  Mishaps,        \* the kinds of failure that may happen
  Nothing         \* no transcript, or no folder, yet

ASSUME FirefliesAssumption ==
  /\ Invited \in [Transcripts \X Titles -> SUBSET People]
  /\ Predating \in Seq(Transcripts) /\ GivenTitle \in [Transcripts -> Titles]
  /\ \A i, j \in DOMAIN Predating : Predating[i] = Predating[j] => i = j
  /\ PageSize \in Nat \ {0} /\ MaxSkip \in Nat
  /\ MaxDeliveries \in Nat /\ MaxEvents \in Nat
  /\ Nothing \notin Transcripts \cup (Transcripts \X Titles)

VARIABLES
  listing,      \* the workspace's transcripts, newest first
  title,        \* their titles, as Fireflies shows them now
  events,       \* how often the workspace has changed
  folder,       \* the recordings directory
  told,         \* history: who has been mailed about a transcript
  deliveries,   \* how many jobs have been started
  calm,         \* no failures, renames or deletions any more
  jpc, jid, jfolder, jnext, jtodo, jsent,   \* the jobs
  jskip, jrefs, jhave,               \* the loop of a back-fill
  jowed, jclean    \* history: what a back-fill found at its start; nothing failed

workspace == <<listing, title, events, calm>>
mailing == <<jnext, jtodo, jsent>>
loop == <<jskip, jrefs, jhave, jowed, jclean>>
firefliesVars ==
  <<workspace, folder, told, deliveries, jpc, jid, jfolder, jnext, jtodo, jsent, loop>>

-----------------------------------------------------------------------------
Jobs == Hooks \cup Imports \cup Backfills
FolderNames == Transcripts \X Titles

\* The files whose presence matters, in the order Download writes them.
Files == <<"metadata.json", "transcript.txt", "summary.txt">>
FileNames == {"metadata.json", "transcript.txt", "summary.txt"}
Folder == [dir: BOOLEAN, files: SUBSET FileNames, marker: BOOLEAN]

JobStages == {"idle", "fetch", "mkdir", "write", "stat", "match", "send", "mark",
              "list", "refs", "report"}
FolderStages == {"mkdir", "write", "stat", "match", "send", "mark"}

SeqRange(s) == {s[i] : i \in DOMAIN s}
Downloaded(t) == \E n \in Titles : folder[<<t, n>>].dir
Complete(f) == folder[f].files = FileNames

FirefliesTypeOK ==
  /\ listing \in Seq(Transcripts)
  /\ title \in [Transcripts -> Titles]
  /\ events \in 0..MaxEvents
  /\ folder \in [FolderNames -> Folder]
  /\ told \in [Transcripts -> SUBSET People]
  /\ deliveries \in 0..MaxDeliveries
  /\ calm \in BOOLEAN
  /\ jpc \in [Jobs -> JobStages]
  /\ jid \in [Jobs -> Transcripts \cup {Nothing}]
  /\ jfolder \in [Jobs -> FolderNames \cup {Nothing}]
  /\ \A j \in Jobs : jpc[j] \in FolderStages => jfolder[j] # Nothing
  /\ jnext \in [Jobs -> 1..Len(Files)]
  /\ jtodo \in [Jobs -> SUBSET People]
  /\ jsent \in [Jobs -> BOOLEAN]
  /\ jskip \in [Jobs -> Nat]
  /\ jrefs \in [Jobs -> Seq(Transcripts)]
  /\ jhave \in [Jobs -> SUBSET Transcripts]
  /\ jowed \in [Jobs -> SUBSET Transcripts]
  /\ jclean \in [Jobs -> BOOLEAN]

FirefliesInit ==
  /\ listing = Predating
  /\ title = GivenTitle
  /\ events = 0
  /\ folder = [f \in FolderNames |-> [dir |-> FALSE, files |-> {}, marker |-> FALSE]]
  /\ told = [t \in Transcripts |-> {}]
  /\ deliveries = 0
  /\ calm = FALSE
  /\ jpc = [j \in Jobs |-> "idle"]
  /\ jid = [j \in Jobs |-> Nothing]
  /\ jfolder = [j \in Jobs |-> Nothing]
  /\ jnext = [j \in Jobs |-> 1]
  /\ jtodo = [j \in Jobs |-> {}]
  /\ jsent = [j \in Jobs |-> FALSE]
  /\ jskip = [j \in Jobs |-> 0]
  /\ jrefs = [j \in Jobs |-> <<>>]
  /\ jhave = [j \in Jobs |-> {}]
  /\ jowed = [j \in Jobs |-> {}]
  /\ jclean = [j \in Jobs |-> FALSE]

-----------------------------------------------------------------------------
(* The Fireflies workspace.                                                *)

WorkspaceChanges ==
  /\ events < MaxEvents /\ events' = events + 1
  /\ UNCHANGED <<folder, told, deliveries, calm, jpc, jid, jfolder, jnext, jtodo, jsent,
                 jskip, jrefs, jhave, jowed>>

\* A meeting has been transcribed: it becomes the first of the listing.
Transcribe(t) ==
  /\ t \notin SeqRange(listing)
  /\ listing' = <<t>> \o listing
  /\ WorkspaceChanges
  /\ UNCHANGED <<title, jclean>>

\* Somebody gives a transcript another title.
Rename(t) ==
  /\ ~calm /\ t \in SeqRange(listing)
  /\ \E n \in Titles \ {title[t]} : title' = [title EXCEPT ![t] = n]
  /\ WorkspaceChanges
  /\ UNCHANGED <<listing, jclean>>

\* Somebody deletes a transcript: what a back-fill has not read yet moves up.
DeleteTranscript(t) ==
  /\ ~calm
  /\ \E i \in DOMAIN listing :
       /\ listing[i] = t
       /\ listing' = SubSeq(listing, 1, i - 1) \o SubSeq(listing, i + 1, Len(listing))
  /\ jclean' = [j \in Jobs |-> FALSE]
  /\ WorkspaceChanges
  /\ UNCHANGED title

Calm ==
  /\ ~calm /\ calm' = TRUE
  /\ UNCHANGED <<listing, title, events, folder, told, deliveries, jpc, jid, jfolder,
                 jnext, jtodo, jsent, loop>>

-----------------------------------------------------------------------------
(* The three ways in.                                                      *)

Fails(kind) == kind \in Mishaps /\ ~calm
JobAt(j, stage) == jpc' = [jpc EXCEPT ![j] = stage]

Begin(j, stage) ==
  /\ jpc[j] = "idle"
  /\ deliveries < MaxDeliveries /\ deliveries' = deliveries + 1
  /\ JobAt(j, stage)
  /\ UNCHANGED <<workspace, folder, told, jfolder, jnext, jtodo, jsent>>

\* receive, and importFireflies up to its first call: a signature, a body or a
\* key that is missing ends the request without a trace.  Fireflies may deliver
\* the same event any number of times.
Receive(j) ==
  /\ j \in Hooks \cup Imports
  /\ \E t \in SeqRange(listing) : jid' = [jid EXCEPT ![j] = t]
  /\ Begin(j, "fetch")
  /\ UNCHANGED loop

\* syncFireflies: the transcripts it has are those whose folder has a name.
StartBackfill(j) ==
  /\ j \in Backfills
  /\ jhave' = [jhave EXCEPT ![j] = {t \in Transcripts : Downloaded(t)}]
  /\ jskip' = [jskip EXCEPT ![j] = 0]
  /\ jowed' = [jowed EXCEPT ![j] = SeqRange(listing)]
  /\ jclean' = [jclean EXCEPT ![j] = TRUE]
  /\ Begin(j, "list")
  /\ UNCHANGED <<jid, jrefs>>

-----------------------------------------------------------------------------
(* GetTranscript and Download, common to the three.                        *)

\* Where a job goes on when its transcript is dealt with, or has failed: a
\* back-fill counts and takes the next one, the others are over.
Leave(j, failed) ==
  /\ jid' = [jid EXCEPT ![j] = Nothing]
  /\ jfolder' = [jfolder EXCEPT ![j] = Nothing]
  /\ jnext' = [jnext EXCEPT ![j] = 1]
  /\ jtodo' = [jtodo EXCEPT ![j] = {}]
  /\ jsent' = [jsent EXCEPT ![j] = FALSE]
  /\ JobAt(j, IF j \in Backfills THEN "refs" ELSE "idle")
  /\ jclean' = [jclean EXCEPT ![j] = @ /\ ~failed]
  /\ jhave' = [jhave EXCEPT ![j] = IF j \in Backfills /\ ~failed THEN @ \cup {jid[j]} ELSE @]

\* On to the next stage of the same transcript.
Proceed(j, stage) ==
  /\ JobAt(j, stage)
  /\ UNCHANGED <<jid, jfolder, jhave, jclean, mailing>>

\* The media URLs are asked for next and may be empty.
GetTranscript(j) ==
  /\ jpc[j] = "fetch"
  /\ \/ /\ jid[j] \in SeqRange(listing)
        /\ jfolder' = [jfolder EXCEPT ![j] = <<jid[j], title[jid[j]]>>]
        /\ JobAt(j, "mkdir")
        /\ UNCHANGED <<jid, jhave, jclean, mailing>>
     \/ /\ jid[j] \notin SeqRange(listing) \/ Fails("api")
        /\ Leave(j, TRUE)
  /\ UNCHANGED <<workspace, folder, told, deliveries, jskip, jrefs, jowed>>

MakeFolder(j) ==
  /\ jpc[j] = "mkdir"
  /\ \/ /\ folder' = [folder EXCEPT ![jfolder[j]].dir = TRUE]
        /\ Proceed(j, "write")
     \/ Fails("disk") /\ Leave(j, TRUE) /\ UNCHANGED folder
  /\ UNCHANGED <<workspace, told, deliveries, jskip, jrefs, jowed>>

\* mutant: one file too many
MutantWriteFile(j) ==
  /\ jpc[j] = "write"
  /\ folder' = [folder EXCEPT ![jfolder[j]].files = @ \cup {Files[jnext[j]]}]
  /\ IF jnext[j] <= Len(Files)
       THEN /\ jnext' = [jnext EXCEPT ![j] = @ + 1]
            /\ UNCHANGED <<jpc, jid, jfolder, jhave, jclean, jtodo, jsent>>
       ELSE Leave(j, FALSE)
  /\ UNCHANGED <<workspace, told, deliveries, jskip, jrefs, jowed>>

\* The files one by one, whether they were there before or not.
WriteFile(j) ==
  /\ jpc[j] = "write"
  /\ \/ /\ folder' = [folder EXCEPT ![jfolder[j]].files = @ \cup {Files[jnext[j]]}]
        /\ IF jnext[j] < Len(Files)
             THEN /\ jnext' = [jnext EXCEPT ![j] = @ + 1]
                  /\ UNCHANGED <<jpc, jid, jfolder, jhave, jclean, jtodo, jsent>>
             ELSE IF j \in Hooks THEN Proceed(j, "stat") ELSE Leave(j, FALSE)
     \/ Fails("disk") /\ Leave(j, TRUE) /\ UNCHANGED folder
  /\ UNCHANGED <<workspace, told, deliveries, jskip, jrefs, jowed>>

-----------------------------------------------------------------------------
(* notifyAttendees.                                                        *)

\* mutant: the marker is not looked for
MutantStatMarker(j) ==
  /\ jpc[j] = "stat"
  /\ Proceed(j, "match")
  /\ UNCHANGED <<workspace, folder, told, deliveries, jskip, jrefs, jowed>>

\* mutant: a folder with all its files is taken for one that has been mailed
MutantFolderMarks(j) ==
  /\ jpc[j] = "stat"
  /\ IF Complete(jfolder[j]) THEN Leave(j, FALSE) ELSE Proceed(j, "match")
  /\ UNCHANGED <<workspace, folder, told, deliveries, jskip, jrefs, jowed>>

StatMarker(j) ==
  /\ jpc[j] = "stat"
  /\ IF folder[jfolder[j]].marker THEN Leave(j, FALSE) ELSE Proceed(j, "match")
  /\ UNCHANGED <<workspace, folder, told, deliveries, jskip, jrefs, jowed>>

\* Nobody's calendar has the meeting (or its start cannot be parsed): no mail.
MatchAttendees(j) ==
  /\ jpc[j] = "match"
  /\ \/ /\ Invited[jfolder[j]] # {}
        /\ jtodo' = [jtodo EXCEPT ![j] = Invited[jfolder[j]]]
        /\ JobAt(j, "send")
        /\ UNCHANGED <<jid, jfolder, jhave, jclean, jnext, jsent>>
     \/ /\ Invited[jfolder[j]] = {} \/ Fails("db")
        /\ Leave(j, FALSE)
  /\ UNCHANGED <<workspace, folder, told, deliveries, jskip, jrefs, jowed>>

\* A mail that fails is counted and the next one sent; its answer may be lost.
Send(j) ==
  /\ jpc[j] = "send"
  /\ \E p \in jtodo[j] :
       /\ jtodo' = [jtodo EXCEPT ![j] = @ \ {p}]
       /\ \/ /\ told' = [told EXCEPT ![jfolder[j][1]] = @ \cup {p}]
             /\ jsent' = [jsent EXCEPT ![j] = TRUE]
          \/ /\ Fails("mail")
             /\ told' \in {told, [told EXCEPT ![jfolder[j][1]] = @ \cup {p}]}
             /\ UNCHANGED jsent
  /\ UNCHANGED <<workspace, folder, deliveries, jpc, jid, jfolder, jnext, loop>>

\* mutant: the marker is due even if no mail got through
MutantSendDone(j) ==
  /\ jpc[j] = "send" /\ jtodo[j] = {}
  /\ Proceed(j, "mark")
  /\ UNCHANGED <<workspace, folder, told, deliveries, jskip, jrefs, jowed>>

\* The marker is due if any mail got through.
SendDone(j) ==
  /\ jpc[j] = "send" /\ jtodo[j] = {}
  /\ IF jsent[j] THEN Proceed(j, "mark") ELSE Leave(j, FALSE)
  /\ UNCHANGED <<workspace, folder, told, deliveries, jskip, jrefs, jowed>>

WriteMarker(j) ==
  /\ jpc[j] = "mark"
  /\ \/ folder' = [folder EXCEPT ![jfolder[j]].marker = TRUE]
     \/ Fails("disk") /\ UNCHANGED folder
  /\ Leave(j, FALSE)
  /\ UNCHANGED <<workspace, told, deliveries, jskip, jrefs, jowed>>

-----------------------------------------------------------------------------
(* The loop of the back-fill.                                              *)

\* mutant: skip is taken for the number of an item, not for a count
MutantPage(skip) == SubSeq(listing, IF skip = 0 THEN 1 ELSE skip + 2,
                      IF skip + PageSize < Len(listing) THEN skip + PageSize ELSE Len(listing))

Page(skip) == SubSeq(listing, skip + 1,
                IF skip + PageSize < Len(listing) THEN skip + PageSize ELSE Len(listing))

\* A page that cannot be read ends the loop; the answer is an error only if
\* nothing was counted before.
ListPage(j) ==
  /\ jpc[j] = "list"
  /\ LET page == Page(jskip[j]) IN
        \/ /\ jskip[j] < MaxSkip
           /\ jrefs' = [jrefs EXCEPT ![j] = page]
           /\ jskip' = [jskip EXCEPT ![j] = IF Len(page) < PageSize THEN MaxSkip ELSE @ + PageSize]
           /\ JobAt(j, "refs")
           /\ UNCHANGED jclean
        \/ /\ jskip[j] >= MaxSkip
           /\ JobAt(j, "report")
           /\ UNCHANGED <<jskip, jrefs, jclean>>
        \/ /\ jskip[j] < MaxSkip /\ Fails("api")
           /\ JobAt(j, "report")
           /\ jclean' = [jclean EXCEPT ![j] = FALSE]
           /\ UNCHANGED <<jskip, jrefs>>
  /\ UNCHANGED <<workspace, folder, told, deliveries, jid, jfolder, jnext, jtodo, jsent,
                 jhave, jowed>>

\* The next transcript of the page: skipped if it is there, else fetched.
NextRef(j) ==
  /\ jpc[j] = "refs"
  /\ IF jrefs[j] = <<>>
       THEN JobAt(j, "list") /\ UNCHANGED <<jrefs, jid>>
       ELSE /\ jrefs' = [jrefs EXCEPT ![j] = Tail(@)]
            /\ IF Head(jrefs[j]) \in jhave[j]
                 THEN UNCHANGED <<jpc, jid>>
                 ELSE JobAt(j, "fetch") /\ jid' = [jid EXCEPT ![j] = Head(jrefs[j])]
  /\ UNCHANGED <<workspace, folder, told, deliveries, jfolder, jnext, jtodo, jsent,
                 jskip, jhave, jowed, jclean>>

\* The counts are sent to the administrator.
Report(j) ==
  /\ jpc[j] = "report"
  /\ JobAt(j, "idle")
  /\ jrefs' = [jrefs EXCEPT ![j] = <<>>]
  /\ jskip' = [jskip EXCEPT ![j] = 0]
  /\ jhave' = [jhave EXCEPT ![j] = {}]
  /\ jowed' = [jowed EXCEPT ![j] = {}]
  /\ jclean' = [jclean EXCEPT ![j] = FALSE]
  /\ UNCHANGED <<workspace, folder, told, deliveries, jid, jfolder, jnext, jtodo, jsent>>

-----------------------------------------------------------------------------
\* The server stops: the goroutines are gone, the folders stay as they are.
ServerStops ==
  /\ Fails("crash")
  /\ jpc' = [j \in Jobs |-> "idle"]
  /\ jid' = [j \in Jobs |-> Nothing]
  /\ jfolder' = [j \in Jobs |-> Nothing]
  /\ jnext' = [j \in Jobs |-> 1]
  /\ jtodo' = [j \in Jobs |-> {}]
  /\ jsent' = [j \in Jobs |-> FALSE]
  /\ jskip' = [j \in Jobs |-> 0]
  /\ jrefs' = [j \in Jobs |-> <<>>]
  /\ jhave' = [j \in Jobs |-> {}]
  /\ jowed' = [j \in Jobs |-> {}]
  /\ jclean' = [j \in Jobs |-> FALSE]
  /\ UNCHANGED <<workspace, folder, told, deliveries>>

Serve(j) ==
  \/ GetTranscript(j) \/ MakeFolder(j) \/ WriteFile(j)
  \/ StatMarker(j) \/ MatchAttendees(j) \/ Send(j) \/ SendDone(j) \/ WriteMarker(j)
  \/ ListPage(j) \/ NextRef(j) \/ Report(j)

FirefliesNext ==
  \/ \E t \in Transcripts : Transcribe(t) \/ Rename(t) \/ DeleteTranscript(t)
  \/ Calm \/ ServerStops
  \/ \E j \in Jobs : Receive(j) \/ StartBackfill(j) \/ Serve(j)

\* A goroutine that was started goes on until it ends or the server stops.
FirefliesFairness == \A j \in Jobs : WF_firefliesVars(Serve(j))

FirefliesSpec == FirefliesInit /\ [][FirefliesNext]_firefliesVars /\ FirefliesFairness

-----------------------------------------------------------------------------
(* Properties.                                                             *)

\* Jobs that may still send mail about a folder without looking for its marker.
PastMarker(f) == {j \in Jobs : jfolder[j] = f /\ jpc[j] \in {"match", "send", "mark"}}

\* A retried delivery is silent: once a folder carries the marker and no delivery
\* that looked before it is under way, nobody is mailed about that folder again,
\* whatever is downloaded again or restarted (notifyAttendees).
RetriesAreSilent ==
  [][\A f \in FolderNames : folder[f].marker /\ PastMarker(f) = {} =>
       folder'[f].marker /\ PastMarker(f)' = {}]_firefliesVars

\* The marker is never a lie: its folder was downloaded to the last file, and
\* somebody has been mailed, so a delivery that mailed nobody can be retried.
MarkerTruthful ==
  \A f \in FolderNames : folder[f].marker => Complete(f) /\ told[f[1]] # {}

\* A back-fill that met no error and whose workspace lost no transcript has, when
\* it answers, a folder for every transcript there was when it began, although
\* new ones shift the pages under it (syncFireflies, up to its cap).
BackfillMissesNothing ==
  \A j \in Backfills : jpc[j] = "report" /\ jclean[j] /\ Len(listing) <= MaxSkip =>
    \A t \in jowed[j] : Downloaded(t)

\* A delivery served without failures, of a meeting somebody's calendar had, ends
\* with the transcript on the disk and somebody mailed (fetchAndDownload).
DeliveryTakesEffect ==
  \A f \in {g \in FolderNames : Invited[g] # {}} :
    (calm /\ \E h \in Hooks : jpc[h] = "mkdir" /\ jfolder[h] = f) ~>
      (Complete(f) /\ told[f[1]] # {})

=============================================================================
