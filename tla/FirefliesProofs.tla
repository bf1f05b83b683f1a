-------------------------- MODULE FirefliesProofs ---------------------------
(* Theorems about Fireflies, for every value of its constants.              *)
EXTENDS Fireflies, SequenceTheorems, TLAPS

-----------------------------------------------------------------------------
(* Type correctness.                                                        *)

\* The stages at which a job has a transcript in hand, and a folder of its own.
Working == {"fetch"} \cup FolderStages

\* The folder of a job is one of the transcript in its hand.
JobOK(j) ==
  /\ jpc[j] \in Working => jid[j] \in Transcripts
  /\ jpc[j] \in FolderStages => jfolder[j] \in FolderNames /\ jfolder[j][1] = jid[j]

TypeInv == FirefliesTypeOK /\ \A j \in Jobs : JobOK(j)

\* The empty directory and idle jobs are well typed.
LEMMA InitType == FirefliesInit => TypeInv
<1> SUFFICES ASSUME FirefliesInit PROVE TypeInv
  OBVIOUS
<1> USE FirefliesAssumption
<1>1. calm \in BOOLEAN
  <2>1. calm = FALSE
    BY DEF FirefliesInit
  <2>2. QED
    BY <2>1
<1>2. folder \in [FolderNames -> Folder]
  BY DEF FirefliesInit, Folder, FileNames
<1>3. FirefliesTypeOK
  BY <1>1, <1>2 DEF FirefliesInit, FirefliesTypeOK, JobStages, FolderStages, Files
<1>4. QED
  BY <1>3 DEF FirefliesInit, TypeInv, JobOK, Working, FolderStages

\* A part of the listing, with positions counted from its first.
LEMMA PartOfListing ==
  ASSUME NEW first \in Int, NEW last \in Int,
         \A i \in first .. last : listing[i] \in Transcripts
  PROVE  /\ SubSeq(listing, first, last) \in Seq(Transcripts)
         /\ Len(SubSeq(listing, first, last)) = IF first <= last THEN last - first + 1 ELSE 0
         /\ \A i \in 1 .. last - first + 1 :
              SubSeq(listing, first, last)[i] = listing[first + i - 1]
BY SubSeqProperties, SMTT(60)

\* A page of the listing is a sequence of transcripts.
LEMMA PageOfListing ==
  ASSUME FirefliesTypeOK, NEW skip \in Nat
  PROVE  /\ Page(skip) \in Seq(Transcripts)
         /\ Len(Page(skip)) =
              IF skip + PageSize < Len(listing) THEN PageSize
              ELSE IF skip < Len(listing) THEN Len(listing) - skip ELSE 0
         /\ \A i \in 1..Len(Page(skip)) : Page(skip)[i] = listing[skip + i]
<1> USE FirefliesAssumption
<1> DEFINE last == IF skip + PageSize < Len(listing) THEN skip + PageSize ELSE Len(listing)
<1>1. /\ Len(listing) \in Nat /\ last \in Nat /\ last <= Len(listing)
      /\ \A i \in 1..Len(listing) : listing[i] \in Transcripts
  BY LenProperties, ElementOfSeq DEF FirefliesTypeOK
<1>2. Page(skip) = SubSeq(listing, skip + 1, last)
  BY DEF Page
<1>3. \A i \in skip + 1 .. last : listing[i] \in Transcripts
  BY <1>1
<1> HIDE DEF last
<1>4. /\ Page(skip) \in Seq(Transcripts)
      /\ Len(Page(skip)) = IF skip + 1 <= last THEN last - skip ELSE 0
      /\ \A i \in 1 .. last - skip : Page(skip)[i] = listing[skip + i]
  <2> DEFINE first == skip + 1
  <2>1. first \in Int /\ last \in Int
    BY <1>1
  <2> HIDE DEF first
  <2>2. /\ SubSeq(listing, first, last) \in Seq(Transcripts)
        /\ Len(SubSeq(listing, first, last)) = IF first <= last THEN last - first + 1 ELSE 0
        /\ \A i \in 1 .. last - first + 1 :
             SubSeq(listing, first, last)[i] = listing[first + i - 1]
    <3>1. \A i \in first .. last : listing[i] \in Transcripts
      BY <1>3 DEF first
    <3>2. QED
      BY <2>1, <3>1, PartOfListing, ZenonT(60)
  <2>3. /\ last - first + 1 = last - skip
        /\ \A i \in Int : first + i - 1 = skip + i
    <3>1. first = skip + 1 /\ skip \in Int /\ last \in Int
      BY <2>1 DEF first
    <3>2. last - first + 1 = last - skip
      BY <3>1
    <3>3. \A i \in Int : first + i - 1 = skip + i
      BY <3>1
    <3>4. QED
      BY <3>2, <3>3
  <2>4. Page(skip) = SubSeq(listing, first, last)
    BY <1>2 DEF first
  <2>5. \A i \in 1 .. last - skip : Page(skip)[i] = listing[skip + i]
    <3> SUFFICES ASSUME NEW i \in 1 .. last - skip PROVE Page(skip)[i] = listing[skip + i]
      OBVIOUS
    <3>1. i \in 1 .. last - first + 1 /\ i \in Int
      BY <1>1, <2>3
    <3>2. SubSeq(listing, first, last)[i] = listing[first + i - 1]
      BY <2>2, <3>1
    <3>3. QED
      BY <2>3, <2>4, <3>1, <3>2
  <2>6. QED
    BY <2>2, <2>3, <2>4, <2>5 DEF first
<1>5. QED
  BY <1>1, <1>4 DEF last

\* The steps a job can make, with a transcript in hand, are these.
LEMMA WorkSteps ==
  ASSUME NEW j \in Jobs, Serve(j)
  PROVE  \/ /\ jpc[j] \in Working
            /\ \/ GetTranscript(j) \/ MakeFolder(j) \/ WriteFile(j) \/ StatMarker(j)
               \/ MatchAttendees(j) \/ Send(j) \/ SendDone(j) \/ WriteMarker(j)
         \/ ListPage(j) \/ NextRef(j) \/ Report(j)
BY DEF Serve, Working, FolderStages, GetTranscript, MakeFolder, WriteFile, StatMarker,
       MatchAttendees, Send, SendDone, WriteMarker

\* What the jobs have in hand, and how far they are, is well typed.
JobTypes ==
  /\ jpc \in [Jobs -> JobStages]
  /\ jid \in [Jobs -> Transcripts \cup {Nothing}]
  /\ jfolder \in [Jobs -> FolderNames \cup {Nothing}]
  /\ jnext \in [Jobs -> 1..Len(Files)]
  /\ jtodo \in [Jobs -> SUBSET People]
  /\ jsent \in [Jobs -> BOOLEAN]

LoopTypes ==
  /\ jskip \in [Jobs -> Nat]
  /\ jrefs \in [Jobs -> Seq(Transcripts)]
  /\ jhave \in [Jobs -> SUBSET Transcripts]
  /\ jowed \in [Jobs -> SUBSET Transcripts]
  /\ jclean \in [Jobs -> BOOLEAN]

\* The job does not look beyond what is its own.
OthersAlone(j) ==
  \A i \in Jobs \ {j} : jpc'[i] = jpc[i] /\ jid'[i] = jid[i] /\ jfolder'[i] = jfolder[i]

LEMMA Parts == TypeInv => JobTypes /\ LoopTypes
BY DEF TypeInv, FirefliesTypeOK, JobTypes, LoopTypes

LEMMA InHand ==
  ASSUME TypeInv, NEW j \in Jobs, jpc[j] \in FolderStages
  PROVE  jid[j] \in Transcripts /\ jfolder[j] \in FolderNames /\ jfolder[j][1] = jid[j]
BY DEF TypeInv, JobOK, Working

\* The types after a step of a job follow from those of what it changes; its
\* first step counts a delivery.
LEMMA JobStepOrFirst ==
  ASSUME TypeInv, NEW j \in Jobs, UNCHANGED workspace, deliveries' \in 0..MaxDeliveries,
         folder' \in [FolderNames -> Folder], told' \in [Transcripts -> SUBSET People],
         JobTypes', LoopTypes', OthersAlone(j), JobOK(j)'
  PROVE  TypeInv'
<1>1. \A i \in Jobs : JobOK(i)'
  <2> SUFFICES ASSUME NEW i \in Jobs, i # j PROVE JobOK(i)'
    OBVIOUS
  <2>1. JobOK(i) /\ jpc'[i] = jpc[i] /\ jid'[i] = jid[i] /\ jfolder'[i] = jfolder[i]
    BY DEF TypeInv, OthersAlone
  <2>2. QED
    BY <2>1 DEF JobOK
<1>2. \A i \in Jobs : jpc'[i] \in FolderStages => jfolder'[i] # Nothing
  BY <1>1, FirefliesAssumption DEF JobOK, FolderNames
<1>3. QED
  BY <1>1, <1>2 DEF TypeInv, FirefliesTypeOK, workspace, JobTypes, LoopTypes

LEMMA JobStep ==
  ASSUME TypeInv, NEW j \in Jobs, UNCHANGED <<workspace, deliveries>>,
         folder' \in [FolderNames -> Folder], told' \in [Transcripts -> SUBSET People],
         JobTypes', LoopTypes', OthersAlone(j), JobOK(j)'
  PROVE  TypeInv'
<1>1. deliveries' \in 0..MaxDeliveries
  BY DEF TypeInv, FirefliesTypeOK
<1>2. QED
  BY <1>1, JobStepOrFirst

\* A request or a run begins with the directory and the mails as they are.
LEMMA BeginType ==
  ASSUME TypeInv, NEW j \in Jobs, NEW stage \in JobStages, Begin(j, stage)
  PROVE  /\ UNCHANGED workspace
         /\ deliveries' \in 0..MaxDeliveries
         /\ folder' \in [FolderNames -> Folder]
         /\ told' \in [Transcripts -> SUBSET People]
         /\ jpc' = [jpc EXCEPT ![j] = stage]
         /\ UNCHANGED <<jfolder, jnext, jtodo, jsent>>
<1> USE FirefliesAssumption
<1>1. /\ deliveries \in 0..MaxDeliveries
      /\ folder \in [FolderNames -> Folder]
      /\ told \in [Transcripts -> SUBSET People]
  BY DEF TypeInv, FirefliesTypeOK
<1>2. /\ deliveries < MaxDeliveries /\ deliveries' = deliveries + 1
      /\ jpc' = [jpc EXCEPT ![j] = stage]
      /\ UNCHANGED <<workspace, folder, told, jfolder, jnext, jtodo, jsent>>
  BY DEF Begin, JobAt
<1>3. deliveries' \in 0..MaxDeliveries
  BY <1>1, <1>2
<1>4. QED
  BY <1>1, <1>2, <1>3

\* Leaving a transcript keeps the types.
LEMMA LeaveType ==
  ASSUME TypeInv, NEW j \in Jobs, jpc[j] \in Working, NEW failed \in BOOLEAN,
         Leave(j, failed), UNCHANGED <<jskip, jrefs, jowed>>
  PROVE  JobTypes' /\ LoopTypes' /\ OthersAlone(j) /\ JobOK(j)'
<1> USE Parts DEF JobTypes, LoopTypes
<1>1. jid[j] \in Transcripts
  BY DEF TypeInv, JobOK
<1>2. jclean' \in [Jobs -> BOOLEAN]
  BY Zenon DEF Leave
<1>3. jpc' \in [Jobs -> JobStages] /\ jpc'[j] \in {"refs", "idle"}
  BY DEF Leave, JobAt, JobStages
<1>4. jhave' \in [Jobs -> SUBSET Transcripts]
  BY <1>1 DEF Leave
<1>5. JobTypes'
  BY <1>3 DEF Leave, Files
<1>6. QED
  BY <1>2, <1>3, <1>4, <1>5 DEF Leave, JobAt, OthersAlone, JobOK, Working, FolderStages

\* So does going on with it.
LEMMA ProceedType ==
  ASSUME TypeInv, NEW j \in Jobs, jpc[j] \in FolderStages, NEW stage \in FolderStages,
         Proceed(j, stage), UNCHANGED <<jskip, jrefs, jowed>>
  PROVE  JobTypes' /\ LoopTypes' /\ OthersAlone(j) /\ JobOK(j)'
<1> USE Parts DEF JobTypes, LoopTypes
<1>1. jpc' = [jpc EXCEPT ![j] = stage] /\ UNCHANGED <<jid, jfolder, jhave, jclean, mailing>>
  BY DEF Proceed, JobAt
<1>2. stage \in JobStages
  BY DEF FolderStages, JobStages
<1>3. JobTypes' /\ LoopTypes'
  BY <1>1, <1>2 DEF mailing
<1>4. QED
  BY <1>1, <1>3, InHand DEF OthersAlone, JobOK

\* What a job may write in a folder.
Writes(f) ==
  \/ UNCHANGED folder
  \/ folder' = [folder EXCEPT ![f].dir = TRUE]
  \/ folder' = [folder EXCEPT ![f].marker = TRUE]
  \/ \E i \in 1..Len(Files) : folder' = [folder EXCEPT ![f].files = @ \cup {Files[i]}]

\* It leaves a directory of folders.
LEMMA FolderWrites ==
  ASSUME TypeInv, NEW f \in FolderNames, Writes(f)
  PROVE  folder' \in [FolderNames -> Folder]
<1>1. folder \in [FolderNames -> Folder]
  BY DEF TypeInv, FirefliesTypeOK
<1>2. \A i \in 1..Len(Files) : Files[i] \in FileNames
  BY DEF Files, FileNames
<1>3. CASE folder' = [folder EXCEPT ![f].dir = TRUE]
  BY <1>1, <1>3 DEF Folder
<1>4. CASE folder' = [folder EXCEPT ![f].marker = TRUE]
  BY <1>1, <1>4 DEF Folder
<1>5. ASSUME NEW i \in 1..Len(Files), folder' = [folder EXCEPT ![f].files = @ \cup {Files[i]}]
      PROVE  folder' \in [FolderNames -> Folder]
  BY <1>1, <1>2, <1>5 DEF Folder
<1>6. QED
  BY <1>1, <1>3, <1>4, <1>5 DEF Writes

\* Every step keeps the types.
LEMMA TypeStep == TypeInv /\ [FirefliesNext]_firefliesVars => TypeInv'
<1> SUFFICES ASSUME TypeInv, [FirefliesNext]_firefliesVars PROVE TypeInv'
  OBVIOUS
<1> USE FirefliesAssumption
<1>1. ASSUME NEW t \in Transcripts, Transcribe(t) PROVE TypeInv'
  <2>1. listing' \in Seq(Transcripts)
    BY <1>1 DEF Transcribe, TypeInv, FirefliesTypeOK
  <2>2. QED
    BY <1>1, <2>1 DEF Transcribe, WorkspaceChanges, TypeInv, FirefliesTypeOK, JobOK
<1>2. ASSUME NEW t \in Transcripts, Rename(t) PROVE TypeInv'
  BY <1>2 DEF Rename, WorkspaceChanges, TypeInv, FirefliesTypeOK, JobOK
<1>3. ASSUME NEW t \in Transcripts, DeleteTranscript(t) PROVE TypeInv'
  <2>1. PICK i \in DOMAIN listing :
          listing' = SubSeq(listing, 1, i - 1) \o SubSeq(listing, i + 1, Len(listing))
    BY <1>3 DEF DeleteTranscript
  <2>2. listing \in Seq(Transcripts) /\ Len(listing) \in Nat /\ i \in 1..Len(listing)
    BY LenProperties DEF TypeInv, FirefliesTypeOK
  <2>3. \A k \in 1..Len(listing) : listing[k] \in Transcripts
    BY <2>2, ElementOfSeq
  <2>4. SubSeq(listing, 1, i - 1) \in Seq(Transcripts)
    <3>1. i - 1 \in Int /\ \A k \in 1 .. i - 1 : listing[k] \in Transcripts
      BY <2>2, <2>3
    <3>2. QED
      BY <3>1, SubSeqProperties
  <2>5. SubSeq(listing, i + 1, Len(listing)) \in Seq(Transcripts)
    <3>1. i + 1 \in Int /\ \A k \in i + 1 .. Len(listing) : listing[k] \in Transcripts
      BY <2>2, <2>3
    <3>2. QED
      BY <2>2, <3>1, SubSeqProperties
  <2>6. listing' \in Seq(Transcripts)
    BY <2>1, <2>4, <2>5, ConcatProperties
  <2>7. /\ events < MaxEvents /\ events' = events + 1 /\ jclean' = [j \in Jobs |-> FALSE]
        /\ UNCHANGED <<title, folder, told, deliveries, calm, jpc, jid, jfolder, jnext, jtodo,
                       jsent, jskip, jrefs, jhave, jowed>>
    BY <1>3 DEF DeleteTranscript, WorkspaceChanges
  <2>8. jclean' \in [Jobs -> BOOLEAN]
    BY <2>7
  <2>9. QED
    BY <2>6, <2>7, <2>8 DEF TypeInv, FirefliesTypeOK, JobOK
<1>4. CASE Calm
  BY <1>4 DEF Calm, loop, TypeInv, FirefliesTypeOK, JobOK
<1>5. CASE ServerStops
  BY <1>5 DEF ServerStops, workspace, TypeInv, FirefliesTypeOK, JobOK, JobStages, Files,
              Working, FolderStages
<1>6. ASSUME NEW j \in Jobs, Receive(j) PROVE TypeInv'
  <2>1. PICK t \in SeqRange(listing) : jid' = [jid EXCEPT ![j] = t]
    BY <1>6 DEF Receive
  <2>2. t \in Transcripts
    BY LenProperties, ElementOfSeq DEF SeqRange, TypeInv, FirefliesTypeOK
  <2>3. Begin(j, "fetch") /\ UNCHANGED loop /\ "fetch" \in JobStages
    BY <1>6 DEF Receive, JobStages
  <2>4. /\ jpc' = [jpc EXCEPT ![j] = "fetch"]
        /\ UNCHANGED <<jfolder, jnext, jtodo, jsent>>
    BY <2>3, BeginType
  <2>5. JobTypes'
    BY <2>1, <2>2, <2>3, <2>4, Parts DEF JobTypes
  <2>6. LoopTypes'
    BY <2>3, Parts DEF LoopTypes, loop
  <2>7. OthersAlone(j) /\ JobOK(j)'
    BY <2>1, <2>2, <2>4, Parts DEF JobTypes, OthersAlone, JobOK, FolderStages
  <2>8. QED
    BY <2>3, <2>5, <2>6, <2>7, BeginType, JobStepOrFirst
<1>7. ASSUME NEW j \in Jobs, StartBackfill(j) PROVE TypeInv'
  <2>1. SeqRange(listing) \subseteq Transcripts
    BY LenProperties, ElementOfSeq DEF SeqRange, TypeInv, FirefliesTypeOK
  <2>2. Begin(j, "list") /\ UNCHANGED <<jid, jrefs>> /\ "list" \in JobStages
    BY <1>7 DEF StartBackfill, JobStages
  <2>3. /\ jpc' = [jpc EXCEPT ![j] = "list"]
        /\ UNCHANGED <<jfolder, jnext, jtodo, jsent>>
    BY <2>2, BeginType
  <2>4. JobTypes'
    BY <2>2, <2>3, Parts DEF JobTypes
  <2>5. LoopTypes'
    BY <1>7, <2>1, <2>2, Parts DEF StartBackfill, LoopTypes
  <2>6. OthersAlone(j) /\ JobOK(j)'
    BY <2>2, <2>3, Parts DEF JobTypes, OthersAlone, JobOK, Working, FolderStages
  <2>7. QED
    BY <2>2, <2>4, <2>5, <2>6, BeginType, JobStepOrFirst
<1>8. folder \in [FolderNames -> Folder] /\ told \in [Transcripts -> SUBSET People]
  BY DEF TypeInv, FirefliesTypeOK
<1>9. ASSUME NEW j \in Jobs, jpc[j] \in Working, GetTranscript(j) PROVE TypeInv'
  <2>1. UNCHANGED <<workspace, deliveries, folder, told, jskip, jrefs, jowed>>
    BY <1>9 DEF GetTranscript
  <2>2. CASE Leave(j, TRUE)
    BY <1>8, <1>9, <2>1, <2>2, LeaveType, JobStep
  <2>3. CASE ~Leave(j, TRUE)
    <3>1. /\ jfolder' = [jfolder EXCEPT ![j] = <<jid[j], title[jid[j]]>>]
          /\ jpc' = [jpc EXCEPT ![j] = "mkdir"]
          /\ UNCHANGED <<jid, jhave, jclean, mailing>>
      BY <1>9, <2>3 DEF GetTranscript, JobAt
    <3>2. jid[j] \in Transcripts /\ <<jid[j], title[jid[j]]>> \in FolderNames
      BY <1>9 DEF FolderNames, TypeInv, FirefliesTypeOK, JobOK
    <3>3. JobTypes' /\ LoopTypes' /\ OthersAlone(j) /\ JobOK(j)'
      BY <2>1, <3>1, <3>2, Parts DEF JobTypes, LoopTypes, OthersAlone, JobOK, mailing, JobStages
    <3>4. QED
      BY <1>8, <2>1, <3>3, JobStep
  <2>4. QED
    BY <2>2, <2>3
<1>10. ASSUME NEW j \in Jobs, jpc[j] \in Working, MakeFolder(j) PROVE TypeInv'
  <2>1. /\ jpc[j] \in FolderStages
        /\ UNCHANGED <<workspace, told, deliveries, jskip, jrefs, jowed>>
        /\ Writes(jfolder[j])
        /\ Proceed(j, "write") \/ Leave(j, TRUE)
    BY <1>10 DEF MakeFolder, FolderStages, Writes
  <2>2. folder' \in [FolderNames -> Folder]
    BY <2>1, InHand, FolderWrites
  <2>3. JobTypes' /\ LoopTypes' /\ OthersAlone(j) /\ JobOK(j)'
    BY <1>10, <2>1, LeaveType, ProceedType DEF FolderStages
  <2>4. QED
    BY <1>8, <2>1, <2>2, <2>3, JobStep
<1>11. ASSUME NEW j \in Jobs, jpc[j] \in Working, WriteFile(j) PROVE TypeInv'
  <2>1. /\ jpc[j] \in FolderStages
        /\ UNCHANGED <<workspace, told, deliveries, jskip, jrefs, jowed>>
    BY <1>11 DEF WriteFile, FolderStages
  <2>2. jnext[j] \in 1..Len(Files) /\ Writes(jfolder[j])
    BY <1>11, Parts DEF JobTypes, WriteFile, Writes
  <2>3. folder' \in [FolderNames -> Folder]
    BY <2>1, <2>2, InHand, FolderWrites
  <2>4. CASE Leave(j, TRUE) \/ Leave(j, FALSE)
    BY <1>8, <1>11, <2>1, <2>3, <2>4, LeaveType, JobStep
  <2>5. CASE Proceed(j, "stat")
    <3>1. JobTypes' /\ LoopTypes' /\ OthersAlone(j) /\ JobOK(j)'
      BY <2>1, <2>5, ProceedType DEF FolderStages
    <3>2. QED
      BY <1>8, <2>1, <2>3, <3>1, JobStep
  <2>6. CASE /\ jnext[j] < Len(Files) /\ jnext' = [jnext EXCEPT ![j] = @ + 1]
             /\ UNCHANGED <<jpc, jid, jfolder, jhave, jclean, jtodo, jsent>>
    <3>1. JobTypes' /\ LoopTypes'
      BY <2>1, <2>2, <2>6, Parts DEF JobTypes, LoopTypes, Files
    <3>2. OthersAlone(j) /\ JobOK(j)'
      BY <2>6 DEF TypeInv, OthersAlone, JobOK
    <3>3. QED
      BY <1>8, <2>1, <2>3, <3>1, <3>2, JobStep
  <2>7. QED
    BY <1>11, <2>4, <2>5, <2>6 DEF WriteFile
<1>12. ASSUME NEW j \in Jobs, jpc[j] \in Working, StatMarker(j) PROVE TypeInv'
  <2>1. /\ jpc[j] \in FolderStages
        /\ UNCHANGED <<workspace, folder, told, deliveries, jskip, jrefs, jowed>>
        /\ Leave(j, FALSE) \/ Proceed(j, "match")
    BY <1>12 DEF StatMarker, FolderStages
  <2>2. JobTypes' /\ LoopTypes' /\ OthersAlone(j) /\ JobOK(j)'
    BY <1>12, <2>1, LeaveType, ProceedType DEF FolderStages
  <2>3. QED
    BY <1>8, <2>1, <2>2, JobStep
<1>13. ASSUME NEW j \in Jobs, jpc[j] \in Working, MatchAttendees(j) PROVE TypeInv'
  <2>1. /\ jpc[j] \in FolderStages
        /\ UNCHANGED <<workspace, folder, told, deliveries, jskip, jrefs, jowed>>
    BY <1>13 DEF MatchAttendees, FolderStages
  <2>2. CASE Leave(j, FALSE)
    BY <1>8, <1>13, <2>1, <2>2, LeaveType, JobStep
  <2>3. CASE ~Leave(j, FALSE)
    <3>1. /\ jtodo' = [jtodo EXCEPT ![j] = Invited[jfolder[j]]]
          /\ jpc' = [jpc EXCEPT ![j] = "send"]
          /\ UNCHANGED <<jid, jfolder, jhave, jclean, jnext, jsent>>
      BY <1>13, <2>3 DEF MatchAttendees, JobAt
    <3>2. Invited[jfolder[j]] \subseteq People
      BY <2>1, InHand DEF FolderNames
    <3>3. JobTypes' /\ LoopTypes'
      BY <2>1, <3>1, <3>2, Parts DEF JobTypes, LoopTypes, JobStages
    <3>4. OthersAlone(j) /\ JobOK(j)'
      BY <2>1, <3>1, InHand, Parts DEF JobTypes, OthersAlone, JobOK
    <3>5. QED
      BY <1>8, <2>1, <3>3, <3>4, JobStep
  <2>4. QED
    BY <2>2, <2>3
<1>14. ASSUME NEW j \in Jobs, jpc[j] \in Working, Send(j) PROVE TypeInv'
  <2>1. /\ jpc[j] \in FolderStages
        /\ UNCHANGED <<workspace, folder, deliveries, jpc, jid, jfolder, jnext, loop>>
    BY <1>14 DEF Send, FolderStages
  <2>2. PICK p \in jtodo[j] :
          /\ jtodo' = [jtodo EXCEPT ![j] = @ \ {p}]
          /\ told' \in {told, [told EXCEPT ![jfolder[j][1]] = @ \cup {p}]}
          /\ jsent' \in {jsent, [jsent EXCEPT ![j] = TRUE]}
    BY <1>14 DEF Send
  <2>3. p \in People /\ jfolder[j][1] \in Transcripts
    BY <2>1, InHand, Parts DEF JobTypes
  <2>4. told' \in [Transcripts -> SUBSET People]
    BY <1>8, <2>2, <2>3
  <2>5. JobTypes' /\ LoopTypes'
    BY <2>1, <2>2, Parts DEF JobTypes, LoopTypes, loop
  <2>6. OthersAlone(j) /\ JobOK(j)'
    BY <2>1 DEF TypeInv, OthersAlone, JobOK
  <2>7. QED
    BY <1>8, <2>1, <2>4, <2>5, <2>6, JobStep
<1>15. ASSUME NEW j \in Jobs, jpc[j] \in Working, SendDone(j) PROVE TypeInv'
  <2>1. /\ jpc[j] \in FolderStages
        /\ UNCHANGED <<workspace, folder, told, deliveries, jskip, jrefs, jowed>>
        /\ Leave(j, FALSE) \/ Proceed(j, "mark")
    BY <1>15 DEF SendDone, FolderStages
  <2>2. JobTypes' /\ LoopTypes' /\ OthersAlone(j) /\ JobOK(j)'
    BY <1>15, <2>1, LeaveType, ProceedType DEF FolderStages
  <2>3. QED
    BY <1>8, <2>1, <2>2, JobStep
<1>16. ASSUME NEW j \in Jobs, jpc[j] \in Working, WriteMarker(j) PROVE TypeInv'
  <2>1. /\ jpc[j] \in FolderStages
        /\ UNCHANGED <<workspace, told, deliveries, jskip, jrefs, jowed>>
        /\ Writes(jfolder[j])
        /\ Leave(j, FALSE)
    BY <1>16 DEF WriteMarker, FolderStages, Writes
  <2>2. folder' \in [FolderNames -> Folder]
    BY <2>1, InHand, FolderWrites
  <2>3. JobTypes' /\ LoopTypes' /\ OthersAlone(j) /\ JobOK(j)'
    BY <1>16, <2>1, LeaveType
  <2>4. QED
    BY <1>8, <2>1, <2>2, <2>3, JobStep
<1>17. ASSUME NEW j \in Jobs, ListPage(j) PROVE TypeInv'
  <2>1. /\ jpc' \in {[jpc EXCEPT ![j] = "refs"], [jpc EXCEPT ![j] = "report"]}
        /\ UNCHANGED <<workspace, folder, told, deliveries, jid, jfolder, jnext, jtodo, jsent,
                       jhave, jowed>>
    BY <1>17 DEF ListPage, JobAt
  <2>2. jskip[j] \in Nat /\ jskip[j] + PageSize \in Nat
    BY DEF TypeInv, FirefliesTypeOK
  <2>3. Page(jskip[j]) \in Seq(Transcripts)
    BY <2>2, PageOfListing DEF TypeInv
  <2>4. jskip' \in [Jobs -> Nat]
    <3>1. jskip' \in {jskip, [jskip EXCEPT ![j] = MaxSkip], [jskip EXCEPT ![j] = @ + PageSize]}
      BY <1>17 DEF ListPage
    <3>2. QED
      BY <2>2, <3>1, Parts DEF LoopTypes
  <2>5. jrefs' \in [Jobs -> Seq(Transcripts)]
    <3>1. jrefs' \in {jrefs, [jrefs EXCEPT ![j] = Page(jskip[j])]}
      BY <1>17 DEF ListPage
    <3>2. QED
      BY <2>3, <3>1, Parts DEF LoopTypes
  <2>6. jclean' \in [Jobs -> BOOLEAN]
    <3>1. jclean' \in {jclean, [jclean EXCEPT ![j] = FALSE]}
      BY <1>17 DEF ListPage
    <3>2. QED
      BY <3>1, Parts DEF LoopTypes
  <2>7. JobTypes' /\ LoopTypes' /\ OthersAlone(j) /\ JobOK(j)'
    BY <2>1, <2>4, <2>5, <2>6, Parts DEF JobTypes, LoopTypes, OthersAlone, JobOK, Working,
                                         FolderStages, JobStages
  <2>8. QED
    BY <1>8, <2>1, <2>7, JobStep
<1>18. ASSUME NEW j \in Jobs, NextRef(j) PROVE TypeInv'
  <2>1. UNCHANGED <<workspace, folder, told, deliveries, jfolder, jnext, jtodo, jsent,
                    jskip, jhave, jowed, jclean>>
    BY <1>18 DEF NextRef
  <2>2. CASE jrefs[j] = <<>>
    <3>1. jpc' = [jpc EXCEPT ![j] = "list"] /\ UNCHANGED <<jrefs, jid>>
      BY <1>18, <2>2 DEF NextRef, JobAt
    <3>2. JobTypes' /\ LoopTypes' /\ OthersAlone(j) /\ JobOK(j)'
      BY <2>1, <3>1, Parts DEF JobTypes, LoopTypes, OthersAlone, JobOK, Working, FolderStages,
                               JobStages
    <3>3. QED
      BY <1>8, <2>1, <3>2, JobStep
  <2>3. CASE jrefs[j] # <<>>
    <3>1. Head(jrefs[j]) \in Transcripts /\ Tail(jrefs[j]) \in Seq(Transcripts)
      BY <2>3, HeadTailProperties, Parts DEF LoopTypes
    <3>2. /\ jrefs' = [jrefs EXCEPT ![j] = Tail(@)]
          /\ \/ UNCHANGED <<jpc, jid>>
             \/ /\ jpc' = [jpc EXCEPT ![j] = "fetch"]
                /\ jid' = [jid EXCEPT ![j] = Head(jrefs[j])]
      BY <1>18, <2>3 DEF NextRef, JobAt
    <3>3. JobTypes' /\ LoopTypes'
      <4>1. jrefs' \in [Jobs -> Seq(Transcripts)]
        BY <3>1, <3>2, Parts DEF LoopTypes
      <4>2. jpc' \in [Jobs -> JobStages] /\ jid' \in [Jobs -> Transcripts \cup {Nothing}]
        <5>1. CASE UNCHANGED <<jpc, jid>>
          BY <5>1, Parts DEF JobTypes
        <5>2. CASE /\ jpc' = [jpc EXCEPT ![j] = "fetch"]
                   /\ jid' = [jid EXCEPT ![j] = Head(jrefs[j])]
          BY <3>1, <5>2, Parts DEF JobTypes, JobStages
        <5>3. QED
          BY <3>2, <5>1, <5>2
      <4>3. QED
        BY <2>1, <4>1, <4>2, Parts DEF JobTypes, LoopTypes
    <3>4. OthersAlone(j)
      BY <2>1, <3>2, Parts DEF JobTypes, OthersAlone
    <3>5. JobOK(j)'
      <4>1. jpc'[j] \in {"refs", "fetch"}
        BY <1>18, <3>2, Parts DEF JobTypes, NextRef
      <4>2. jpc'[j] = "fetch" => jid'[j] \in Transcripts
        BY <1>18, <3>1, <3>2, Parts DEF JobTypes, NextRef
      <4>3. QED
        BY <4>1, <4>2 DEF JobOK, Working, FolderStages
    <3>6. QED
      BY <1>8, <2>1, <3>3, <3>4, <3>5, JobStep
  <2>4. QED
    BY <2>2, <2>3
<1>19. ASSUME NEW j \in Jobs, Report(j) PROVE TypeInv'
  BY <1>19 DEF Report, JobAt, workspace, TypeInv, FirefliesTypeOK, JobOK, JobStages,
               Working, FolderStages
<1>20. CASE UNCHANGED firefliesVars
  BY <1>20 DEF firefliesVars, workspace, loop, TypeInv, FirefliesTypeOK, JobOK
<1>21. QED
  BY <1>1, <1>2, <1>3, <1>4, <1>5, <1>6, <1>7, <1>9, <1>10, <1>11, <1>12, <1>13,
     <1>14, <1>15, <1>16, <1>17, <1>18, <1>19, <1>20, WorkSteps DEF FirefliesNext

\* Holds at every moment of every behaviour.
LEMMA InductiveType == FirefliesInit /\ [][FirefliesNext]_firefliesVars => []TypeInv
BY InitType, TypeStep, PTL

\* Jobs are at one of their stages, their transcripts and folders are ones there
\* can be, and a job that works on a folder has one (fetchAndDownload, syncFireflies).
THEOREM FirefliesTypeCorrect == FirefliesSpec => []FirefliesTypeOK
<1>1. TypeInv => FirefliesTypeOK
  BY DEF TypeInv
<1>2. QED
  BY <1>1, InductiveType, PTL DEF FirefliesSpec

-----------------------------------------------------------------------------
(* The inductive invariants.                                                *)

\* The stages of notifyAttendees, which only a finished download reaches.
Notifying == {"stat", "match", "send", "mark"}

\* What a job has done so far of its folder is in the folder, whoever else writes
\* there; and a job that counts a mail as sent has sent one.
FolderOK(j) ==
  /\ jpc[j] \in {"write"} \cup Notifying => folder[jfolder[j]].dir
  /\ jpc[j] \notin {"write"} \cup Notifying => jnext[j] = 1
  /\ jpc[j] = "write" =>
       \A i \in 1..Len(Files) : i < jnext[j] => Files[i] \in folder[jfolder[j]].files
  /\ jpc[j] \in Notifying => Complete(jfolder[j])
  /\ jsent[j] => jpc[j] \in {"send", "mark"} /\ told[jid[j]] # {}
  /\ jpc[j] = "mark" => jsent[j]

FolderInv == (\A j \in Jobs : FolderOK(j)) /\ MarkerTruthful

\* A transcript a back-fill owes is on the disk, in the page it works on, in its
\* hand, or further down the listing than it has read.
Ahead(j, t) == \E i \in DOMAIN listing : i > jskip[j] /\ listing[i] = t

Due(j, t) ==
  \/ Downloaded(t)
  \/ t \in SeqRange(jrefs[j])
  \/ jpc[j] \in Working /\ t = jid[j]
  \/ Ahead(j, t)

BackfillOK(j) ==
  /\ \A t \in jhave[j] : Downloaded(t)
  /\ jpc[j] \in {"idle", "list", "report"} => jrefs[j] = <<>>
  /\ jpc[j] = "idle" => ~jclean[j]
  /\ jpc[j] = "report" /\ jclean[j] => jskip[j] >= MaxSkip
  /\ jclean[j] => \A t \in jowed[j] : Due(j, t)

BackfillInv == \A j \in Backfills : BackfillOK(j)

-----------------------------------------------------------------------------
(* What no step takes away.                                                 *)

\* Folders only grow, and who has been mailed has been mailed.
Grown ==
  /\ \A f \in FolderNames :
       /\ folder[f].dir => folder'[f].dir
       /\ folder[f].marker => folder'[f].marker
       /\ folder[f].files \subseteq folder'[f].files
       /\ folder[f].marker # folder'[f].marker =>
            \E j \in Jobs : jpc[j] = "mark" /\ jfolder[j] = f
  /\ \A t \in Transcripts : told[t] \subseteq told'[t]

LEMMA Growth == ASSUME TypeInv, [FirefliesNext]_firefliesVars PROVE Grown
<1>1. folder \in [FolderNames -> Folder] /\ told \in [Transcripts -> SUBSET People]
  BY DEF TypeInv, FirefliesTypeOK
<1>2. CASE UNCHANGED <<folder, told>>
  BY <1>2 DEF Grown
<1>3. ASSUME NEW j \in Jobs, MakeFolder(j) PROVE Grown
  <2>1. /\ UNCHANGED told /\ jfolder[j] \in FolderNames
        /\ folder' \in {folder, [folder EXCEPT ![jfolder[j]].dir = TRUE]}
    BY <1>3, InHand DEF MakeFolder, FolderStages
  <2>2. QED
    BY <1>1, <2>1 DEF Grown, Folder
<1>4. ASSUME NEW j \in Jobs, WriteFile(j) PROVE Grown
  <2>1. /\ UNCHANGED told /\ jfolder[j] \in FolderNames
        /\ folder' \in {folder, [folder EXCEPT ![jfolder[j]].files = @ \cup {Files[jnext[j]]}]}
    BY <1>4, InHand DEF WriteFile, FolderStages
  <2>2. QED
    BY <1>1, <2>1 DEF Grown, Folder
<1>5. ASSUME NEW j \in Jobs, WriteMarker(j) PROVE Grown
  <2>1. /\ UNCHANGED told /\ jfolder[j] \in FolderNames /\ jpc[j] = "mark"
        /\ folder' \in {folder, [folder EXCEPT ![jfolder[j]].marker = TRUE]}
    BY <1>5, InHand DEF WriteMarker, FolderStages
  <2>2. QED
    BY <1>1, <2>1 DEF Grown, Folder
<1>6. ASSUME NEW j \in Jobs, Send(j) PROVE Grown
  <2>1. UNCHANGED folder /\ jfolder[j][1] \in Transcripts
    BY <1>6, InHand DEF Send, FolderStages
  <2>2. PICK p : told' \in {told, [told EXCEPT ![jfolder[j][1]] = @ \cup {p}]}
    BY <1>6 DEF Send
  <2>3. QED
    BY <1>1, <2>1, <2>2 DEF Grown
<1>7. QED
  BY <1>2, <1>3, <1>4, <1>5, <1>6
     DEF FirefliesNext, Serve, firefliesVars, Transcribe, Rename, DeleteTranscript,
         WorkspaceChanges, Calm, ServerStops, Receive, StartBackfill, Begin, GetTranscript,
         StatMarker, MatchAttendees, SendDone, ListPage, NextRef, Report

\* What is on the disk stays there.
LEMMA DownloadsStay ==
  ASSUME Grown
  PROVE  /\ \A t : Downloaded(t) /\ t \in Transcripts => Downloaded(t)'
         /\ \A f \in FolderNames : TypeInv /\ TypeInv' /\ Complete(f) => Complete(f)'
<1>1. ASSUME NEW t \in Transcripts, Downloaded(t) PROVE Downloaded(t)'
  BY <1>1 DEF Grown, Downloaded, FolderNames
<1>2. ASSUME NEW f \in FolderNames, TypeInv, TypeInv', Complete(f) PROVE Complete(f)'
  <2>1. folder'[f].files \subseteq FileNames
    BY <1>2 DEF TypeInv, FirefliesTypeOK, Folder
  <2>2. QED
    BY <1>2, <2>1 DEF Grown, Complete
<1>3. QED
  BY <1>1, <1>2

\* A step of one job is of no concern to another.
Spared(i) ==
  /\ jpc'[i] = jpc[i] /\ jid'[i] = jid[i] /\ jfolder'[i] = jfolder[i]
  /\ jnext'[i] = jnext[i] /\ jsent'[i] = jsent[i]
  /\ jskip'[i] = jskip[i] /\ jrefs'[i] = jrefs[i] /\ jhave'[i] = jhave[i]
  /\ jowed'[i] = jowed[i] /\ jclean'[i] = jclean[i]

LEMMA OthersSpared ==
  ASSUME TypeInv, NEW j \in Jobs, Receive(j) \/ StartBackfill(j) \/ Serve(j),
         NEW i \in Jobs, i # j
  PROVE  Spared(i) /\ UNCHANGED listing
<1> USE Parts DEF JobTypes, LoopTypes, Spared, workspace
<1>1. CASE Receive(j)
  BY <1>1 DEF Receive, Begin, JobAt, loop
<1>2. CASE StartBackfill(j)
  BY <1>2 DEF StartBackfill, Begin, JobAt
<1>3. ASSUME Leave(j, TRUE) \/ Leave(j, FALSE)
      PROVE  /\ jpc'[i] = jpc[i] /\ jid'[i] = jid[i] /\ jfolder'[i] = jfolder[i]
             /\ jnext'[i] = jnext[i] /\ jsent'[i] = jsent[i]
             /\ jhave'[i] = jhave[i] /\ jclean'[i] = jclean[i]
  BY <1>3 DEF Leave, JobAt
<1>4. ASSUME NEW stage, Proceed(j, stage)
      PROVE  /\ jpc'[i] = jpc[i] /\ jid'[i] = jid[i] /\ jfolder'[i] = jfolder[i]
             /\ jnext'[i] = jnext[i] /\ jsent'[i] = jsent[i]
             /\ jhave'[i] = jhave[i] /\ jclean'[i] = jclean[i]
  BY <1>4 DEF Proceed, JobAt, mailing
<1>5. CASE GetTranscript(j)
  BY <1>3, <1>5 DEF GetTranscript, JobAt, mailing
<1>6. CASE MakeFolder(j)
  BY <1>3, <1>4, <1>6 DEF MakeFolder
<1>7. CASE WriteFile(j)
  BY <1>3, <1>4, <1>7 DEF WriteFile
<1>8. CASE StatMarker(j)
  BY <1>3, <1>4, <1>8 DEF StatMarker
<1>9. CASE MatchAttendees(j)
  BY <1>3, <1>9 DEF MatchAttendees, JobAt
<1>10. CASE Send(j)
  BY <1>10 DEF Send, loop
<1>11. CASE SendDone(j)
  BY <1>3, <1>4, <1>11 DEF SendDone
<1>12. CASE WriteMarker(j)
  BY <1>3, <1>12 DEF WriteMarker
<1>13. CASE ListPage(j)
  BY <1>13 DEF ListPage, JobAt
<1>14. CASE NextRef(j)
  BY <1>14 DEF NextRef, JobAt
<1>15. CASE Report(j)
  BY <1>15 DEF Report, JobAt
<1>16. QED
  BY <1>1, <1>2, <1>5, <1>6, <1>7, <1>8, <1>9, <1>10, <1>11, <1>12, <1>13, <1>14, <1>15 DEF Serve

\* So it keeps its invariants.
LEMMA SparedKeeps ==
  ASSUME TypeInv, TypeInv', Grown, NEW i \in Jobs, Spared(i)
  PROVE  /\ FolderOK(i) => FolderOK(i)'
         /\ i \in Backfills /\ UNCHANGED listing /\ BackfillOK(i) => BackfillOK(i)'
<1>1. ASSUME FolderOK(i) PROVE FolderOK(i)'
  <2>1. jpc[i] \in FolderStages =>
          jfolder[i] \in FolderNames /\ jid[i] \in Transcripts
    BY InHand
  <2>2. QED
    BY <1>1, <2>1, DownloadsStay DEF FolderOK, Spared, Grown, Notifying, FolderStages
<1>2. ASSUME i \in Backfills, UNCHANGED listing, BackfillOK(i) PROVE BackfillOK(i)'
  <2>1. jhave[i] \subseteq Transcripts /\ jowed[i] \subseteq Transcripts
    BY Parts DEF LoopTypes
  <2>2. \A t \in Transcripts : Due(i, t) => Due(i, t)'
    BY <1>2, DownloadsStay DEF Due, Ahead, Spared
  <2>3. QED
    BY <1>2, <2>1, <2>2, DownloadsStay DEF BackfillOK, Spared
<1>3. QED
  BY <1>1, <1>2

-----------------------------------------------------------------------------
(* The folders.                                                             *)

\* Where a job is after it has left its transcript.
LEMMA LeaveFacts ==
  ASSUME TypeInv, NEW j \in Jobs, NEW failed \in BOOLEAN, Leave(j, failed)
  PROVE  /\ jpc'[j] = IF j \in Backfills THEN "refs" ELSE "idle"
         /\ jnext'[j] = 1 /\ jsent'[j] = FALSE
         /\ jhave'[j] = IF j \in Backfills /\ ~failed THEN jhave[j] \cup {jid[j]} ELSE jhave[j]
         /\ jclean'[j] => jclean[j] /\ ~failed
<1> USE Parts DEF JobTypes, LoopTypes
<1>1. jclean'[j] => jclean[j] /\ ~failed
  <2>1. jclean'[j] = (jclean[j] /\ ~failed)
    BY DEF Leave
  <2>2. QED
    BY <2>1
<1>2. QED
  BY <1>1 DEF Leave, JobAt

LEMMA LeaveFolderOK ==
  ASSUME TypeInv, NEW j \in Jobs, Leave(j, TRUE) \/ Leave(j, FALSE)
  PROVE  FolderOK(j)'
<1>1. jpc'[j] \in {"refs", "idle"} /\ jnext'[j] = 1 /\ jsent'[j] = FALSE
  BY LeaveFacts
<1>2. QED
  BY <1>1 DEF FolderOK, Notifying

\* The job that makes the step keeps what it says of its folder.
LEMMA ActorFolderOK ==
  ASSUME TypeInv, TypeInv', Grown, NEW j \in Jobs, FolderOK(j),
         Receive(j) \/ StartBackfill(j) \/ Serve(j)
  PROVE  FolderOK(j)'
<1> USE Parts DEF JobTypes, LoopTypes
<1>1. CASE Receive(j)
  BY <1>1 DEF Receive, Begin, JobAt, FolderOK, Notifying
<1>2. CASE StartBackfill(j)
  BY <1>2 DEF StartBackfill, Begin, JobAt, FolderOK, Notifying
<1>3. CASE Leave(j, TRUE) \/ Leave(j, FALSE)
  BY <1>3, LeaveFolderOK
<1>4. ASSUME jpc[j] \in FolderStages, NEW stage, Proceed(j, stage)
      PROVE  /\ jpc'[j] = stage /\ UNCHANGED <<jid, jfolder, jnext, jsent>>
             /\ jfolder[j] \in FolderNames
  BY <1>4, InHand DEF Proceed, JobAt, mailing
<1>5. CASE GetTranscript(j) /\ ~Leave(j, TRUE)
  BY <1>5 DEF GetTranscript, JobAt, mailing, FolderOK, Notifying
<1>6. CASE MakeFolder(j) /\ ~Leave(j, TRUE)
  <2>1. /\ jpc[j] = "mkdir" /\ Proceed(j, "write")
        /\ folder' = [folder EXCEPT ![jfolder[j]].dir = TRUE]
    BY <1>6 DEF MakeFolder
  <2>2. jpc'[j] = "write" /\ UNCHANGED <<jfolder, jnext, jsent>> /\ jfolder[j] \in FolderNames
    BY <1>4, <2>1 DEF FolderStages
  <2>3. jnext[j] = 1 /\ ~jsent[j]
    BY <2>1 DEF FolderOK, Notifying
  <2>4. folder'[jfolder[j]].dir
    BY <2>1, <2>2 DEF TypeInv, FirefliesTypeOK, Folder
  <2>5. QED
    BY <2>2, <2>3, <2>4 DEF FolderOK, Notifying, Files
<1>7. CASE WriteFile(j) /\ ~Leave(j, TRUE) /\ ~Leave(j, FALSE)
  <2>1. /\ jpc[j] = "write" /\ jfolder[j] \in FolderNames
        /\ folder' = [folder EXCEPT ![jfolder[j]].files = @ \cup {Files[jnext[j]]}]
    BY <1>7, InHand DEF WriteFile, FolderStages
  <2>2. /\ jnext[j] \in 1..Len(Files) /\ ~jsent[j]
        /\ \A i \in 1..Len(Files) : i < jnext[j] => Files[i] \in folder[jfolder[j]].files
    BY <2>1 DEF FolderOK, Notifying
  <2>3. folder'[jfolder[j]].files = folder[jfolder[j]].files \cup {Files[jnext[j]]}
    BY <2>1 DEF TypeInv, FirefliesTypeOK, Folder
  <2>4. folder'[jfolder[j]].dir
    BY <2>1 DEF FolderOK, Grown
  <2>5. \A i \in 1..Len(Files) : i <= jnext[j] => Files[i] \in folder'[jfolder[j]].files
    <3> SUFFICES ASSUME NEW i \in 1..Len(Files), i <= jnext[j]
                 PROVE  Files[i] \in folder'[jfolder[j]].files
      OBVIOUS
    <3>1. i \in Nat /\ jnext[j] \in Nat
      BY <2>2 DEF Files
    <3>2. i < jnext[j] \/ i = jnext[j]
      BY <3>1
    <3>3. QED
      BY <2>2, <2>3, <3>2
  <2>6. CASE jnext[j] < Len(Files)
    <3>1. jnext' = [jnext EXCEPT ![j] = @ + 1] /\ UNCHANGED <<jpc, jid, jfolder, jsent>>
      BY <1>7, <2>6 DEF WriteFile
    <3>2. jnext'[j] = jnext[j] + 1
      BY <3>1
    <3>3. \A i \in 1..Len(Files) : i < jnext'[j] => Files[i] \in folder'[jfolder[j]].files
      BY <2>2, <2>5, <3>2 DEF Files
    <3>4. QED
      BY <2>1, <2>2, <2>4, <3>1, <3>3 DEF FolderOK, Notifying
  <2>7. CASE ~(jnext[j] < Len(Files))
    <3>1. jpc'[j] = "stat" /\ UNCHANGED <<jfolder, jsent>>
      BY <1>4, <1>7, <2>1, <2>7 DEF WriteFile, FolderStages
    <3>2. \A i \in 1..Len(Files) : Files[i] \in folder'[jfolder[j]].files
      <4>1. \A i \in 1..Len(Files) : i <= jnext[j]
        BY <2>2, <2>7 DEF Files
      <4>2. QED
        BY <2>5, <4>1
    <3>3. FileNames \subseteq folder'[jfolder[j]].files
      <4>1. FileNames = {Files[1], Files[2], Files[3]} /\ Len(Files) = 3
        BY DEF Files, FileNames
      <4>2. QED
        BY <3>2, <4>1
    <3>4. folder'[jfolder[j]].files \subseteq FileNames
      BY <2>1 DEF TypeInv, FirefliesTypeOK, Folder
    <3>5. QED
      BY <2>2, <2>4, <3>1, <3>3, <3>4 DEF FolderOK, Notifying, Complete
  <2>8. QED
    BY <2>6, <2>7
<1>8. CASE StatMarker(j) /\ ~Leave(j, FALSE)
  <2>1. jpc[j] = "stat" /\ Proceed(j, "match") /\ UNCHANGED <<folder, told>>
    BY <1>8 DEF StatMarker
  <2>2. QED
    BY <1>4, <2>1 DEF FolderStages, FolderOK, Notifying, Complete
<1>9. CASE MatchAttendees(j) /\ ~Leave(j, FALSE)
  <2>1. /\ jpc[j] = "match" /\ jpc' = [jpc EXCEPT ![j] = "send"]
        /\ UNCHANGED <<folder, told, jid, jfolder, jnext, jsent>>
    BY <1>9 DEF MatchAttendees, JobAt
  <2>2. jpc'[j] = "send"
    BY <2>1
  <2>3. QED
    BY <2>1, <2>2 DEF FolderOK, Notifying, Complete
<1>10. CASE Send(j)
  <2>1. jpc[j] = "send" /\ UNCHANGED <<folder, jpc, jid, jfolder, jnext>>
    BY <1>10 DEF Send
  <2>2. jfolder[j][1] = jid[j] /\ jid[j] \in Transcripts
    BY <2>1, InHand DEF FolderStages
  <2>3. PICK p \in jtodo[j] :
          \/ /\ told' = [told EXCEPT ![jfolder[j][1]] = @ \cup {p}]
             /\ jsent' = [jsent EXCEPT ![j] = TRUE]
          \/ UNCHANGED jsent
    BY <1>10 DEF Send
  <2>4. jsent'[j] => told'[jid[j]] # {}
    <3>1. CASE told' = [told EXCEPT ![jfolder[j][1]] = @ \cup {p}]
      BY <2>2, <3>1 DEF TypeInv, FirefliesTypeOK
    <3>2. CASE UNCHANGED jsent
      BY <2>2, <3>2 DEF FolderOK, Grown
    <3>3. QED
      BY <2>3, <3>1, <3>2
  <2>5. QED
    BY <2>1, <2>4 DEF FolderOK, Notifying, Complete
<1>11. CASE SendDone(j) /\ ~Leave(j, FALSE)
  <2>1. jpc[j] = "send" /\ Proceed(j, "mark") /\ UNCHANGED <<folder, told>> /\ jsent[j]
    BY <1>11 DEF SendDone
  <2>2. jpc'[j] = "mark" /\ UNCHANGED <<jid, jfolder, jnext, jsent>>
    BY <1>4, <2>1 DEF FolderStages
  <2>3. /\ folder[jfolder[j]].dir /\ Complete(jfolder[j]) /\ told[jid[j]] # {}
    BY <2>1 DEF FolderOK, Notifying
  <2>4. Complete(jfolder[j])'
    BY <2>1, <2>2, <2>3 DEF Complete
  <2>5. QED
    BY <2>1, <2>2, <2>3, <2>4 DEF FolderOK, Notifying
<1>12. CASE ListPage(j)
  <2>1. jpc[j] = "list" /\ jpc'[j] \in {"refs", "report"} /\ UNCHANGED <<jnext, jsent>>
    BY <1>12 DEF ListPage, JobAt
  <2>2. QED
    BY <2>1 DEF FolderOK, Notifying
<1>13. CASE NextRef(j)
  <2>1. jpc[j] = "refs" /\ jpc'[j] \in {"refs", "list", "fetch"} /\ UNCHANGED <<jnext, jsent>>
    BY <1>13 DEF NextRef, JobAt
  <2>2. QED
    BY <2>1 DEF FolderOK, Notifying
<1>14. CASE Report(j)
  <2>1. jpc[j] = "report" /\ jpc'[j] = "idle" /\ UNCHANGED <<jnext, jsent>>
    BY <1>14 DEF Report, JobAt
  <2>2. QED
    BY <2>1 DEF FolderOK, Notifying
<1>15. QED
  BY <1>1, <1>2, <1>3, <1>5, <1>6, <1>7, <1>8, <1>9, <1>10, <1>11, <1>12, <1>13, <1>14
     DEF Serve, WriteMarker

\* So does every step, of every folder.
LEMMA FolderStep ==
  ASSUME TypeInv, TypeInv', [FirefliesNext]_firefliesVars, FolderInv
  PROVE  FolderInv'
<1>1. Grown
  BY Growth
<1>2. ASSUME UNCHANGED <<folder, told, jpc, jid, jfolder, jnext, jsent>> PROVE FolderInv'
  BY <1>2 DEF FolderInv, FolderOK, Complete, MarkerTruthful
<1>3. CASE ServerStops
  <2>1. \A j \in Jobs : FolderOK(j)'
    BY <1>3 DEF ServerStops, FolderOK, Notifying
  <2>2. MarkerTruthful'
    BY <1>3 DEF ServerStops, FolderInv, MarkerTruthful, Complete
  <2>3. QED
    BY <2>1, <2>2 DEF FolderInv
<1>4. ASSUME NEW j \in Jobs, Receive(j) \/ StartBackfill(j) \/ Serve(j) PROVE FolderInv'
  <2>1. \A i \in Jobs : FolderOK(i)'
    BY <1>1, <1>4, ActorFolderOK, OthersSpared, SparedKeeps DEF FolderInv
  <2>2. ASSUME NEW f \in FolderNames, folder'[f].marker
        PROVE  Complete(f)' /\ told'[f[1]] # {}
    <3>1. Complete(f) /\ told[f[1]] # {}
      <4>1. CASE folder[f].marker
        BY <4>1 DEF FolderInv, MarkerTruthful
      <4>2. CASE ~folder[f].marker
        <5>1. PICK i \in Jobs : jpc[i] = "mark" /\ jfolder[i] = f
          BY <1>1, <2>2, <4>2 DEF Grown
        <5>2. FolderOK(i) /\ jfolder[i][1] = jid[i]
          BY <5>1, InHand DEF FolderInv, FolderStages
        <5>3. QED
          BY <5>1, <5>2 DEF FolderOK, Notifying
      <4>3. QED
        BY <4>1, <4>2
    <3>2. f[1] \in Transcripts
      BY DEF FolderNames
    <3>3. QED
      BY <1>1, <3>1, <3>2, DownloadsStay DEF Grown
  <2>3. QED
    BY <2>1, <2>2 DEF FolderInv, MarkerTruthful
<1>5. QED
  BY <1>2, <1>3, <1>4
     DEF FirefliesNext, firefliesVars, Transcribe, Rename, DeleteTranscript, WorkspaceChanges,
         Calm

-----------------------------------------------------------------------------
(* The back-fill.                                                           *)

\* The transcript a job leaves without a failure is on the disk.
LEMMA LeaveDownloaded ==
  ASSUME TypeInv, NEW j \in Jobs, FolderOK(j), jpc[j] \in {"write"} \cup Notifying
  PROVE  Downloaded(jid[j])
<1>1. /\ jfolder[j] \in FolderNames /\ jfolder[j][1] = jid[j]
      /\ folder[jfolder[j]].dir
  BY InHand DEF FolderOK, Notifying, FolderStages
<1>2. PICK n \in Titles : jfolder[j] = <<jid[j], n>>
  BY <1>1 DEF FolderNames
<1>3. QED
  BY <1>1, <1>2 DEF Downloaded

\* A back-fill that leaves its transcript still has the others to come.
LEMMA LeaveBackfillOK ==
  ASSUME TypeInv, TypeInv', Grown, NEW j \in Backfills, BackfillOK(j), FolderOK(j),
         UNCHANGED <<listing, jskip, jrefs, jowed>>, jpc[j] \in Working,
         \/ Leave(j, TRUE)
         \/ Leave(j, FALSE) /\ jpc[j] \in {"write"} \cup Notifying
  PROVE  BackfillOK(j)'
<1> j \in Jobs
  BY DEF Jobs
<1>1. jhave[j] \subseteq Transcripts /\ jowed[j] \subseteq Transcripts /\ jid[j] \in Transcripts
  BY Parts DEF LoopTypes, TypeInv, JobOK
<1>2. jpc'[j] = "refs"
  BY LeaveFacts
<1>3. ASSUME NEW t \in jhave'[j] PROVE Downloaded(t)'
  <2>1. CASE t \in jhave[j]
    BY <1>1, <2>1, DownloadsStay DEF BackfillOK
  <2>2. CASE t \notin jhave[j]
    <3>1. t = jid[j] /\ jpc[j] \in {"write"} \cup Notifying
      BY <1>3, <2>2, LeaveFacts
    <3>2. QED
      BY <1>1, <3>1, LeaveDownloaded, DownloadsStay
  <2>3. QED
    BY <2>1, <2>2
<1>4. ASSUME jclean'[j], NEW t \in jowed'[j] PROVE Due(j, t)'
  <2>1. jclean[j] /\ jpc[j] \in {"write"} \cup Notifying
    BY <1>4, LeaveFacts
  <2>2. t \in Transcripts /\ Due(j, t)
    BY <1>1, <1>4, <2>1 DEF BackfillOK
  <2>3. CASE Downloaded(t) \/ t = jid[j]
    BY <2>1, <2>2, <2>3, LeaveDownloaded, DownloadsStay DEF Due
  <2>4. CASE t \in SeqRange(jrefs[j]) \/ Ahead(j, t)
    BY <2>4 DEF Due, Ahead, SeqRange
  <2>5. QED
    BY <2>2, <2>3, <2>4 DEF Due
<1>5. QED
  BY <1>2, <1>3, <1>4 DEF BackfillOK

\* One that goes on with its transcript owes what it owed.
LEMMA GoOnBackfillOK ==
  ASSUME TypeInv, Grown, NEW j \in Backfills, BackfillOK(j),
         UNCHANGED <<listing, jid, jhave, jclean, jskip, jrefs, jowed>>,
         jpc[j] \in Working, jpc'[j] \in Working
  PROVE  BackfillOK(j)'
<1>1. jhave[j] \subseteq Transcripts /\ jowed[j] \subseteq Transcripts
  BY Parts DEF LoopTypes, Jobs
<1>2. \A t \in Transcripts : Due(j, t) => Due(j, t)'
  BY DownloadsStay DEF Due, Ahead
<1>3. QED
  BY <1>1, <1>2, DownloadsStay DEF BackfillOK, Working, FolderStages

\* Reading a page: what was ahead is in it or still ahead, and nothing is ahead of
\* a page that is short, however far new transcripts have moved the rest.
LEMMA ListBackfillOK ==
  ASSUME TypeInv, Grown, NEW j \in Backfills, BackfillOK(j), ListPage(j)
  PROVE  BackfillOK(j)'
<1> USE FirefliesAssumption
<1> j \in Jobs
  BY DEF Jobs
<1>1. /\ jpc[j] = "list" /\ jrefs[j] = <<>>
      /\ UNCHANGED <<listing, folder, jid, jhave, jowed>>
  BY DEF ListPage, workspace, BackfillOK
<1>2. /\ jskip[j] \in Nat /\ jhave[j] \subseteq Transcripts /\ jowed[j] \subseteq Transcripts
      /\ listing \in Seq(Transcripts) /\ Len(listing) \in Nat
      /\ DOMAIN listing = 1..Len(listing)
  BY Parts, LenProperties DEF LoopTypes, TypeInv, FirefliesTypeOK
<1>3. \A t \in jhave[j] : Downloaded(t)'
  BY <1>1 DEF BackfillOK, Downloaded
<1>4. CASE /\ jskip[j] < MaxSkip /\ jpc' = [jpc EXCEPT ![j] = "refs"]
           /\ jrefs' = [jrefs EXCEPT ![j] = Page(jskip[j])]
           /\ jskip' = [jskip EXCEPT ![j] =
                IF Len(Page(jskip[j])) < PageSize THEN MaxSkip ELSE @ + PageSize]
           /\ UNCHANGED jclean
  <2> DEFINE page == Page(jskip[j])
  <2>1. /\ page \in Seq(Transcripts)
        /\ Len(page) = IF jskip[j] + PageSize < Len(listing) THEN PageSize
                       ELSE IF jskip[j] < Len(listing) THEN Len(listing) - jskip[j] ELSE 0
        /\ \A i \in 1..Len(page) : page[i] = listing[jskip[j] + i]
    BY <1>2, PageOfListing DEF TypeInv
  <2> HIDE DEF page
  <2>2. DOMAIN page = 1..Len(page) /\ Len(page) \in Nat
    BY <2>1, LenProperties
  <2>3. /\ jpc'[j] = "refs" /\ jrefs'[j] = page
        /\ jskip'[j] = IF Len(page) < PageSize THEN MaxSkip ELSE jskip[j] + PageSize
    BY <1>4, Parts DEF JobTypes, LoopTypes, page
  <2>4. ASSUME NEW t \in Transcripts, Ahead(j, t) PROVE Due(j, t)'
    <3>1. PICK i \in 1..Len(listing) : i > jskip[j] /\ listing[i] = t
      BY <1>2, <2>4 DEF Ahead
    <3>2. CASE i - jskip[j] \in 1..Len(page)
      <4>1. page[i - jskip[j]] = listing[jskip[j] + (i - jskip[j])]
        BY <2>1, <3>2
      <4>2. jskip[j] + (i - jskip[j]) = i
        BY <1>2, <3>1
      <4>3. t \in SeqRange(jrefs'[j])
        BY <2>2, <2>3, <3>1, <3>2, <4>1, <4>2 DEF SeqRange
      <4>4. QED
        BY <4>3 DEF Due
    <3>3. CASE i - jskip[j] \notin 1..Len(page)
      <4>1. Len(page) = PageSize /\ i > jskip[j] + PageSize
        BY <1>2, <2>1, <3>1, <3>3
      <4>2. jskip'[j] = jskip[j] + PageSize
        BY <2>3, <4>1
      <4>3. QED
        BY <1>1, <1>2, <3>1, <4>1, <4>2 DEF Due, Ahead
    <3>4. QED
      BY <3>2, <3>3
  <2>5. ASSUME NEW t \in Transcripts, Due(j, t) PROVE Due(j, t)'
    <3>1. Downloaded(t) \/ Ahead(j, t)
      BY <1>1, <2>5 DEF Due, SeqRange, Working, FolderStages
    <3>2. QED
      BY <2>4, <3>1, DownloadsStay DEF Due
  <2>6. QED
    BY <1>1, <1>2, <1>3, <1>4, <2>3, <2>5 DEF BackfillOK
<1>5. CASE /\ jpc' = [jpc EXCEPT ![j] = "report"] /\ UNCHANGED <<jskip, jrefs>>
           /\ jclean' = [jclean EXCEPT ![j] = FALSE]
  <2>1. jclean'[j] = FALSE /\ jpc'[j] = "report"
    BY <1>5, Parts DEF JobTypes, LoopTypes
  <2>2. QED
    BY <1>1, <1>3, <1>5, <2>1 DEF BackfillOK
<1>6. CASE /\ jskip[j] >= MaxSkip /\ jpc' = [jpc EXCEPT ![j] = "report"]
           /\ UNCHANGED <<jskip, jrefs, jclean>>
  <2>1. jpc'[j] = "report"
    BY <1>6, Parts DEF JobTypes
  <2>2. \A t \in Transcripts : Due(j, t) => Due(j, t)'
    BY <1>1, <1>6, DownloadsStay DEF Due, Ahead, Working, FolderStages
  <2>3. QED
    BY <1>1, <1>2, <1>3, <1>6, <2>1, <2>2 DEF BackfillOK
<1>7. QED
  BY <1>4, <1>5, <1>6 DEF ListPage, JobAt

\* Taking the next transcript of the page: it is there already, or in hand now.
LEMMA NextBackfillOK ==
  ASSUME TypeInv, Grown, NEW j \in Backfills, BackfillOK(j), NextRef(j)
  PROVE  BackfillOK(j)'
<1> j \in Jobs
  BY DEF Jobs
<1>1. /\ jpc[j] = "refs" /\ UNCHANGED <<listing, folder, jskip, jhave, jowed, jclean>>
  BY DEF NextRef, workspace
<1>2. /\ jhave[j] \subseteq Transcripts /\ jowed[j] \subseteq Transcripts
      /\ jrefs[j] \in Seq(Transcripts)
  BY Parts DEF LoopTypes
<1>3. \A t \in jhave[j] : Downloaded(t) /\ Downloaded(t)'
  BY <1>1 DEF BackfillOK, Downloaded
<1>4. CASE jrefs[j] = <<>>
  <2>1. jpc'[j] = "list" /\ UNCHANGED <<jrefs, jid>>
    BY <1>4, Parts DEF NextRef, JobAt, JobTypes
  <2>2. \A t \in Transcripts : Due(j, t) => Due(j, t)'
    BY <1>1, <2>1, DownloadsStay DEF Due, Ahead, Working, FolderStages
  <2>3. QED
    BY <1>1, <1>2, <1>3, <1>4, <2>1, <2>2 DEF BackfillOK
<1>5. CASE jrefs[j] # <<>>
  <2>1. /\ Tail(jrefs[j]) \in Seq(Transcripts)
        /\ \A t \in SeqRange(jrefs[j]) : t = Head(jrefs[j]) \/ t \in SeqRange(Tail(jrefs[j]))
    <3>1. /\ Tail(jrefs[j]) \in Seq(Transcripts) /\ Len(Tail(jrefs[j])) = Len(jrefs[j]) - 1
          /\ \A i \in 1..Len(Tail(jrefs[j])) : Tail(jrefs[j])[i] = jrefs[j][i + 1]
          /\ Head(jrefs[j]) = jrefs[j][1]
      BY <1>2, <1>5, HeadTailProperties
    <3>2. /\ Len(jrefs[j]) \in Nat /\ DOMAIN jrefs[j] = 1..Len(jrefs[j])
          /\ DOMAIN Tail(jrefs[j]) = 1..Len(Tail(jrefs[j]))
      BY <1>2, <3>1, LenProperties
    <3>3. ASSUME NEW i \in 1..Len(jrefs[j]), i # 1
          PROVE  jrefs[j][i] \in SeqRange(Tail(jrefs[j]))
      <4>1. i - 1 \in 1..Len(Tail(jrefs[j])) /\ (i - 1) + 1 = i
        BY <3>1, <3>2, <3>3
      <4>2. Tail(jrefs[j])[i - 1] = jrefs[j][i]
        BY <3>1, <4>1
      <4>3. QED
        BY <3>2, <4>1, <4>2 DEF SeqRange
    <3>4. QED
      BY <3>1, <3>2, <3>3 DEF SeqRange
  <2>2. jrefs'[j] = Tail(jrefs[j])
    BY <1>5, Parts DEF NextRef, LoopTypes
  <2>3. \/ Head(jrefs[j]) \in jhave[j] /\ jpc'[j] = "refs"
        \/ jpc'[j] = "fetch" /\ jid'[j] = Head(jrefs[j])
    BY <1>1, <1>5, Parts DEF NextRef, JobAt, JobTypes
  <2>4. ASSUME NEW t \in Transcripts, Due(j, t) PROVE Due(j, t)'
    <3>1. CASE Downloaded(t)
      BY <3>1, DownloadsStay DEF Due
    <3>2. CASE t \in SeqRange(jrefs[j])
      BY <1>3, <2>1, <2>2, <2>3, <3>2 DEF Due, Working
    <3>3. CASE Ahead(j, t)
      BY <1>1, <3>3 DEF Due, Ahead
    <3>4. QED
      BY <1>1, <2>4, <3>1, <3>2, <3>3 DEF Due, Working, FolderStages
  <2>5. QED
    BY <1>1, <1>2, <1>3, <2>3, <2>4 DEF BackfillOK
<1>6. QED
  BY <1>4, <1>5

\* The back-fill that makes a step keeps its account.
LEMMA ActorBackfillOK ==
  ASSUME TypeInv, TypeInv', Grown, NEW j \in Backfills, BackfillOK(j), FolderOK(j),
         Receive(j) \/ StartBackfill(j) \/ Serve(j)
  PROVE  BackfillOK(j)'
<1> j \in Jobs
  BY DEF Jobs
<1> USE Parts DEF JobTypes, LoopTypes
<1>1. CASE Receive(j)
  <2>1. /\ jpc[j] = "idle" /\ jpc'[j] = "fetch"
        /\ UNCHANGED <<folder, jhave, jrefs, jclean, jowed>>
    BY <1>1 DEF Receive, Begin, JobAt, loop
  <2>2. QED
    BY <2>1 DEF BackfillOK, Downloaded
<1>2. CASE StartBackfill(j)
  <2>1. /\ jpc[j] = "idle" /\ jpc'[j] = "list" /\ UNCHANGED <<listing, folder, jrefs>>
        /\ jhave'[j] = {t \in Transcripts : Downloaded(t)}
        /\ jskip'[j] = 0 /\ jowed'[j] = SeqRange(listing)
    BY <1>2 DEF StartBackfill, Begin, JobAt, workspace
  <2>2. \A t \in jhave'[j] : Downloaded(t)'
    BY <2>1 DEF Downloaded
  <2>3. ASSUME NEW t \in jowed'[j] PROVE Due(j, t)'
    <3>1. PICK i \in DOMAIN listing : t = listing[i]
      BY <2>1, <2>3 DEF SeqRange
    <3>2. i \in Nat /\ i > 0
      <4>1. listing \in Seq(Transcripts)
        BY DEF TypeInv, FirefliesTypeOK
      <4>2. DOMAIN listing = 1..Len(listing) /\ Len(listing) \in Nat
        BY <4>1, LenProperties
      <4>3. QED
        BY <3>1, <4>2
    <3>3. QED
      BY <2>1, <3>1, <3>2 DEF Due, Ahead
  <2>4. QED
    BY <2>1, <2>2, <2>3 DEF BackfillOK
<1>3. CASE /\ jpc[j] \in Working
           /\ \/ Leave(j, TRUE)
              \/ Leave(j, FALSE) /\ jpc[j] \in {"write"} \cup Notifying
           /\ UNCHANGED <<listing, jskip, jrefs, jowed>>
  BY <1>3, LeaveBackfillOK
<1>4. CASE /\ jpc[j] \in Working /\ jpc'[j] \in Working
           /\ UNCHANGED <<listing, jid, jhave, jclean, jskip, jrefs, jowed>>
  BY <1>4, GoOnBackfillOK
<1>5. CASE GetTranscript(j)
  BY <1>3, <1>4, <1>5 DEF GetTranscript, JobAt, workspace, Working, FolderStages
<1>6. ASSUME NEW stage \in FolderStages, Proceed(j, stage)
      PROVE  jpc'[j] \in Working /\ UNCHANGED <<jid, jhave, jclean>>
  BY <1>6 DEF Proceed, JobAt, Working
<1>7. CASE MakeFolder(j)
  BY <1>3, <1>4, <1>6, <1>7 DEF MakeFolder, workspace, Working, FolderStages
<1>8. CASE WriteFile(j)
  <2>1. /\ jpc[j] = "write" /\ UNCHANGED <<listing, jskip, jrefs, jowed>>
        /\ \/ Leave(j, TRUE) \/ Leave(j, FALSE) \/ Proceed(j, "stat")
           \/ UNCHANGED <<jpc, jid, jhave, jclean>>
    BY <1>8 DEF WriteFile, workspace
  <2>2. QED
    BY <1>3, <1>4, <1>6, <2>1 DEF Working, FolderStages
<1>9. CASE StatMarker(j)
  BY <1>3, <1>4, <1>6, <1>9 DEF StatMarker, workspace, Working, FolderStages, Notifying
<1>10. CASE MatchAttendees(j)
  BY <1>3, <1>4, <1>10 DEF MatchAttendees, JobAt, workspace, Working, FolderStages, Notifying
<1>11. CASE Send(j)
  BY <1>4, <1>11 DEF Send, loop, workspace, Working, FolderStages
<1>12. CASE SendDone(j)
  BY <1>3, <1>4, <1>6, <1>12 DEF SendDone, workspace, Working, FolderStages, Notifying
<1>13. CASE WriteMarker(j)
  BY <1>3, <1>13 DEF WriteMarker, workspace, Working, FolderStages, Notifying
<1>14. CASE ListPage(j)
  BY <1>14, ListBackfillOK
<1>15. CASE NextRef(j)
  BY <1>15, NextBackfillOK
<1>16. CASE Report(j)
  <2>1. jpc'[j] = "idle" /\ jrefs'[j] = <<>> /\ jhave'[j] = {} /\ jclean'[j] = FALSE
    BY <1>16 DEF Report, JobAt
  <2>2. QED
    BY <2>1 DEF BackfillOK
<1>17. QED
  BY <1>1, <1>2, <1>5, <1>7, <1>8, <1>9, <1>10, <1>11, <1>12, <1>13, <1>14, <1>15, <1>16
     DEF Serve

LEMMA BackfillStep ==
  ASSUME TypeInv, TypeInv', [FirefliesNext]_firefliesVars, FolderInv, BackfillInv
  PROVE  BackfillInv'
<1>1. Grown
  BY Growth
<1>2. Backfills \subseteq Jobs
  BY DEF Jobs
<1>3. ASSUME NEW j \in Jobs, Receive(j) \/ StartBackfill(j) \/ Serve(j) PROVE BackfillInv'
  BY <1>1, <1>2, <1>3, ActorBackfillOK, OthersSpared, SparedKeeps DEF BackfillInv, FolderInv
<1>4. CASE ServerStops
  BY <1>2, <1>4 DEF ServerStops, BackfillInv, BackfillOK
<1>5. ASSUME UNCHANGED <<folder, listing, jpc, jid, jskip, jrefs, jhave, jowed, jclean>>
      PROVE  BackfillInv'
  BY <1>5 DEF BackfillInv, BackfillOK, Due, Ahead, Downloaded
<1>6. ASSUME NEW t \in Transcripts, Transcribe(t) PROVE BackfillInv'
  <2>1. /\ listing' = <<t>> \o listing
        /\ UNCHANGED <<folder, jpc, jid, jskip, jrefs, jhave, jowed, jclean>>
    BY <1>6 DEF Transcribe, WorkspaceChanges
  <2>2. ASSUME NEW j \in Backfills, NEW u, Ahead(j, u) PROVE Ahead(j, u)'
    <3>1. PICK i \in DOMAIN listing : i > jskip[j] /\ listing[i] = u
      BY <2>2 DEF Ahead
    <3>2. /\ listing \in Seq(Transcripts) /\ <<t>> \in Seq(Transcripts) /\ Len(<<t>>) = 1
          /\ jskip[j] \in Nat
      BY <1>2, Parts DEF LoopTypes, TypeInv, FirefliesTypeOK
    <3>3. i \in 1..Len(listing) /\ Len(listing) \in Nat
      BY <3>2, LenProperties
    <3>4. /\ listing' \in Seq(Transcripts) /\ Len(listing') = 1 + Len(listing)
          /\ listing'[i + 1] = listing[i]
      <4>1. /\ <<t>> \o listing \in Seq(Transcripts)
            /\ Len(<<t>> \o listing) = 1 + Len(listing)
            /\ \A k \in 1 .. 1 + Len(listing) :
                 (<<t>> \o listing)[k] = IF k <= 1 THEN <<t>>[k] ELSE listing[k - 1]
        BY <3>2, ConcatProperties
      <4>2. i + 1 \in 1 .. 1 + Len(listing) /\ ~(i + 1 <= 1) /\ (i + 1) - 1 = i
        BY <3>3
      <4>3. QED
        BY <2>1, <4>1, <4>2
    <3>5. i + 1 \in DOMAIN listing' /\ i + 1 > jskip'[j]
      <4>1. DOMAIN listing' = 1..Len(listing')
        BY <3>4, LenProperties
      <4>2. QED
        BY <2>1, <3>1, <3>2, <3>3, <3>4, <4>1
    <3>6. QED
      BY <3>1, <3>4, <3>5 DEF Ahead
  <2>3. \A j \in Backfills, u \in Transcripts : Due(j, u) => Due(j, u)'
    BY <2>1, <2>2 DEF Due, Downloaded
  <2>4. \A j \in Backfills : jowed[j] \subseteq Transcripts
    BY <1>2, Parts DEF LoopTypes
  <2>5. QED
    BY <2>1, <2>3, <2>4 DEF BackfillInv, BackfillOK, Downloaded
<1>7. ASSUME NEW t \in Transcripts, DeleteTranscript(t) PROVE BackfillInv'
  <2>1. /\ jclean' = [j \in Jobs |-> FALSE]
        /\ UNCHANGED <<folder, jpc, jid, jskip, jrefs, jhave, jowed>>
    BY <1>7 DEF DeleteTranscript, WorkspaceChanges
  <2>2. \A j \in Backfills : jclean'[j] = FALSE
    BY <1>2, <2>1
  <2>3. QED
    BY <2>1, <2>2 DEF BackfillInv, BackfillOK, Downloaded
<1>8. QED
  BY <1>3, <1>4, <1>5, <1>6, <1>7
     DEF FirefliesNext, firefliesVars, workspace, loop, Rename, WorkspaceChanges, Calm

-----------------------------------------------------------------------------
(* The theorems.                                                            *)

IInv == TypeInv /\ FolderInv /\ BackfillInv

LEMMA InitIInv == FirefliesInit => IInv
<1> SUFFICES ASSUME FirefliesInit PROVE IInv
  OBVIOUS
<1>1. TypeInv
  BY InitType
<1>2. \A j \in Jobs : FolderOK(j)
  BY DEF FirefliesInit, FolderOK, Notifying
<1>3. MarkerTruthful
  BY DEF FirefliesInit, MarkerTruthful
<1>4. BackfillInv
  BY DEF FirefliesInit, BackfillInv, BackfillOK, Jobs
<1>5. QED
  BY <1>1, <1>2, <1>3, <1>4 DEF IInv, FolderInv

LEMMA Inductive == FirefliesSpec => []IInv
<1>1. IInv /\ [FirefliesNext]_firefliesVars => IInv'
  <2> SUFFICES ASSUME IInv, [FirefliesNext]_firefliesVars PROVE IInv'
    OBVIOUS
  <2>1. TypeInv'
    BY TypeStep DEF IInv
  <2>2. FolderInv' /\ BackfillInv'
    BY <2>1, FolderStep, BackfillStep DEF IInv
  <2>3. QED
    BY <2>1, <2>2 DEF IInv
<1>2. QED
  BY <1>1, InitIInv, PTL DEF FirefliesSpec

\* The marker is never a lie, whatever fails, stops, or is delivered twice: the
\* files of its folder are all there and somebody has been mailed (notifyAttendees).
THEOREM MarkersTruthful == FirefliesSpec => []MarkerTruthful
<1>1. IInv => MarkerTruthful
  BY DEF IInv, FolderInv
<1>2. QED
  BY <1>1, Inductive, PTL

\* A back-fill that met no error misses nothing that was there when it began,
\* however many transcripts shift the pages it reads (syncFireflies).
THEOREM BackfillsComplete == FirefliesSpec => []BackfillMissesNothing
<1>1. IInv => BackfillMissesNothing
  <2> SUFFICES ASSUME IInv, NEW j \in Backfills, jpc[j] = "report", jclean[j],
                      Len(listing) <= MaxSkip, NEW t \in jowed[j]
               PROVE  Downloaded(t)
    BY DEF BackfillMissesNothing
  <2>1. Due(j, t) /\ jrefs[j] = <<>> /\ jskip[j] >= MaxSkip
    BY DEF IInv, BackfillInv, BackfillOK
  <2>2. listing \in Seq(Transcripts) /\ jskip[j] \in Nat
    BY Parts DEF IInv, TypeInv, FirefliesTypeOK, Jobs
  <2>3. ~Ahead(j, t)
    <3>1. DOMAIN listing = 1..Len(listing) /\ Len(listing) \in Nat
      BY <2>2, LenProperties
    <3>2. QED
      BY <2>1, <2>2, <3>1, FirefliesAssumption DEF Ahead
  <2>4. QED
    BY <2>1, <2>3 DEF Due, SeqRange, Working, FolderStages
<1>2. QED
  BY <1>1, Inductive, PTL

\* No job passes the marker again once it is there: the step that would is the one
\* that looks for it.
LEMMA PastMarkerSteps ==
  ASSUME TypeInv, TypeInv', [FirefliesNext]_firefliesVars, NEW f \in FolderNames, folder[f].marker,
         NEW i \in PastMarker(f)'
  PROVE  i \in PastMarker(f)
<1> DEFINE Past(k) == jfolder[k] = f /\ jpc[k] \in {"match", "send", "mark"}
<1>1. i \in Jobs /\ Past(i)'
  BY DEF PastMarker
<1> SUFFICES Past(i)
  BY <1>1 DEF PastMarker
<1>2. ASSUME UNCHANGED <<jpc, jfolder>> PROVE Past(i)
  BY <1>1, <1>2
<1>3. CASE ServerStops
  BY <1>1, <1>3 DEF ServerStops
<1>4. ASSUME NEW j \in Jobs, Receive(j) \/ StartBackfill(j) \/ Serve(j) PROVE Past(i)
  <2> USE Parts DEF JobTypes, LoopTypes
  <2>1. CASE i # j
    BY <1>1, <1>4, <2>1, OthersSpared DEF Spared
  <2>2. CASE i = j
    <3>1. CASE Leave(j, TRUE) \/ Leave(j, FALSE)
      <4>1. jpc'[j] \in {"refs", "idle"}
        BY <3>1, LeaveFacts
      <4>2. QED
        BY <1>1, <2>2, <4>1
    <3>2. CASE Receive(j) \/ StartBackfill(j)
      BY <1>1, <2>2, <3>2 DEF Receive, StartBackfill, Begin, JobAt
    <3>3. CASE (GetTranscript(j) \/ MakeFolder(j)) /\ ~Leave(j, TRUE)
      BY <1>1, <2>2, <3>3 DEF GetTranscript, MakeFolder, Proceed, JobAt
    <3>4. CASE WriteFile(j) /\ ~Leave(j, TRUE) /\ ~Leave(j, FALSE)
      <4>1. jpc'[j] \in {"write", "stat"}
        BY <3>4 DEF WriteFile, Proceed, JobAt
      <4>2. QED
        BY <1>1, <2>2, <4>1
    <3>5. CASE StatMarker(j) /\ ~Leave(j, FALSE)
      <4>1. ~folder[jfolder[j]].marker /\ UNCHANGED jfolder
        BY <3>5 DEF StatMarker, Proceed
      <4>2. QED
        BY <1>1, <2>2, <4>1
    <3>6. CASE MatchAttendees(j) /\ ~Leave(j, FALSE)
      BY <1>1, <2>2, <3>6 DEF MatchAttendees
    <3>7. CASE Send(j)
      BY <1>1, <2>2, <3>7 DEF Send
    <3>8. CASE SendDone(j) /\ ~Leave(j, FALSE)
      BY <1>1, <2>2, <3>8 DEF SendDone, Proceed
    <3>9. CASE ListPage(j) \/ NextRef(j) \/ Report(j)
      <4>1. jpc'[j] \in {"refs", "report", "list", "fetch", "idle"}
        BY <3>9 DEF ListPage, NextRef, Report, JobAt
      <4>2. QED
        BY <1>1, <2>2, <4>1
    <3>10. QED
      BY <1>4, <3>1, <3>2, <3>3, <3>4, <3>5, <3>6, <3>7, <3>8, <3>9 DEF Serve, WriteMarker
  <2>3. QED
    BY <2>1, <2>2
<1>5. QED
  BY <1>2, <1>3, <1>4
     DEF FirefliesNext, firefliesVars, Transcribe, Rename, DeleteTranscript, WorkspaceChanges,
         Calm

\* Nobody is mailed again about a folder that carries its marker, unless by a
\* delivery that had looked for it before (notifyAttendees).
THEOREM RetriesSilent == FirefliesSpec => RetriesAreSilent
<1>1. ASSUME TypeInv, TypeInv', [FirefliesNext]_firefliesVars
      PROVE  [\A f \in FolderNames : folder[f].marker /\ PastMarker(f) = {} =>
                folder'[f].marker /\ PastMarker(f)' = {}]_firefliesVars
  <2> SUFFICES ASSUME NEW f \in FolderNames, folder[f].marker, PastMarker(f) = {}
               PROVE  folder'[f].marker /\ PastMarker(f)' = {}
    OBVIOUS
  <2>1. folder'[f].marker
    BY <1>1, Growth DEF Grown
  <2>2. PastMarker(f)' = {}
    BY <1>1, PastMarkerSteps
  <2>3. QED
    BY <2>1, <2>2
<1>2. FirefliesSpec => []TypeInv /\ [][FirefliesNext]_firefliesVars
  BY InductiveType, PTL DEF FirefliesSpec
<1>3. QED
  BY <1>1, <1>2, PTL DEF RetriesAreSilent

=============================================================================
