--------------------------- MODULE HfDownloadProofs ---------------------------
(***************************************************************************)
(* Proofs about HfDownload, for a file of any size and any number of        *)
(* launchers, the last two for launchers that run one at a time.            *)
(***************************************************************************)
EXTENDS HfDownload, TLAPS

LEMMA SmallContents == <<>> \in Content /\ <<Page>> \in Content
<1>1. Page \in Parts
  BY DEF Parts
<1> QED
  BY <1>1 DEF Content

LEMMA SizeIsNat == TypeOK => Size \in Nat /\ (Size > 0 => partial \in Inodes)
<1> SUFFICES ASSUME TypeOK PROVE Size \in Nat /\ (Size > 0 => partial \in Inodes)
  OBVIOUS
<1>1. CASE partial = None
  BY <1>1 DEF Size
<1>2. CASE partial \in Inodes
  <2>1. content[partial] \in Seq(Parts)
    BY <1>2 DEF TypeOK, Content
  <2> QED
    BY <1>2, <2>1, DownloadAssumption DEF Size
<1> QED
  BY <1>1, <1>2 DEF TypeOK

(* curl writes chunks and, past the end of a file that was truncated under  *)
(* it, holes.                                                               *)
LEMMA WrittenIsContent ==
    ASSUME TypeOK, NEW l \in Launchers, pc[l] = "transfer", at[l] < Chunks
    PROVE  Written(l) \in Content
<1> DEFINE c == content[fd[l]]
           i == at[l] + 1
<1>1. c \in Seq(Parts) /\ at[l] \in 0..Chunks
  BY DEF TypeOK, Content
<1>2. i \in Parts /\ Hole \in Parts /\ i \in Nat \ {0}
  BY <1>1, DownloadAssumption DEF Parts
<1> HIDE DEF c, i
<1>3. Append(c, i) \in Seq(Parts)
  BY <1>1, <1>2
<1>4. WriteAt(c, i, i) \in Seq(Parts)
  <2>1. CASE i <= Len(c)
    BY <1>1, <1>2, <2>1 DEF WriteAt
  <2>2. CASE ~(i <= Len(c))
    <3> DEFINE d == [k \in 1..i |-> IF k = i THEN i ELSE IF k <= Len(c) THEN c[k] ELSE Hole]
    <3>1. \A k \in 1..i : d[k] \in Parts
      BY <1>1, <1>2
    <3>2. d \in Seq(Parts)
      BY <1>2, <3>1
    <3> QED
      BY <2>2, <3>2 DEF WriteAt
  <2> QED
    BY <2>1, <2>2
<1> QED
  BY <1>3, <1>4 DEF Written, Content, c, i

LEMMA OneMore ==
    /\ 0 \in 0..Chunks
    /\ \A n \in Nat : n < Chunks => n \in 0..Chunks /\ n + 1 \in 0..Chunks
<1>1. Chunks \in Nat \ {0}
  BY DownloadAssumption
<1> QED
  BY <1>1

LEMMA TypeInit == Init => TypeOK
<1> SUFFICES ASSUME Init PROVE TypeOK
  OBVIOUS
<1>1. at \in [Launchers -> 0..Chunks] /\ content \in [Inodes -> Content]
  BY OneMore, SmallContents DEF Init
<1> QED
  BY <1>1 DEF Init, TypeOK, Steps

LEMMA TypeStep == TypeOK /\ [Next]_vars => TypeOK'
<1> SUFFICES ASSUME TypeOK, [Next]_vars PROVE TypeOK'
  OBVIOUS
<1> USE DownloadAssumption DEF TypeOK, Goto, End, Steps, curl, CurlFails
<1>1. ASSUME NEW l \in Launchers, Begin(l) PROVE TypeOK'
  BY <1>1 DEF Begin
<1>2. ASSUME NEW l \in Launchers, CheckDestination(l) PROVE TypeOK'
  BY <1>2 DEF CheckDestination
<1>3. ASSUME NEW l \in Launchers, Resume(l) PROVE TypeOK'
  <2>0. Size \in Nat /\ 0 < Size /\ Size < Chunks /\ Chunks \in Nat /\ partial \in Inodes
    <3> HIDE DEF TypeOK
    <3> QED
      BY <1>3, SizeIsNat DEF Resume
  <2>1. partial \in Inodes /\ Size \in 0..Chunks
    <3> HIDE DEF TypeOK
    <3> HIDE DownloadAssumption
    <3> QED
      BY <2>0, OneMore
  <2>2. fd' = [fd EXCEPT ![l] = partial] /\ pc' = [pc EXCEPT ![l] = "transfer"]
        /\ at' = [at EXCEPT ![l] = Size] /\ append' = [append EXCEPT ![l] = TRUE]
        /\ UNCHANGED <<exit, pending, content, partial, destination, misled>> /\ log' = "quiet"
    BY <1>3 DEF Resume
  <2>3. \A m \in Launchers : pc'[m] = "transfer" => fd'[m] \in Inodes
    BY <2>1, <2>2
  <2> QED
    BY <2>1, <2>2, <2>3
<1>4. ASSUME NEW l \in Launchers, Download(l) PROVE TypeOK'
  <2>1. PICK file \in Inodes : /\ partial' = file
                              /\ content' = [content EXCEPT ![file] = <<>>]
                              /\ fd' = [fd EXCEPT ![l] = file]
    BY <1>4 DEF Download
  <2>2. pc' = [pc EXCEPT ![l] = "transfer"] /\ at' = [at EXCEPT ![l] = 0]
        /\ append' = [append EXCEPT ![l] = FALSE]
        /\ UNCHANGED <<exit, pending, destination, misled>> /\ log' = "quiet"
    BY <1>4 DEF Download
  <2>3. \A m \in Launchers : pc'[m] = "transfer" => fd'[m] \in Inodes
    BY <2>1, <2>2
  <2>4. content' \in [Inodes -> Content]
    BY <2>1, SmallContents
  <2>5. at' \in [Launchers -> 0..Chunks]
    BY <2>2, OneMore
  <2>6. fd' \in [Launchers -> Inodes \cup {None}] /\ partial' \in Inodes \cup {None}
    BY <2>1
  <2>7. /\ pc' \in [Launchers -> Steps] /\ append' \in [Launchers -> BOOLEAN]
        /\ exit' = exit /\ pending' = pending /\ destination' = destination
        /\ log' \in {"absent", "quiet", "says 416"} /\ misled' \in BOOLEAN
    BY <2>2
  <2> QED
    BY <2>3, <2>4, <2>5, <2>6, <2>7
<1>5. ASSUME NEW l \in Launchers, DownloadPage(l) PROVE TypeOK'
  BY <1>5, SmallContents DEF DownloadPage
<1>6. ASSUME NEW l \in Launchers, RangeRefused(l) \/ RequestFails(l) PROVE TypeOK'
  BY <1>6 DEF RangeRefused, RequestFails, SaysAnything
<1>7. ASSUME NEW l \in Launchers, Receive(l) PROVE TypeOK'
  <2>1. Written(l) \in Content
    BY <1>7, WrittenIsContent DEF Receive
  <2>2. content' = [content EXCEPT ![fd[l]] = Written(l)]
        /\ at' = [at EXCEPT ![l] = at[l] + 1] /\ at[l] < Chunks
        /\ UNCHANGED <<pc, fd, append, exit, pending, partial, destination, log, misled>>
    BY <1>7 DEF Receive
  <2>3. content' \in [Inodes -> Content]
    BY <2>1, <2>2
  <2>4. at' \in [Launchers -> 0..Chunks]
    <3>1. at \in [Launchers -> 0..Chunks] /\ Chunks \in Nat
      OBVIOUS
    <3>2. at[l] \in Nat
      <4> HIDE DEF TypeOK
      <4> HIDE DownloadAssumption
      <4> QED
        BY <3>1
    <3>3. at[l] + 1 \in 0..Chunks
      <4> HIDE DEF TypeOK
      <4> HIDE DownloadAssumption
      <4> QED
        BY <3>2, <2>2, OneMore
    <3> QED
      BY <3>1, <3>3, <2>2
  <2> QED
    BY <2>2, <2>3, <2>4
<1>8. ASSUME NEW l \in Launchers, TransferEnds(l) \/ TransferBreaks(l) PROVE TypeOK'
  BY <1>8 DEF TransferEnds, TransferBreaks, SaysAnything
<1>9. ASSUME NEW l \in Launchers, TeeWrites(l) PROVE TypeOK'
  BY <1>9 DEF TeeWrites
<1>10. ASSUME NEW l \in Launchers, Accept(l) \/ Reject(l) PROVE TypeOK'
  BY <1>10 DEF Accept, Reject
<1>11. ASSUME NEW l \in Launchers, Rename(l) \/ CheckMagic(l) \/ Kill(l) PROVE TypeOK'
  BY <1>11 DEF Rename, CheckMagic, Kill
<1>12. ASSUME RemoveInvalid \/ UNCHANGED vars PROVE TypeOK'
  BY <1>12 DEF RemoveInvalid, vars
<1> QED
  BY <1>1, <1>2, <1>3, <1>4, <1>5, <1>6, <1>7, <1>8, <1>9, <1>10, <1>11, <1>12
     DEF Next, Launcher

(* The types, also for launchers that run beside each other.                *)
THEOREM TypeCorrect == Spec => []TypeOK
  BY TypeInit, TypeStep, PTL DEF Spec

-----------------------------------------------------------------------------
(* The destination, for launchers that run one at a time.                   *)

OneAtATime == \A l, m \in Launchers : pc[l] # "idle" /\ pc[m] # "idle" => l = m

(* A partial file is a beginning of the remote file or of a login page.     *)
Ordered(c) == Len(c) <= Chunks /\ \A k \in 1..Len(c) : c[k] = k
Sound(c) == Ordered(c) \/ (Len(c) > 0 /\ c[1] = Page)
PartialSound == partial # None => Sound(content[partial])

Separate == partial # None => partial # destination

(* curl is where the partial file ends.                                     *)
AtTheEnd(l) ==
    pc[l] = "transfer" => /\ partial # None /\ fd[l] = partial
                          /\ at[l] = Len(content[partial])

(* A tee is late only for the log that is searched next.                    *)
TeeWaits(l) == /\ pending[l] => pc[l] = "failed" /\ log = "quiet"
               /\ pc[l] = "transfer" => log = "quiet"

(* A range is refused only when there is nothing left to resume.            *)
RefusedAtEnd(l) == pc[l] = "failed" /\ exit[l] = "range" => Size >= Chunks

ReadyToRename(l) ==
    pc[l] = "rename" =>
        partial # None /\ (HasMagic(partial) /\ exit[l] # "http" => Size >= Chunks)

LauncherInv(l) == AtTheEnd(l) /\ TeeWaits(l) /\ RefusedAtEnd(l) /\ ReadyToRename(l)

IInv == /\ TypeOK /\ OneAtATime /\ PartialSound /\ Separate /\ DestinationWhole
        /\ \A l \in Launchers : LauncherInv(l)

LEMMA CompleteIsWhole ==
    ASSUME NEW c \in Seq(Parts), Sound(c), Len(c) > 0, c[1] = 1, Len(c) >= Chunks
    PROVE  Whole(c)
<1>1. Ordered(c)
  BY DEF Sound, Page
<1>2. Chunks \in Nat /\ Len(c) \in Nat
  BY DownloadAssumption
<1> QED
  BY <1>1, <1>2 DEF Ordered, Whole

(* What curl writes at the end of a sound file leaves it sound.             *)
LEMMA ExtendSound ==
    ASSUME NEW c \in Seq(Parts), Sound(c), Len(c) < Chunks,
           NEW d, d = Append(c, Len(c) + 1) \/ d = WriteAt(c, Len(c) + 1, Len(c) + 1)
    PROVE  Sound(d) /\ Len(d) = Len(c) + 1 /\ (Len(c) > 0 => d[1] = c[1])
<1>1. Chunks \in Nat /\ Len(c) \in Nat
  BY DownloadAssumption
<1>2. Len(d) = Len(c) + 1 /\ \A k \in 1..Len(d) : d[k] = IF k = Len(d) THEN k ELSE c[k]
  <2>1. CASE d = Append(c, Len(c) + 1)
    BY <2>1, <1>1
  <2>2. CASE d = WriteAt(c, Len(c) + 1, Len(c) + 1)
    <3>1. d = [k \in 1..Len(c) + 1 |->
                 IF k = Len(c) + 1 THEN Len(c) + 1 ELSE IF k <= Len(c) THEN c[k] ELSE Hole]
      BY <2>2, <1>1 DEF WriteAt
    <3> HIDE DEF Hole
    <3>2. DOMAIN d = 1..Len(c) + 1
      BY <3>1
    <3>3. Len(d) = Len(c) + 1
      <4>1. d \in Seq({d[k] : k \in 1..Len(c) + 1})
        BY <3>1, <1>1
      <4> QED
        BY <3>2, <4>1, <1>1
    <3> QED
      BY <3>1, <3>3, <1>1
  <2> QED
    BY <2>1, <2>2
<1>3. CASE Ordered(c)
  <2>1. \A k \in 1..Len(d) : d[k] = k
    BY <1>1, <1>2, <1>3 DEF Ordered
  <2> QED
    BY <1>1, <1>2, <2>1 DEF Ordered, Sound
<1>4. CASE Len(c) > 0 /\ c[1] = Page
  BY <1>1, <1>2, <1>4 DEF Sound
<1>5. Len(c) > 0 => d[1] = c[1]
  BY <1>1, <1>2
<1> QED
  BY <1>2, <1>3, <1>4, <1>5 DEF Sound

(* A step of one launcher leaves the invariants of the idle ones alone.     *)
LEMMA OthersAreIdle ==
    ASSUME TypeOK, OneAtATime, \A m \in Launchers : LauncherInv(m), NEW l \in Launchers,
           pc[l] # "idle" \/ \A m \in Launchers : pc[m] = "idle",
           NEW step, pc' = [pc EXCEPT ![l] = step],
           NEW b, pending' = pending \/ pending' = [pending EXCEPT ![l] = b],
           LauncherInv(l)'
    PROVE  OneAtATime' /\ \A m \in Launchers : LauncherInv(m)'
<1>1. \A m \in Launchers \ {l} : pc[m] = "idle" /\ ~pending[m]
  BY DEF OneAtATime, LauncherInv, TeeWaits, RefusedAtEnd
<1>2. \A m \in Launchers \ {l} : pc'[m] = "idle"
  BY <1>1 DEF TypeOK
<1>3. \A m \in Launchers \ {l} : ~pending'[m]
  BY <1>1, Zenon DEF TypeOK
<1>4. \A m \in Launchers \ {l} : LauncherInv(m)'
  BY <1>2, <1>3 DEF LauncherInv, AtTheEnd, TeeWaits, RefusedAtEnd, ReadyToRename
<1> QED
  BY <1>2, <1>4 DEF OneAtATime

SameFiles == UNCHANGED <<content, partial, destination, misled>>

LEMMA FilesStay ==
    ASSUME PartialSound, Separate, DestinationWhole, SameFiles
    PROVE  PartialSound' /\ Separate' /\ DestinationWhole' /\ Size' = Size
  BY DEF PartialSound, Separate, DestinationWhole, SameFiles, HasMagic, Size

LEMMA SizeOfPartial == (0 < Size \/ partial # None) => partial # None /\ Size = Len(content[partial])
<1>1. ASSUME partial = None PROVE Size = 0 /\ ~(0 < Size)
  BY <1>1 DEF Size
<1>2. ASSUME partial # None PROVE Size = Len(content[partial])
  BY <1>2 DEF Size
<1> QED
  BY <1>1, <1>2

LEMMA InvInit == Init => IInv
  BY TypeInit
     DEF Init, IInv, OneAtATime, PartialSound, Separate, DestinationWhole, LauncherInv,
         AtTheEnd, TeeWaits, RefusedAtEnd, ReadyToRename

(* The steps of a launcher that leave the files alone.                      *)
LEMMA ControlStep ==
    ASSUME Serial, IInv, NEW l \in Launchers,
           \/ Begin(l) \/ CheckDestination(l) \/ Resume(l) \/ RangeRefused(l)
           \/ RequestFails(l) \/ TransferEnds(l) \/ TransferBreaks(l) \/ TeeWrites(l)
           \/ Accept(l) \/ Reject(l) \/ CheckMagic(l) \/ Kill(l)
    PROVE  SameFiles /\ LauncherInv(l)'
<1> USE DEF IInv, LauncherInv, AtTheEnd, TeeWaits, RefusedAtEnd, ReadyToRename, SameFiles
<1>0. SameFiles
  BY DEF Begin, CheckDestination, Resume, RangeRefused, RequestFails, TransferEnds,
         TransferBreaks, TeeWrites, Accept, Reject, CheckMagic, Kill, CurlFails
<1>a. /\ Size' = Size /\ (partial # None => HasMagic(partial)' = HasMagic(partial))
      /\ TypeOK /\ Size \in Nat /\ Chunks \in Nat
  BY <1>0, FilesStay, SizeIsNat, DownloadAssumption DEF HasMagic
<1>b. /\ \A s : Goto(l, s) => pc'[l] = s
      /\ End(l) => pc'[l] = "idle" /\ ~pending'[l]
  BY <1>a, Zenon DEF Goto, End, TypeOK
<1>c. pc'[l] \in {"idle", "check", "request", "magic", "ready"} /\ ~pending'[l]
        => LauncherInv(l)'
  OBVIOUS
<1>d. pc[l] # "failed" => ~pending[l]
  OBVIOUS
<1>1. CASE Begin(l) \/ CheckDestination(l)
  <2>1. pc'[l] \in {"check", "request", "magic"}
    BY <1>1, <1>b DEF Begin, CheckDestination
  <2>2. ~pending'[l]
    BY <1>1, <1>d DEF Begin, CheckDestination
  <2> QED
    BY <1>0, <1>c, <2>1, <2>2
<1>2. CASE Resume(l)
  <2>1. pc'[l] = "transfer" /\ ~pending'[l]
    BY <1>2, <1>b, <1>d DEF Resume
  <2>0. log' = "quiet"
    BY <1>2 DEF Resume
  <2>2. fd'[l] = partial /\ at'[l] = Size
    BY <1>2, <1>a DEF Resume, TypeOK
  <2>3. partial # None /\ Size = Len(content[partial])
    <3>1. 0 < Size
      BY <1>2 DEF Resume
    <3> QED
      BY <3>1, SizeOfPartial
  <2>4. AtTheEnd(l)'
    BY <1>0, <2>2, <2>3
  <2> QED
    BY <1>0, <2>0, <2>1, <2>4
<1>3. CASE RangeRefused(l)
  <2>1. pc'[l] = "failed" /\ log' = "quiet" /\ Size >= Chunks
    BY <1>3, <1>b DEF RangeRefused, CurlFails
  <2> QED
    BY <1>0, <1>a, <2>1
<1>4. CASE RequestFails(l)
  <2>1. pc'[l] = "failed" /\ log' = "quiet" /\ exit'[l] # "range"
    BY <1>4, <1>a, <1>b DEF RequestFails, CurlFails, TypeOK
  <2> QED
    BY <1>0, <2>1
<1>5. CASE TransferEnds(l)
  <2>1. pc'[l] = "rename" /\ ~pending'[l]
    BY <1>5, <1>b, <1>d DEF TransferEnds
  <2>2. partial # None /\ Size = Chunks
    BY <1>5 DEF TransferEnds, Size
  <2>3. partial' # None /\ Size' >= Chunks
    <3>1. Size' = Chunks /\ Chunks \in Nat
      BY <1>a, <2>2
    <3>2. Size' >= Chunks
      <4> HIDE DEF IInv, SameFiles
      <4> QED
        BY <3>1
    <3> QED
      BY <1>0, <2>2, <3>2
  <2> QED
    BY <1>0, <2>1, <2>3
<1>6. CASE TransferBreaks(l)
  <2>1. pc'[l] = "failed" /\ log' = "quiet" /\ exit'[l] # "range"
    BY <1>6, <1>a, <1>b DEF TransferBreaks, CurlFails, TypeOK
  <2> QED
    BY <1>0, <2>1
<1>7. CASE TeeWrites(l)
  <2>1. pc'[l] = "failed" /\ exit' = exit /\ pc[l] = "failed"
    BY <1>7, <1>a DEF TeeWrites, curl
  <2>2. ~pending'[l]
    BY <1>7, <1>a, Zenon DEF TeeWrites, TypeOK
  <2> QED
    BY <1>0, <1>a, <2>1, <2>2
<1>8. CASE Accept(l)
  <2>1. pc'[l] = "rename" /\ exit' = exit /\ log = "says 416"
    BY <1>8, <1>b DEF Accept, Accepted, curl
  <2>2. partial # None /\ exit[l] \in {"range", "http"} /\ pc[l] = "failed"
    BY <1>8 DEF Accept, Accepted
  <2>3. partial' # None /\ (exit'[l] # "http" => Size' >= Chunks) /\ ~pending'[l]
    BY <1>0, <1>a, <1>8, <2>1, <2>2 DEF Accept
  <2> QED
    BY <1>0, <2>1, <2>3
<1>9. CASE Reject(l) \/ CheckMagic(l) \/ Kill(l)
  <2>1. pc'[l] \in {"idle", "ready"} /\ ~pending'[l]
    BY <1>9, <1>b, <1>d DEF Reject, CheckMagic, Kill
  <2> QED
    BY <1>0, <1>c, <2>1
<1> QED
  BY <1>1, <1>2, <1>3, <1>4, <1>5, <1>6, <1>7, <1>8, <1>9

LEMMA DownloadStep ==
    ASSUME IInv, NEW l \in Launchers, Download(l) \/ DownloadPage(l)
    PROVE  PartialSound' /\ Separate' /\ DestinationWhole' /\ LauncherInv(l)'
<1>1. PICK file \in Inodes, c \in {<<>>, <<Page>>} :
         /\ Opened(file) /\ partial' = file /\ destination' = destination
         /\ content' = [content EXCEPT ![file] = c]
         /\ c = <<>> => pc' = [pc EXCEPT ![l] = "transfer"] /\ at' = [at EXCEPT ![l] = 0]
                        /\ fd' = [fd EXCEPT ![l] = file]
         /\ c = <<Page>> => pc' = [pc EXCEPT ![l] = "rename"]
         /\ pc[l] # "failed" /\ pending' = pending
         /\ log' = "quiet" /\ misled' = misled
  BY DEF Download, DownloadPage, Goto
<1>2. file # destination /\ file # None
  BY <1>1, DownloadAssumption DEF Opened, Free, IInv, Separate
<1>3. content'[file] = c /\ \A i \in Inodes \ {file} : content'[i] = content[i]
  BY <1>1 DEF IInv, TypeOK
<1>4. Sound(c) /\ (c = <<>> \/ c = <<Page>>) /\ Len(<<>>) = 0 /\ <<Page>>[1] # 1
  BY <1>1, DownloadAssumption DEF Sound, Ordered, Page
<1>5. PartialSound' /\ Separate'
  BY <1>1, <1>2, <1>3, <1>4 DEF PartialSound, Separate
<1>6. DestinationWhole'
  <2>1. destination' \in Inodes \/ destination' = None
    BY <1>1 DEF IInv, TypeOK
  <2>2. destination' # None => content'[destination'] = content[destination]
    BY <1>1, <1>2, <1>3, <2>1
  <2> QED
    BY <1>1, <2>2 DEF DestinationWhole, HasMagic, IInv
<1>7. LauncherInv(l)'
  <2>1. ~pending'[l]
    BY <1>1 DEF IInv, LauncherInv, TeeWaits, RefusedAtEnd
  <2>2. CASE c = <<>>
    <3>1. pc'[l] = "transfer" /\ at'[l] = 0 /\ fd'[l] = file
      BY <1>1, <2>2 DEF IInv, TypeOK
    <3>2. AtTheEnd(l)'
      BY <1>1, <1>2, <1>3, <1>4, <2>2, <3>1 DEF AtTheEnd
    <3> QED
      BY <1>1, <2>1, <3>1, <3>2 DEF LauncherInv, TeeWaits, RefusedAtEnd, ReadyToRename
  <2>3. CASE c = <<Page>>
    <3>1. pc'[l] = "rename"
      BY <1>1, <2>3 DEF IInv, TypeOK
    <3>2. ~HasMagic(partial)' /\ partial' # None
      BY <1>1, <1>2, <1>3, <1>4, <2>3 DEF HasMagic
    <3> QED
      BY <2>1, <3>1, <3>2 DEF LauncherInv, TeeWaits, RefusedAtEnd, ReadyToRename, AtTheEnd
  <2> QED
    BY <1>4, <2>2, <2>3
<1> QED
  BY <1>5, <1>6, <1>7

LEMMA ReceiveStep ==
    ASSUME IInv, NEW l \in Launchers, Receive(l)
    PROVE  PartialSound' /\ Separate' /\ DestinationWhole' /\ LauncherInv(l)'
<1> DEFINE c == content[partial]
<1>1. /\ pc[l] = "transfer" /\ at[l] < Chunks /\ partial \in Inodes /\ fd[l] = partial
      /\ at[l] = Len(c) /\ c \in Seq(Parts) /\ Sound(c) /\ partial # destination
  BY DownloadAssumption
     DEF Receive, IInv, LauncherInv, AtTheEnd, TypeOK, Content, PartialSound, Separate
<1>2. /\ content' = [content EXCEPT ![partial] = Written(l)]
      /\ at' = [at EXCEPT ![l] = at[l] + 1]
      /\ UNCHANGED <<pc, fd, pending, partial, destination, log, misled>>
  BY <1>1 DEF Receive
<1>3. Written(l) = Append(c, Len(c) + 1) \/ Written(l) = WriteAt(c, Len(c) + 1, Len(c) + 1)
  BY <1>1 DEF Written
<1>4. Sound(Written(l)) /\ Len(Written(l)) = Len(c) + 1
  <2> HIDE DEF c
  <2> QED
    BY <1>1, <1>3, ExtendSound
<1>5. /\ content'[partial] = Written(l) /\ at'[l] = Len(c) + 1
      /\ \A i \in Inodes \ {partial} : content'[i] = content[i]
  BY <1>1, <1>2 DEF IInv, TypeOK
<1>6. PartialSound' /\ Separate'
  BY <1>1, <1>2, <1>4, <1>5 DEF PartialSound, Separate
<1>7. DestinationWhole'
  <2>1. destination \in Inodes \/ destination = None
    BY DEF IInv, TypeOK
  <2>2. destination # None => content'[destination'] = content[destination]
    BY <1>1, <1>2, <1>5, <2>1
  <2> QED
    BY <1>2, <2>2 DEF DestinationWhole, HasMagic, IInv
<1>8. LauncherInv(l)'
  <2>1. ~pending'[l] /\ log' = "quiet" /\ pc'[l] = "transfer"
    BY <1>1, <1>2 DEF IInv, LauncherInv, TeeWaits, RefusedAtEnd
  <2>2. AtTheEnd(l)'
    BY <1>1, <1>2, <1>4, <1>5, DownloadAssumption DEF AtTheEnd
  <2> QED
    BY <2>1, <2>2 DEF LauncherInv, TeeWaits, RefusedAtEnd, ReadyToRename
<1> QED
  BY <1>6, <1>7, <1>8

LEMMA RenameStep ==
    ASSUME IInv, NEW l \in Launchers, Rename(l)
    PROVE  PartialSound' /\ Separate' /\ DestinationWhole' /\ LauncherInv(l)'
<1> DEFINE c == content[partial]
<1>1. /\ pc[l] = "rename" /\ partial # None /\ ~pending[l]
      /\ HasMagic(partial) /\ exit[l] # "http" => Size >= Chunks
  BY DEF Rename, IInv, LauncherInv, ReadyToRename, TeeWaits, RefusedAtEnd
<1>2. /\ destination' = partial /\ partial' = None /\ content' = content
      /\ pending' = pending /\ pc' = [pc EXCEPT ![l] = "magic"] /\ misled' = (exit[l] = "http")
  BY <1>1 DEF Rename, Goto
<1>3. PartialSound' /\ Separate'
  BY <1>2 DEF PartialSound, Separate
<1>4. DestinationWhole'
  <2>1. c \in Seq(Parts) /\ Sound(c) /\ Size = Len(c)
    BY <1>1, SizeOfPartial DEF IInv, TypeOK, Content, PartialSound
  <2>2. HasMagic(partial) /\ exit[l] # "http" => Whole(c)
    <3> SUFFICES ASSUME HasMagic(partial), exit[l] # "http" PROVE Whole(c)
      OBVIOUS
    <3>1. Len(c) > 0 /\ c[1] = 1 /\ Len(c) >= Chunks
      BY <1>1, <2>1 DEF HasMagic
    <3> HIDE DEF c
    <3> QED
      BY <2>1, <3>1, CompleteIsWhole
  <2> QED
    BY <1>2, <2>2 DEF DestinationWhole, HasMagic
<1>5. LauncherInv(l)'
  <2>1. pc'[l] = "magic" /\ ~pending'[l]
    BY <1>1, <1>2 DEF IInv, TypeOK
  <2> QED
    BY <2>1 DEF LauncherInv, AtTheEnd, TeeWaits, RefusedAtEnd, ReadyToRename
<1> QED
  BY <1>3, <1>4, <1>5

LEMMA InvStep == Serial /\ IInv /\ [Next]_vars => IInv'
<1> SUFFICES ASSUME Serial, IInv, [Next]_vars PROVE IInv'
  OBVIOUS
<1>1. TypeOK'
  BY TypeStep DEF IInv
<1>2. ASSUME NEW l \in Launchers, Launcher(l) PROVE IInv'
  <2>1. PartialSound' /\ Separate' /\ DestinationWhole' /\ LauncherInv(l)'
    BY <1>2, DownloadStep, ReceiveStep, RenameStep, ControlStep, FilesStay
       DEF Launcher, IInv
  <2>2. pc[l] # "idle" \/ \A m \in Launchers : pc[m] = "idle"
    BY <1>2
       DEF Launcher, IInv, LauncherInv, TeeWaits, RefusedAtEnd, Begin, CheckDestination, Resume, Download,
           DownloadPage, RangeRefused, RequestFails, Receive, TransferEnds, TransferBreaks,
           TeeWrites, Accept, Reject, Rename, CheckMagic, Kill
  <2>3. /\ \E step : pc' = [pc EXCEPT ![l] = step]
        /\ \E b : pending' = pending \/ pending' = [pending EXCEPT ![l] = b]
    <3>1. pc = [pc EXCEPT ![l] = pc[l]]
      BY DEF IInv, TypeOK
    <3>2. CASE \/ Begin(l) \/ CheckDestination(l) \/ Resume(l) \/ Download(l)
               \/ DownloadPage(l) \/ TransferEnds(l) \/ Accept(l)
      BY <3>2 DEF Begin, CheckDestination, Resume, Download, DownloadPage, TransferEnds,
                  Accept, Goto
    <3>3. CASE \/ RangeRefused(l) \/ RequestFails(l) \/ TransferBreaks(l)
               \/ Reject(l) \/ Rename(l) \/ CheckMagic(l) \/ Kill(l)
      BY <3>3 DEF RangeRefused, RequestFails, TransferBreaks, Reject, Rename, CheckMagic,
                  Kill, Goto, End, CurlFails, SaysAnything
    <3>4. CASE Receive(l) \/ TeeWrites(l)
      BY <3>1, <3>4 DEF Receive, TeeWrites
    <3> QED
      BY <1>2, <3>2, <3>3, <3>4 DEF Launcher
  <2>4. OneAtATime' /\ \A m \in Launchers : LauncherInv(m)'
    BY <2>1, <2>2, <2>3, OthersAreIdle DEF IInv
  <2> QED
    BY <1>1, <2>1, <2>4 DEF IInv
<1>3. CASE RemoveInvalid
  <2>1. /\ UNCHANGED <<pc, fd, at, exit, pending, content, partial, log>> /\ destination' = None
        /\ \A l \in Launchers : pc[l] = "idle"
    BY <1>3 DEF RemoveInvalid, curl
  <2>2. \A l \in Launchers : LauncherInv(l)'
    BY <2>1 DEF IInv, LauncherInv, AtTheEnd, TeeWaits, RefusedAtEnd, ReadyToRename
  <2>3. PartialSound' /\ Separate' /\ DestinationWhole' /\ OneAtATime'
    BY <2>1 DEF IInv, PartialSound, Separate, DestinationWhole, OneAtATime
  <2> QED
    BY <1>1, <2>2, <2>3 DEF IInv
<1>4. CASE UNCHANGED vars
  <2>1. UNCHANGED <<pc, fd, at, exit, pending, content, partial, destination, log, misled>>
    BY <1>4 DEF vars, curl
  <2>2. \A l \in Launchers : LauncherInv(l)'
    BY <2>1 DEF IInv, LauncherInv, AtTheEnd, TeeWaits, RefusedAtEnd, ReadyToRename, HasMagic, Size
  <2>3. PartialSound' /\ Separate' /\ DestinationWhole' /\ OneAtATime'
    BY <2>1 DEF IInv, PartialSound, Separate, DestinationWhole, OneAtATime, HasMagic
  <2> QED
    BY <1>1, <2>2, <2>3 DEF IInv
<1> QED
  BY <1>2, <1>3, <1>4 DEF Next

(* A file of any size that was interrupted and resumed any number of times, *)
(* or accepted on a 416, is whole when it passes the magic check, unless    *)
(* another HTTP error was taken for the 416, as long as a launcher starts   *)
(* only when no other one runs.                                             *)
THEOREM DestinationIsWhole == Serial => (Spec => []DestinationWhole)
<1>1. Serial /\ Init => IInv
  BY InvInit
<1>2. IInv => DestinationWhole
  BY DEF IInv
<1> SUFFICES ASSUME Serial PROVE Spec => []DestinationWhole
  OBVIOUS
<1>3. IInv /\ [Next]_vars => IInv'
  BY InvStep
<1>4. Init => IInv
  BY InvInit
<1> QED
  BY <1>2, <1>3, <1>4, PTL DEF Spec

-----------------------------------------------------------------------------
(* The promise of the download, for launchers that run one at a time.       *)

(* A launcher gets to curl only when there is no destination, and to the    *)
(* rename only with something to rename.                                    *)
Fetching(l) ==
    /\ pc[l] \in {"request", "transfer", "failed", "rename"} => destination = None
    /\ pc[l] = "rename" => Size > 0

FInv == IInv /\ \A l \in Launchers : Fetching(l)

LEMMA FetchingInit == Init => \A l \in Launchers : Fetching(l)
  BY DEF Init, Fetching

LEMMA FetchingStep ==
    ASSUME Serial, FInv, IInv', NEW l \in Launchers, Launcher(l)
    PROVE  Fetching(l)'
<1> USE DEF Fetching
<1>0. /\ TypeOK /\ IInv /\ LauncherInv(l) /\ LauncherInv(l)' /\ Fetching(l)
      /\ Chunks \in Nat \ {0} /\ Size \in Nat
  BY SizeIsNat, DownloadAssumption DEF FInv, IInv
<1>b. /\ \A s : Goto(l, s) => pc'[l] = s
      /\ End(l) => pc'[l] = "idle"
  BY <1>0, Zenon DEF Goto, End, TypeOK
<1>1. CASE Begin(l) \/ Reject(l) \/ CheckMagic(l) \/ Kill(l) \/ Rename(l)
  <2>1. pc'[l] \in {"check", "idle", "ready", "magic"}
    BY <1>1, <1>b DEF Begin, Reject, CheckMagic, Kill, Rename
  <2> QED
    BY <2>1
<1>2. CASE CheckDestination(l)
  BY <1>2, <1>b DEF CheckDestination
<1>3. CASE Resume(l) \/ RangeRefused(l) \/ RequestFails(l) \/ TransferBreaks(l)
  <2>1. pc'[l] \in {"transfer", "failed"} /\ pc[l] \in {"request", "transfer"}
        /\ destination' = destination
    BY <1>3, <1>b DEF Resume, RangeRefused, RequestFails, TransferBreaks, CurlFails
  <2> QED
    BY <1>0, <2>1
<1>4. CASE Download(l) \/ DownloadPage(l)
  <2>1. destination' = None /\ (Download(l) => pc'[l] = "transfer")
    BY <1>0, <1>4, <1>b DEF Download, DownloadPage
  <2>2. ASSUME DownloadPage(l) PROVE Size' > 0
    <3>1. PICK file \in Inodes : partial' = file /\ content' = [content EXCEPT ![file] = <<Page>>]
      BY <2>2 DEF DownloadPage
    <3>2. content'[partial'] = <<Page>> /\ partial' # None
      BY <1>0, <3>1, DownloadAssumption DEF TypeOK
    <3> QED
      BY <3>2 DEF Size
  <2> QED
    BY <1>4, <2>1, <2>2
<1>5. CASE Receive(l) \/ TeeWrites(l)
  <2>1. pc[l] \in {"transfer", "failed"} /\ pc' = pc /\ destination' = destination
    BY <1>0, <1>5 DEF Receive, TeeWrites, LauncherInv, TeeWaits, RefusedAtEnd
  <2> QED
    BY <1>0, <2>1
<1>6. CASE TransferEnds(l)
  <2>1. pc[l] = "transfer" /\ destination' = destination /\ UNCHANGED <<partial, content>>
    BY <1>6 DEF TransferEnds
  <2>2. at[l] = Chunks /\ partial # None /\ at[l] = Len(content[partial])
    BY <1>0, <1>6, <2>1 DEF TransferEnds, LauncherInv, AtTheEnd
  <2>3. Size' = Chunks
    BY <2>1, <2>2 DEF Size
  <2> QED
    BY <1>0, <2>1, <2>3
<1>7. CASE Accept(l)
  <2>1. pc[l] = "failed" /\ destination' = destination /\ UNCHANGED <<partial, content>>
        /\ partial # None /\ Len(content[partial]) > 0
    BY <1>7 DEF Accept, Accepted, HasMagic
  <2>2. Size' > 0
    BY <2>1 DEF Size
  <2> QED
    BY <1>0, <2>1, <2>2
<1> QED
  BY <1>1, <1>2, <1>3, <1>4, <1>5, <1>6, <1>7 DEF Launcher

LEMMA StepFetches == Serial /\ FInv /\ [Next]_vars => FInv'
<1> SUFFICES ASSUME Serial, FInv, [Next]_vars PROVE FInv'
  OBVIOUS
<1>1. IInv'
  BY InvStep DEF FInv
<1>2. ASSUME NEW l \in Launchers, Launcher(l), NEW m \in Launchers PROVE Fetching(m)'
  <2>1. CASE m = l
    BY <1>1, <1>2, <2>1, FetchingStep
  <2>2. CASE m # l
    <3>1. pc'[m] = pc[m]
      BY <1>2, <2>2
         DEF FInv, IInv, TypeOK, Launcher, Begin, CheckDestination, Resume, Download,
             DownloadPage, RangeRefused, RequestFails, Receive, TransferEnds, TransferBreaks,
             TeeWrites, Accept, Reject, Rename, CheckMagic, Kill, Goto, End, CurlFails
    <3>2. pc[l] # "idle" \/ pc[m] = "idle"
      BY <1>2
         DEF FInv, Launcher, IInv, LauncherInv, TeeWaits, RefusedAtEnd, Begin, CheckDestination, Resume,
             Download, DownloadPage, RangeRefused, RequestFails, Receive, TransferEnds,
             TransferBreaks, TeeWrites, Accept, Reject, Rename, CheckMagic, Kill
    <3>3. pc'[m] = "idle"
      BY <2>2, <3>1, <3>2 DEF FInv, IInv, OneAtATime
    <3> QED
      BY <3>3 DEF Fetching
  <2> QED
    BY <2>1, <2>2
<1>3. ASSUME RemoveInvalid \/ UNCHANGED vars, NEW m \in Launchers PROVE Fetching(m)'
  <2>1. UNCHANGED <<pc, partial, content>>
    BY <1>3 DEF RemoveInvalid, vars, curl
  <2>2. destination' = destination \/ pc[m] = "idle"
    BY <1>3 DEF RemoveInvalid, vars
  <2> QED
    BY <2>1, <2>2 DEF FInv, Fetching, Size
<1> QED
  BY <1>1, <1>2, <1>3 DEF Next, FInv

LEMMA WholeHasMagic ==
    ASSUME NEW c \in Seq(Parts), Whole(c) PROVE Len(c) > 0 /\ c[1] = 1
  BY DownloadAssumption DEF Whole

(* Each step is one step of the promise, or none.                           *)
LEMMA ReceiveFetches == ASSUME FInv, NEW l \in Launchers, Receive(l) PROVE Store!Fetch
<1> DEFINE c == content[partial]
           d == Written(l)
<1>1. /\ pc[l] = "transfer" /\ at[l] < Chunks /\ partial \in Inodes /\ fd[l] = partial
      /\ at[l] = Len(c) /\ c \in Seq(Parts) /\ Sound(c) /\ destination = None
      /\ content' = [content EXCEPT ![partial] = d] /\ UNCHANGED <<partial, destination>>
      /\ partial # None
  BY DownloadAssumption
     DEF Receive, FInv, IInv, Fetching, LauncherInv, AtTheEnd, TypeOK, Content, PartialSound
<1>2. d = Append(c, Len(c) + 1) \/ d = WriteAt(c, Len(c) + 1, Len(c) + 1)
  BY <1>1 DEF Written
<1>3. content'[partial] = d
  BY <1>1 DEF FInv, IInv, TypeOK
<1> HIDE DEF c, d
<1>4. Len(d) = Len(c) + 1 /\ (Len(c) > 0 => d[1] = c[1])
  BY <1>1, <1>2, ExtendSound
<1>5. Size = Len(c) /\ Size' = Len(c) + 1 /\ Len(c) \in Nat
  BY <1>1, <1>3, <1>4 DEF Size, c
<1>6. Size > 0 => HasMagic(partial)' = HasMagic(partial)
  BY <1>1, <1>3, <1>4, <1>5 DEF HasMagic, c
<1>7. (partial # None /\ HasMagic(partial))' \in BOOLEAN
  BY DEF HasMagic
<1>8. (partial # None /\ HasMagic(partial))' = (partial # None /\ HasMagic(partial)) \/ Size = 0
  BY <1>1, <1>5, <1>6
<1>9. Artifact = "absent" /\ Artifact' = Artifact
  BY <1>1 DEF Artifact
<1> QED
  BY <1>1, <1>5, <1>7, <1>8, <1>9 DEF Store!Fetch

LEMMA DownloadStutters ==
    ASSUME FInv, NEW l \in Launchers, Download(l) PROVE UNCHANGED Store!artifactVars
<1>1. PICK file \in Inodes : /\ partial' = file /\ destination' = destination
                             /\ content' = [content EXCEPT ![file] = <<>>]
  BY DEF Download
<1>2. /\ partial' # None /\ content'[partial'] = <<>> /\ Size = 0 /\ destination = None
  BY <1>1, DownloadAssumption DEF FInv, IInv, TypeOK, Fetching, Download
<1>3. Size' = Size /\ ~HasMagic(partial)'
  BY <1>2 DEF Size, HasMagic
<1>4. ~(partial # None /\ HasMagic(partial))
  BY <1>2, SizeOfPartial DEF HasMagic
<1>5. Artifact' = Artifact
  BY <1>1, <1>2 DEF Artifact
<1> QED
  BY <1>3, <1>4, <1>5 DEF Store!artifactVars

LEMMA PageFetches == ASSUME FInv, NEW l \in Launchers, DownloadPage(l) PROVE Store!Fetch
<1>1. PICK file \in Inodes : /\ partial' = file /\ destination' = destination
                             /\ content' = [content EXCEPT ![file] = <<Page>>]
  BY DEF DownloadPage
<1>2. /\ partial' # None /\ content'[partial'] = <<Page>> /\ Size = 0 /\ destination = None
      /\ Chunks \in Nat \ {0}
  BY <1>1, DownloadAssumption DEF FInv, IInv, TypeOK, Fetching, DownloadPage
<1>3. Size' = 1 /\ ~HasMagic(partial)'
  BY <1>2 DEF Size, HasMagic, Page
<1>4. Artifact = "absent" /\ Artifact' = Artifact
  BY <1>1, <1>2 DEF Artifact
<1> QED
  BY <1>2, <1>3, <1>4 DEF Store!Fetch

LEMMA RenameInstalls ==
    ASSUME FInv, NEW l \in Launchers, Rename(l) PROVE Store!Install \/ Store!InstallTruncated
<1> DEFINE c == content[partial]
<1>1. /\ pc[l] = "rename" /\ partial # None /\ partial \in Inodes /\ Size > 0 /\ destination = None
  BY DEF Rename, FInv, IInv, LauncherInv, ReadyToRename, Fetching, TypeOK
<1>2. destination' = partial /\ partial' = None /\ content' = content
  BY <1>1 DEF Rename
<1>3. Size = Len(c) /\ c \in Seq(Parts) /\ Sound(c) /\ Size' = 0
  BY <1>1, <1>2 DEF FInv, IInv, TypeOK, Content, PartialSound, Size
<1>4. HasMagic(partial) => (Whole(c) /\ Size = Chunks) \/ (~Whole(c) /\ Size < Chunks)
  <2>1. CASE HasMagic(partial) /\ Len(c) >= Chunks
    <3>1. Len(c) > 0 /\ c[1] = 1
      BY <2>1 DEF HasMagic
    <3>2. Whole(c)
      <4> HIDE DEF c
      <4> QED
        BY <1>3, <2>1, <3>1, CompleteIsWhole
    <3> QED
      BY <1>3, <3>2 DEF Whole
  <2>2. CASE ~(Len(c) >= Chunks)
    BY <1>3, <2>2, DownloadAssumption DEF Whole
  <2> QED
    BY <2>1, <2>2
<1>5. ~HasMagic(partial) => ~Whole(c)
  <2>1. Whole(c) => Len(c) > 0 /\ c[1] = 1
    <3> HIDE DEF c
    <3> QED
      BY <1>3, WholeHasMagic
  <2> QED
    BY <2>1 DEF HasMagic
<1>6. /\ Artifact = "absent"
      /\ Artifact' = IF Whole(c) THEN "whole" ELSE IF HasMagic(partial) THEN "truncated" ELSE "invalid"
  <2>1. content'[destination'] = c /\ (HasMagic(destination)' <=> HasMagic(partial))
    BY <1>2 DEF HasMagic
  <2>2. Whole(content'[destination']) <=> Whole(c)
    BY <2>1
  <2> QED
    BY <1>1, <1>2, <2>1, <2>2 DEF Artifact
<1> HIDE DEF c
<1>7. CASE HasMagic(partial) /\ Size < Chunks /\ ~Whole(c)
  BY <1>1, <1>2, <1>3, <1>6, <1>7 DEF Store!InstallTruncated
<1>8. CASE HasMagic(partial) => Whole(c) /\ Size = Chunks
  BY <1>1, <1>2, <1>3, <1>5, <1>6, <1>8 DEF Store!Install
<1> QED
  BY <1>4, <1>7, <1>8

LEMMA RemoveRemoves == ASSUME FInv, RemoveInvalid PROVE Store!Remove
<1>1. destination # None /\ ~HasMagic(destination) /\ destination' = None
      /\ UNCHANGED <<content, partial>> /\ content[destination] \in Seq(Parts)
  BY DEF RemoveInvalid, FInv, IInv, TypeOK, Content
<1>2. ~Whole(content[destination])
  BY <1>1, WholeHasMagic DEF HasMagic
<1>3. Artifact = "invalid" /\ Artifact' = "absent"
  BY <1>1, <1>2 DEF Artifact
<1>4. Size' = Size /\ HasMagic(partial)' = HasMagic(partial)
  BY <1>1 DEF Size, HasMagic
<1> QED
  BY <1>1, <1>3, <1>4 DEF Store!Remove

LEMMA SameFilesStutter == ASSUME SameFiles PROVE UNCHANGED Store!artifactVars
  BY DEF SameFiles, Store!artifactVars, Artifact, Size, HasMagic, Whole

LEMMA StepIsAllowed == FInv /\ Serial /\ [Next]_vars => [Store!ArtifactNext]_(Store!artifactVars)
<1> SUFFICES ASSUME FInv, Serial, [Next]_vars PROVE [Store!ArtifactNext]_(Store!artifactVars)
  OBVIOUS
<1>1. ASSUME NEW l \in Launchers, Launcher(l) PROVE [Store!ArtifactNext]_(Store!artifactVars)
  BY <1>1, ReceiveFetches, DownloadStutters, PageFetches, RenameInstalls, ControlStep,
     SameFilesStutter
     DEF Launcher, FInv, Store!ArtifactNext
<1>2. CASE RemoveInvalid
  BY <1>2, RemoveRemoves DEF Store!ArtifactNext
<1>3. CASE UNCHANGED vars
  BY <1>3, SameFilesStutter DEF vars, SameFiles
<1> QED
  BY <1>1, <1>2, <1>3 DEF Next

(* The download keeps its promise: for a file of any size, with any number  *)
(* of kills, broken connections and login pages, what has arrived is never  *)
(* cut off or fetched again, and an artifact with the magic is installed in *)
(* one step and for ever, whole or, after an HTTP error taken for a 416,    *)
(* with what had arrived, as long as a launcher starts only when no other   *)
(* one runs.                                                                *)
THEOREM DownloadImplementsArtifact == Serial => (Spec => Implements)
<1> SUFFICES ASSUME Serial PROVE Spec => Implements
  OBVIOUS
<1>1. Init => FInv /\ Store!ArtifactInit
  <2>1. Init => FInv
    BY InvInit, FetchingInit DEF FInv
  <2>2. Init => Store!ArtifactInit
    BY DEF Init, Store!ArtifactInit, Artifact, Size
  <2> QED
    BY <2>1, <2>2
<1>2. FInv /\ [Next]_vars => FInv'
  BY StepFetches
<1>3. FInv /\ [Next]_vars => [Store!ArtifactNext]_(Store!artifactVars)
  BY StepIsAllowed
<1> QED
  BY <1>1, <1>2, <1>3, PTL DEF Spec, Implements, Store!ArtifactSpec
=============================================================================
