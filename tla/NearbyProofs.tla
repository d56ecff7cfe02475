----------------------------- MODULE NearbyProofs -----------------------------
(***************************************************************************)
(* Theorems about the transfer of a file to a reader nearby, for any       *)
(* number of sessions, chunks and retries, over a radio that loses,        *)
(* repeats, delays and reorders: what is installed is one whole file, the  *)
(* name it takes over never loses its file, and a sender that is told so   *)
(* has been heard to the end.  Nobody counts past the end of a file.       *)
(***************************************************************************)
EXTENDS NearbyTransfer, TLAPS

SentFiles == {File(s) : s \in SessionIds}

-----------------------------------------------------------------------------
(* The invariant's parts *)

\* Only a screen that is open has a session, and 0 is none.
SessionsOK ==
  /\ session \in SessionIds /\ rSession \in SessionIds
  /\ sState # "off" => session # 0

\* Nobody says Done of a session whose file is not in place.
AirTellsTheTruth ==
  \A p \in air :
    /\ p.session \in SessionIds
    /\ p.from = "receiver" /\ p.kind = "Done" /\ p.session # 0 => p.session \in whole

\* Where finishReceivedFile() stands and what it has in hand.
FinishOK ==
  /\ rState \in {"moving", "installing", "replacing"} => temp = File(rSession)
  /\ rState = "replacing" => ~keepBoth /\ backup # Absent
  /\ rState = "dropping" => book # Absent
  /\ rState \in {"dropping", "Success"} => rSession \in whole

BackupIsWhole == backup \in {Absent, Old} \cup SentFiles

NearbyInv ==
  /\ SessionsOK /\ AirTellsTheTruth /\ FinishOK /\ BackupIsWhole
  /\ InstalledIsWhole /\ NameKeepsAFile /\ SentMeansInstalled

LEMMA FilesAreThere == Old # Absent /\ \A s \in SessionIds : File(s) # Absent
<1>1. ASSUME NEW s \in SessionIds PROVE File(s) # Absent
  <2>1. 1 \in DOMAIN File(s)
    BY NearbyAssumption DEF File
  <2>2. 1 \notin DOMAIN Absent
    BY DEF Absent
  <2>. QED
    BY <2>1, <2>2
<1>2. Old # Absent
  BY DEF Old, Absent
<1>. QED
  BY <1>1, <1>2

LEMMA NearbyInitInv == NearbyInit => NearbyInv
<1> SUFFICES ASSUME NearbyInit PROVE NearbyInv
  OBVIOUS
<1>1. 0 \in SessionIds
  BY NearbyAssumption DEF SessionIds
<1>2. \A p \in air : p.session = 0
  BY DEF NearbyInit, Packet
<1>3. SessionsOK /\ AirTellsTheTruth /\ FinishOK /\ BackupIsWhole
  BY <1>1, <1>2 DEF NearbyInit, SessionsOK, AirTellsTheTruth, FinishOK, BackupIsWhole
<1>4. InstalledIsWhole /\ NameKeepsAFile /\ SentMeansInstalled
  BY FilesAreThere DEF NearbyInit, InstalledIsWhole, NameKeepsAFile, SentMeansInstalled
<1>. QED
  BY <1>3, <1>4 DEF NearbyInv

-----------------------------------------------------------------------------
(* The sender *)

\* It says nothing in the receiver's name, and only of the session it has.
LEMMA SenderTalks ==
  ASSUME SessionsOK, Sender
  PROVE  /\ \A p \in air' : p \in air \/ (p.from = "sender" /\ p.session = session')
         /\ session' \in SessionIds /\ (sState' # "off" => session' # 0)
         /\ UNCHANGED receiverVars
<1>. USE DEF SessionsOK, SenderSays, Packet, SenderFails, Pending
<1>1. CASE SelectPeer
  BY <1>1, NearbyAssumption DEF SelectPeer, SessionIds
<1>2. CASE TakeAccept
  BY <1>2 DEF TakeAccept
<1>3. CASE TakeReject
  BY <1>3 DEF TakeReject
<1>4. CASE TakeAck
  BY <1>4 DEF TakeAck
<1>5. CASE TakeResult
  BY <1>5 DEF TakeResult
<1>6. CASE TakeCancel
  BY <1>6 DEF TakeCancel
<1>7. CASE SenderTimer
  BY <1>7 DEF SenderTimer
<1>8. CASE SenderExits
  BY <1>8 DEF SenderExits
<1>. QED
  BY <1>1, <1>2, <1>3, <1>4, <1>5, <1>6, <1>7, <1>8 DEF Sender

\* It only says a file was sent when a Done of this session arrives.
LEMMA SenderSucceeds ==
  ASSUME SessionsOK, AirTellsTheTruth, SentMeansInstalled, Sender, sState' = "Success"
  PROVE  session' \in whole
<1>. USE DEF SenderFails
<1>1. CASE SelectPeer
  BY <1>1 DEF SelectPeer
<1>2. CASE TakeAccept
  BY <1>2 DEF TakeAccept
<1>3. CASE TakeReject
  BY <1>3 DEF TakeReject
<1>4. CASE TakeAck
  BY <1>4 DEF TakeAck
<1>5. CASE TakeResult
  BY <1>5 DEF TakeResult, Mine, SessionsOK, AirTellsTheTruth
<1>6. CASE TakeCancel
  BY <1>6 DEF TakeCancel
<1>7. CASE SenderTimer
  BY <1>7 DEF SenderTimer
<1>8. CASE SenderExits
  BY <1>8 DEF SenderExits
<1>. QED
  BY <1>1, <1>2, <1>3, <1>4, <1>5, <1>6, <1>7, <1>8 DEF Sender

LEMMA SenderStep == NearbyInv /\ Sender => NearbyInv'
<1> SUFFICES ASSUME NearbyInv, Sender PROVE NearbyInv'
  OBVIOUS
<1>1. UNCHANGED <<rState, rSession, keepBoth, temp, book, copy, backup, whole>>
  BY SenderTalks DEF NearbyInv, receiverVars, fileVars
<1>2. SessionsOK' /\ AirTellsTheTruth'
  BY <1>1, SenderTalks DEF NearbyInv, SessionsOK, AirTellsTheTruth
<1>3. FinishOK' /\ BackupIsWhole' /\ InstalledIsWhole' /\ NameKeepsAFile'
  BY <1>1 DEF NearbyInv, FinishOK, BackupIsWhole, InstalledIsWhole, NameKeepsAFile
<1>4. SentMeansInstalled'
  BY <1>1, SenderSucceeds DEF NearbyInv, SentMeansInstalled
<1>. QED
  BY <1>2, <1>3, <1>4 DEF NearbyInv

-----------------------------------------------------------------------------
(* The receiver *)

\* A step that is not one of finishReceivedFile() leaves every file but a copy it
\* is about to receive, and what it says of Done has been in place before.
LEMMA ReceiverTalks ==
  ASSUME SessionsOK, AirTellsTheTruth, FinishOK, Receiver, ~Finish
  PROVE  /\ UNCHANGED <<senderVars, book, backup, whole>> /\ copy' \in {copy, Absent}
         /\ rSession' \in SessionIds
         /\ \A p \in air' : \/ p \in air
                            \/ p.session = rSession /\ (p.kind = "Done" => rSession \in whole)
<1>. USE DEF ReceiverFails, ReceiverSays, Packet, fileVars, SessionsOK
<1>1. CASE StartListening
  BY <1>1 DEF StartListening
<1>2. CASE TakeOffer
  BY <1>2 DEF TakeOffer, AirTellsTheTruth
<1>3. CASE RejectOffer
  BY <1>3 DEF RejectOffer
<1>4. CASE DrawReceiving
  BY <1>4 DEF DrawReceiving
<1>5. CASE SendPendingAccept
  <2>1. /\ UNCHANGED <<senderVars, rSession, book, copy, backup, whole>>
        /\ \E k \in {"Accept", "Cancel"} : air' = air \cup {ReceiverSays(k, 0)}
    BY <1>5 DEF SendPendingAccept
  <2>2. PICK k \in {"Accept", "Cancel"} : air' = air \cup {ReceiverSays(k, 0)}
    BY <2>1
  <2>. QED
    BY <2>1, <2>2
<1>6. CASE RepeatAccept
  BY <1>6 DEF RepeatAccept, receiverVars
<1>7. CASE TakeData
  BY <1>7 DEF TakeData
<1>8. CASE TakeComplete
  BY <1>8 DEF TakeComplete, FinishOK
<1>9. CASE HearCancel
  BY <1>9 DEF HearCancel
<1>10. CASE ReceiveTimeout
  BY <1>10 DEF ReceiveTimeout
<1>11. CASE ReceiverExits
  BY <1>11 DEF ReceiverExits
<1>12. CASE ReceiverLosesPower
  BY <1>12 DEF ReceiverLosesPower
<1>13. ASSUME NEW both \in BOOLEAN, AcceptOffer(both)
       PROVE  /\ UNCHANGED <<senderVars, book, backup, whole>> /\ copy' \in {copy, Absent}
              /\ rSession' \in SessionIds
              /\ \A p \in air' : \/ p \in air
                                 \/ p.session = rSession /\ (p.kind = "Done" => rSession \in whole)
  BY <1>13 DEF AcceptOffer
<1>. QED
  BY <1>1, <1>2, <1>3, <1>4, <1>5, <1>6, <1>7, <1>8, <1>9, <1>10, <1>11, <1>12, <1>13
     DEF Receiver

\* Only a file that was verified goes on to be installed.
LEMMA ReceiverFinishes ==
  ASSUME FinishOK, Receiver, ~Finish
  PROVE  FinishOK'
<1>. USE DEF ReceiverFails, FinishOK, fileVars
<1>1. CASE StartListening
  BY <1>1 DEF StartListening
<1>2. CASE TakeOffer
  BY <1>2 DEF TakeOffer
<1>3. CASE RejectOffer
  BY <1>3 DEF RejectOffer
<1>4. CASE DrawReceiving
  BY <1>4 DEF DrawReceiving
<1>5. CASE SendPendingAccept
  BY <1>5 DEF SendPendingAccept
<1>6. CASE RepeatAccept
  BY <1>6 DEF RepeatAccept, receiverVars
<1>7. CASE TakeData
  BY <1>7 DEF TakeData
<1>8. CASE TakeComplete
  BY <1>8 DEF TakeComplete, Verified
<1>9. CASE HearCancel
  BY <1>9 DEF HearCancel
<1>10. CASE ReceiveTimeout
  BY <1>10 DEF ReceiveTimeout
<1>11. CASE ReceiverExits
  BY <1>11 DEF ReceiverExits
<1>12. CASE ReceiverLosesPower
  BY <1>12 DEF ReceiverLosesPower
<1>13. CASE \E both \in BOOLEAN : AcceptOffer(both)
  BY <1>13 DEF AcceptOffer
<1>. QED
  BY <1>1, <1>2, <1>3, <1>4, <1>5, <1>6, <1>7, <1>8, <1>9, <1>10, <1>11, <1>12, <1>13
     DEF Receiver

LEMMA ReceiverStep == NearbyInv /\ Receiver /\ ~Finish => NearbyInv'
<1> SUFFICES ASSUME NearbyInv, Receiver, ~Finish PROVE NearbyInv'
  OBVIOUS
<1>1. FinishOK'
  BY ReceiverFinishes DEF NearbyInv
<1>2. /\ UNCHANGED <<sState, session, book, backup, whole>> /\ copy' \in {copy, Absent}
      /\ rSession' \in SessionIds /\ rSession \in SessionIds
      /\ \A p \in air' : \/ p \in air
                         \/ p.session = rSession /\ (p.kind = "Done" => rSession \in whole)
  BY ReceiverTalks DEF NearbyInv, senderVars, SessionsOK
<1>3. SessionsOK' /\ AirTellsTheTruth'
  BY <1>2 DEF NearbyInv, SessionsOK, AirTellsTheTruth
<1>4. BackupIsWhole' /\ InstalledIsWhole' /\ NameKeepsAFile'
  BY <1>2 DEF NearbyInv, BackupIsWhole, InstalledIsWhole, NameKeepsAFile
<1>5. SentMeansInstalled'
  BY <1>2 DEF NearbyInv, SentMeansInstalled
<1>. QED
  BY <1>1, <1>3, <1>4, <1>5 DEF NearbyInv

-----------------------------------------------------------------------------
(* finishReceivedFile() *)

LEMMA FinishTalks ==
  ASSUME Finish
  PROVE  /\ UNCHANGED <<senderVars, rSession, keepBoth>> /\ whole \subseteq whole'
         /\ \A p \in air' : \/ p \in air
                            \/ p.session = rSession /\ (p.kind = "Done" => rState' = "Success")
<1>. USE DEF ReceiverFails, ReceiverSays, Packet
<1>1. CASE MoveAside
  BY <1>1 DEF MoveAside
<1>2. CASE Install
  BY <1>2 DEF Install
<1>3. CASE DropOldFile
  BY <1>3 DEF DropOldFile
<1>. QED
  BY <1>1, <1>2, <1>3 DEF Finish

LEMMA FinishFiles ==
  ASSUME NearbyInv, Finish
  PROVE  FinishOK' /\ BackupIsWhole' /\ InstalledIsWhole' /\ NameKeepsAFile'
<1>. USE FilesAreThere
     DEF NearbyInv, FinishOK, BackupIsWhole, InstalledIsWhole, NameKeepsAFile, SessionsOK, SentFiles,
         ReceiverFails
<1>1. CASE MoveAside
  BY <1>1 DEF MoveAside
<1>2. CASE Install
  BY <1>2 DEF Install, PutsBack
<1>3. CASE DropOldFile
  BY <1>3 DEF DropOldFile
<1>. QED
  BY <1>1, <1>2, <1>3 DEF Finish

LEMMA FinishStep == NearbyInv /\ Finish => NearbyInv'
<1> SUFFICES ASSUME NearbyInv, Finish PROVE NearbyInv'
  OBVIOUS
<1>1. FinishOK' /\ BackupIsWhole' /\ InstalledIsWhole' /\ NameKeepsAFile'
  BY FinishFiles
<1>2. UNCHANGED <<sState, session, rSession>> /\ whole \subseteq whole'
  BY FinishTalks DEF senderVars
<1>3. \A p \in air' : \/ p \in air
                      \/ p.session = rSession /\ (p.kind = "Done" => rSession \in whole')
  BY <1>1, <1>2, FinishTalks DEF FinishOK
<1>4. SessionsOK' /\ AirTellsTheTruth' /\ SentMeansInstalled'
  BY <1>2, <1>3 DEF NearbyInv, SessionsOK, AirTellsTheTruth, SentMeansInstalled
<1>. QED
  BY <1>1, <1>4 DEF NearbyInv

-----------------------------------------------------------------------------
(* The theorems *)

LEMMA NearbyInvStep == NearbyInv /\ [NearbyNext]_nearbyVars => NearbyInv'
<1> SUFFICES ASSUME NearbyInv, [NearbyNext]_nearbyVars PROVE NearbyInv'
  OBVIOUS
<1>1. CASE UNCHANGED nearbyVars
  BY <1>1 DEF nearbyVars, senderVars, receiverVars, fileVars, NearbyInv, SessionsOK,
     AirTellsTheTruth, FinishOK, BackupIsWhole, InstalledIsWhole, NameKeepsAFile, SentMeansInstalled
<1>. QED
  BY <1>1, SenderStep, ReceiverStep, FinishStep DEF NearbyNext

LEMMA NearbyInvHolds == NearbySpec => []NearbyInv
BY NearbyInitInv, NearbyInvStep, PTL DEF NearbySpec

\* Chunks that came twice, late or not at all, sessions that were left and power
\* that went: what has a name of its own is the old file or one whole new one.
THEOREM InstalledWhole == NearbySpec => []InstalledIsWhole
BY NearbyInvHolds, PTL DEF NearbyInv

\* The two renames of finishReceivedFile(), the one back and the removal keep
\* the replaced file or its backup on the card.
THEOREM NameKept == NearbySpec => []NameKeepsAFile
BY NearbyInvHolds, PTL DEF NearbyInv

\* Success on the sender's screen is true.
THEOREM SentIsInstalled == NearbySpec => []SentMeansInstalled
BY NearbyInvHolds, PTL DEF NearbyInv
-----------------------------------------------------------------------------
(* The types                                                                *)

PacketKinds(p) == p.from \in {"sender", "receiver"} /\ p.kind \in Kinds

\* A chunk's number is that of a chunk: what a sender sends as data can be taken
\* once more than is held without passing the end of the file.
PacketNumbers(p) ==
  /\ p.session \in SessionIds /\ p.n \in Positions
  /\ p.from = "sender" /\ p.kind = "Data" => p.n < Chunks

AirOK == \A p \in air : PacketKinds(p) /\ PacketNumbers(p)

SenderTypes ==
  /\ sState \in {"off", "WaitingForApproval", "Sending", "Success", "Error"}
  /\ session \in SessionIds /\ chunksAcked \in Positions /\ tries \in Nat

ReceiverTypes ==
  /\ rState \in {"off", "Listening", "OfferPrompt", "Receiving", "Success", "Error"} \cup Finishing
  /\ rSession \in SessionIds
  /\ acceptPending \in BOOLEAN /\ screenDrawn \in BOOLEAN /\ keepBoth \in BOOLEAN
  /\ temp \in Seq(SessionIds \X Positions) /\ Len(temp) \in Positions
  /\ whole \subseteq SessionIds

NearbyTypeInv == AirOK /\ SenderTypes /\ ReceiverTypes

\* What either says is a packet.
LEMMA Says ==
  ASSUME NEW from \in {"sender", "receiver"}, NEW kind \in Kinds, NEW s \in SessionIds,
         NEW n \in Positions, from = "sender" /\ kind = "Data" => n < Chunks
  PROVE  PacketKinds(Packet(from, kind, s, n)) /\ PacketNumbers(Packet(from, kind, s, n))
BY DEF Packet, PacketKinds, PacketNumbers

\* What is waiting to be acknowledged is a chunk or the end of the file.
LEMMA PendingIs ==
  ASSUME session \in SessionIds, NEW n \in Positions
  PROVE  PacketKinds(Pending(n)) /\ PacketNumbers(Pending(n))
BY DEF Pending, SenderSays, Packet, PacketKinds, PacketNumbers, Kinds

\* At first at most a stray packet is on its way, and the receiver has the old file.
LEMMA NearbyTypeInit == NearbyInit => NearbyTypeInv
<1> SUFFICES ASSUME NearbyInit PROVE NearbyTypeInv
  OBVIOUS
<1>1. 0 \in SessionIds /\ 0 \in Positions
  BY NearbyAssumption DEF SessionIds, Positions
<1>2. AirOK
  <2>1. \A p \in air : \E k \in Strays : p = Packet(IF k = "Offer" THEN "sender" ELSE "receiver", k, 0, 0)
    BY DEF NearbyInit
  <2>2. ASSUME NEW k \in Strays
        PROVE  LET p == Packet(IF k = "Offer" THEN "sender" ELSE "receiver", k, 0, 0)
               IN  PacketKinds(p) /\ PacketNumbers(p)
    <3>1. k \in Kinds /\ k # "Data"
      BY NearbyAssumption DEF Kinds
    <3>. QED
      BY <1>1, <3>1, Says
  <2>. QED
    BY <2>1, <2>2 DEF AirOK
<1>3. SenderTypes
  BY <1>1 DEF NearbyInit, SenderTypes
<1>4. <<>> \in Seq(SessionIds \X Positions) /\ Len(<<>>) = 0
  OBVIOUS
<1>5. ReceiverTypes
  BY <1>1, <1>4 DEF NearbyInit, ReceiverTypes, Absent
<1>. QED
  BY <1>2, <1>3, <1>5 DEF NearbyTypeInv

\* The sender's numbers stay in the file and its packets are packets.
LEMMA SenderTypeStep == ASSUME NearbyTypeInv, Sender PROVE NearbyTypeInv'
<1>. USE DEF NearbyTypeInv
<1>1. UNCHANGED receiverVars
  BY DEF Sender, SelectPeer, TakeAccept, TakeReject, TakeAck, TakeResult, TakeCancel, SenderTimer,
     SenderExits
<1>2. ReceiverTypes'
  BY <1>1 DEF ReceiverTypes, receiverVars, fileVars
<1>3. \A k \in {"Offer", "Cancel"} : PacketKinds(SenderSays(k, 0)) /\ PacketNumbers(SenderSays(k, 0))
  BY NearbyAssumption DEF SenderTypes, SenderSays, Packet, PacketKinds, PacketNumbers, Kinds, Positions
<1>4. \A n \in Positions : PacketKinds(Pending(n)) /\ PacketNumbers(Pending(n))
  BY PendingIs DEF SenderTypes
<1>5. 0 \in Positions /\ Chunks \in Nat
  BY NearbyAssumption DEF Positions
<1>6. CASE SelectPeer
  <2>1. session + 1 \in SessionIds
    BY <1>6, NearbyAssumption DEF SelectPeer, SenderTypes, SessionIds
  <2>2. LET p == Packet("sender", "Offer", session + 1, 0) IN PacketKinds(p) /\ PacketNumbers(p)
    BY <1>5, <2>1, Says DEF Kinds
  <2>3. AirOK'
    BY <1>6, <2>2 DEF SelectPeer, AirOK
  <2>4. SenderTypes'
    BY <1>5, <1>6, <2>1 DEF SelectPeer, SenderTypes
  <2>. QED
    BY <1>2, <2>3, <2>4
<1>7. CASE ~SelectPeer
  <2>1. \A p \in air' : p \in air \/ (\E k \in {"Offer", "Cancel"} : p = SenderSays(k, 0))
                                  \/ (\E n \in Positions : p = Pending(n))
    <3>1. CASE TakeAccept
      BY <1>5, <3>1 DEF TakeAccept, SenderFails
    <3>2. CASE TakeReject \/ TakeResult \/ TakeCancel
      BY <3>2 DEF TakeReject, TakeResult, TakeCancel, SenderFails
    <3>3. CASE TakeAck
      <4>1. chunksAcked + 1 \in Positions
        BY <1>5, <3>3 DEF TakeAck, SenderTypes, Positions
      <4>. QED
        BY <3>3, <4>1 DEF TakeAck, SenderFails
    <3>4. CASE SenderTimer
      BY <3>4 DEF SenderTimer, SenderFails, SenderTypes
    <3>5. CASE SenderExits
      BY <3>5 DEF SenderExits
    <3>. QED
      BY <1>7, <3>1, <3>2, <3>3, <3>4, <3>5 DEF Sender
  <2>2. AirOK'
    BY <1>3, <1>4, <2>1 DEF AirOK
  <2>3. SenderTypes'
    <3>. USE DEF SenderTypes, SenderFails
    <3>1. CASE TakeAccept \/ TakeReject \/ TakeResult \/ TakeCancel \/ SenderExits
      BY <3>1 DEF TakeAccept, TakeReject, TakeResult, TakeCancel, SenderExits
    <3>2. CASE TakeAck
      BY <1>5, <3>2 DEF TakeAck, Positions
    <3>3. CASE SenderTimer
      BY <3>3 DEF SenderTimer
    <3>. QED
      BY <1>7, <3>1, <3>2, <3>3 DEF Sender
  <2>. QED
    BY <1>2, <2>2, <2>3
<1>. QED
  BY <1>6, <1>7

\* What the receiver says are packets: its acknowledgement counts what it holds.
LEMMA ReceiverSaysPackets ==
  ASSUME NearbyTypeInv, Receiver, temp' \in Seq(SessionIds \X Positions), Len(temp') \in Positions
  PROVE  AirOK'
<1>. DEFINE Says0 == {"Reject", "Accept", "Cancel", "Failed", "Done"}
<1>1. rSession \in SessionIds /\ Len(temp) \in Positions /\ 0 \in Positions
  BY NearbyAssumption DEF NearbyTypeInv, ReceiverTypes, Positions
<1>2. \A k \in Says0 : PacketKinds(ReceiverSays(k, 0)) /\ PacketNumbers(ReceiverSays(k, 0))
  BY <1>1 DEF ReceiverSays, Packet, PacketKinds, PacketNumbers, Kinds
<1>3. \A n \in Positions : PacketKinds(ReceiverSays("Ack", n)) /\ PacketNumbers(ReceiverSays("Ack", n))
  BY <1>1 DEF ReceiverSays, Packet, PacketKinds, PacketNumbers, Kinds
<1>4. \A p \in air' : p \in air \/ (\E k \in Says0 : p = ReceiverSays(k, 0))
                                \/ (\E n \in Positions : p = ReceiverSays("Ack", n))
  <2>. USE DEF ReceiverFails
  <2>1. CASE StartListening \/ TakeOffer \/ DrawReceiving \/ ReceiverLosesPower
    BY <2>1 DEF StartListening, TakeOffer, DrawReceiving, ReceiverLosesPower
  <2>2. CASE RejectOffer \/ SendPendingAccept \/ RepeatAccept
    BY <2>2 DEF RejectOffer, SendPendingAccept, RepeatAccept
  <2>3. CASE TakeData
    BY <1>1, <2>3 DEF TakeData
  <2>4. CASE TakeComplete
    BY <2>4 DEF TakeComplete
  <2>5. CASE Finish
    BY <2>5 DEF Finish, MoveAside, Install, DropOldFile
  <2>6. CASE HearCancel \/ ReceiveTimeout \/ ReceiverExits
    BY <2>6 DEF HearCancel, ReceiveTimeout, ReceiverExits
  <2>7. CASE \E both \in BOOLEAN : AcceptOffer(both)
    BY <2>7 DEF AcceptOffer
  <2>. QED
    BY <2>1, <2>2, <2>3, <2>4, <2>5, <2>6, <2>7 DEF Receiver
<1>. QED
  BY <1>2, <1>3, <1>4 DEF AirOK, NearbyTypeInv

\* The temporary file holds chunks, and no more of them than a file has.
LEMMA TempStep ==
  ASSUME NearbyTypeInv, Receiver
  PROVE  temp' \in Seq(SessionIds \X Positions) /\ Len(temp') \in Positions
<1>. DEFINE Chunk == SessionIds \X Positions
<1>0. temp \in Seq(Chunk) /\ Len(temp) \in Positions /\ Chunks \in Nat
  BY NearbyAssumption DEF NearbyTypeInv, ReceiverTypes
<1>1. <<>> \in Seq(Chunk) /\ Len(<<>>) \in Positions
  BY NearbyAssumption DEF Positions
<1>2. CASE temp' \in {temp, Absent}
  BY <1>0, <1>1, <1>2 DEF Absent
<1>3. CASE TakeData /\ temp' \notin {temp, Absent}
  <2>1. PICK p \in air : /\ FromPeer(p) /\ p.kind = "Data" /\ IsNext(p.n)
                         /\ temp' = Append(temp, <<p.session, p.n + 1>>)
    BY <1>3 DEF TakeData, ReceiverFails
  <2>2. p.session \in SessionIds /\ p.n \in Positions /\ p.n < Chunks /\ p.n = Len(temp)
    BY <2>1 DEF NearbyTypeInv, AirOK, PacketNumbers, FromPeer, IsNext
  <2>3. p.n + 1 \in Positions
    BY <1>0, <2>2 DEF Positions
  <2>4. <<p.session, p.n + 1>> \in Chunk
    BY <2>2, <2>3
  <2>5. Append(temp, <<p.session, p.n + 1>>) \in Seq(Chunk)
        /\ Len(Append(temp, <<p.session, p.n + 1>>)) = Len(temp) + 1
    BY <1>0, <2>4
  <2>. QED
    BY <2>1, <2>2, <2>3, <2>5
<1>4. ASSUME ~TakeData PROVE temp' \in {temp, Absent}
  <2>. USE DEF ReceiverFails, fileVars
  <2>1. CASE StartListening \/ TakeOffer \/ DrawReceiving \/ ReceiverLosesPower
    BY <2>1 DEF StartListening, TakeOffer, DrawReceiving, ReceiverLosesPower
  <2>2. CASE RejectOffer \/ SendPendingAccept \/ RepeatAccept
    BY <2>2 DEF RejectOffer, SendPendingAccept, RepeatAccept, receiverVars
  <2>3. CASE TakeComplete
    BY <2>3 DEF TakeComplete
  <2>4. CASE Finish
    BY <2>4 DEF Finish, MoveAside, Install, DropOldFile
  <2>5. CASE HearCancel \/ ReceiveTimeout \/ ReceiverExits
    BY <2>5 DEF HearCancel, ReceiveTimeout, ReceiverExits
  <2>6. CASE \E both \in BOOLEAN : AcceptOffer(both)
    BY <2>6 DEF AcceptOffer, Absent
  <2>. QED
    BY <1>4, <2>1, <2>2, <2>3, <2>4, <2>5, <2>6 DEF Receiver
<1>. QED
  BY <1>2, <1>3, <1>4

\* The receiver's session is one of the sender's.
LEMMA ReceiverTypeStep == ASSUME NearbyTypeInv, Receiver PROVE NearbyTypeInv'
<1>. USE DEF ReceiverFails, ReceiverTypes, Finishing, fileVars
<1>0. ReceiverTypes /\ \A p \in air : p.session \in SessionIds
  BY DEF NearbyTypeInv, AirOK, PacketNumbers
<1>1. SenderTypes'
  <2>1. UNCHANGED senderVars
    BY DEF Receiver, StartListening, TakeOffer, DrawReceiving, ReceiverLosesPower, RejectOffer,
       SendPendingAccept, RepeatAccept, TakeData, TakeComplete, Finish, MoveAside, Install,
       DropOldFile, HearCancel, ReceiveTimeout, ReceiverExits, AcceptOffer
  <2>. QED
    BY <2>1 DEF NearbyTypeInv, SenderTypes, senderVars
<1>2. temp' \in Seq(SessionIds \X Positions) /\ Len(temp') \in Positions
  BY TempStep
<1>3. AirOK'
  BY <1>2, ReceiverSaysPackets
<1>4. ReceiverTypes'
  <2>. USE <1>0, <1>2
  <2>1. CASE StartListening \/ TakeOffer \/ DrawReceiving \/ ReceiverLosesPower
    BY <2>1 DEF StartListening, TakeOffer, DrawReceiving, ReceiverLosesPower
  <2>2. CASE RejectOffer \/ SendPendingAccept \/ RepeatAccept
    BY <2>2 DEF RejectOffer, SendPendingAccept, RepeatAccept, receiverVars
  <2>3. CASE TakeData \/ TakeComplete
    BY <2>3 DEF TakeData, TakeComplete
  <2>4. CASE Finish
    BY <2>4 DEF Finish, MoveAside, Install, DropOldFile
  <2>5. CASE HearCancel \/ ReceiveTimeout \/ ReceiverExits
    BY <2>5 DEF HearCancel, ReceiveTimeout, ReceiverExits
  <2>6. CASE \E both \in BOOLEAN : AcceptOffer(both)
    BY <2>6 DEF AcceptOffer
  <2>. QED
    BY <2>1, <2>2, <2>3, <2>4, <2>5, <2>6 DEF Receiver
<1>. QED
  BY <1>1, <1>3, <1>4 DEF NearbyTypeInv

LEMMA NearbyTypeStep == NearbyTypeInv /\ [NearbyNext]_nearbyVars => NearbyTypeInv'
<1> SUFFICES ASSUME NearbyTypeInv, [NearbyNext]_nearbyVars PROVE NearbyTypeInv'
  OBVIOUS
<1>1. CASE UNCHANGED nearbyVars
  BY <1>1 DEF nearbyVars, senderVars, receiverVars, fileVars, NearbyTypeInv, AirOK, SenderTypes,
     ReceiverTypes
<1>. QED
  BY <1>1, SenderTypeStep, ReceiverTypeStep DEF NearbyNext

\* However packets are repeated and reordered, the receiver never holds more of a
\* file than the file, and the sender never counts past its end.
THEOREM NearbyTypes == NearbySpec => []NearbyTypeOK
<1>1. NearbyTypeInv => NearbyTypeOK
  BY DEF NearbyTypeInv, AirOK, PacketKinds, PacketNumbers, SenderTypes, ReceiverTypes, NearbyTypeOK
<1>. QED
  BY <1>1, NearbyTypeInit, NearbyTypeStep, PTL DEF NearbySpec
=============================================================================
