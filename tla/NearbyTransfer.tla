--------------------------- MODULE NearbyTransfer ---------------------------
(***************************************************************************)
(* Sending a file to a reader nearby (NearbyBookTransferActivity): the     *)
(* same activity on two devices, as sender and as receiver, over a radio   *)
(* that loses, repeats, delays and reorders packets.  `air` holds every    *)
(* packet ever sent and any of them may arrive, any number of times.       *)
(*                                                                         *)
(* The sender has found the receiver; discovery only fills its list.  Each *)
(* entry of its screen draws a new session.  The receiver may be left and  *)
(* entered again, and lose power, while packets of before are on their way.*)
(* The SDK's codec, session counters and transport are modelled from their *)
(* use here.                                                               *)
(***************************************************************************)
EXTENDS Integers, Sequences

CONSTANTS
  Sessions,       \* entries of the sender's screen
  Chunks,         \* of a file
  MaxRetries, MaxApprovals,    \* MAX_RETRIES, MAX_APPROVAL_RETRIES
  Strays          \* kinds of packets of an earlier session of which one may be on its way

ASSUME NearbyAssumption ==
  /\ Sessions \in Nat \ {0} /\ Chunks \in Nat \ {0}
  /\ MaxRetries \in Nat /\ MaxApprovals \in Nat
  /\ Strays \subseteq {"Offer", "Accept", "Done", "Failed", "Cancel"}

SessionIds == 0..Sessions     \* 0 is over
Positions == 0..Chunks        \* sequence numbers; Chunks ends the file
Absent == <<>>
Old == <<<<-1, 1>>>>          \* the file that had the name

\* The file of a session, by its chunks; every session sends a file of its own.
File(s) == [i \in 1..Chunks |-> <<s, i>>]

Finishing == {"moving", "installing", "replacing", "dropping"}

VARIABLES
  air,
  \* the sender
  sState, session,    \* "off", WaitingForApproval, Sending, Success, Error
  chunksAcked,              \* session_.nextSequence()
  tries,            \* retryCount_
  \* the receiver
  rState,             \* "off", ..., and in finishReceivedFile()
  rSession,           \* sessionId_
  acceptPending, screenDrawn,   \* screenDrawn: receivingScreenDrawn_
  temp,               \* what receiveFile_ holds
  keepBoth,           \* finalPath_ is a new name
  book, copy, backup, \* the files: the offered name, the new name, .crossink-backup
  whole               \* history: the sessions whose file was put in place

senderVars == <<sState, session, chunksAcked, tries>>
fileVars == <<temp, book, copy, backup, whole>>
receiverVars == <<rState, rSession, acceptPending, screenDrawn, keepBoth, fileVars>>
nearbyVars == <<air, senderVars, receiverVars>>

Packet(from, kind, s, n) == [from |-> from, kind |-> kind, session |-> s, n |-> n]
SenderSays(kind, n) == Packet("sender", kind, session, n)
ReceiverSays(kind, n) == Packet("receiver", kind, rSession, n)

-----------------------------------------------------------------------------
(* The sender *)

BrokenMine(p) == p.from = "receiver"
\* handlePacket() of a sender: its own session, from the peer it chose.
Mine(p) == p.from = "receiver" /\ p.session = session

\* setError() calls cancelTransfer().
SenderFails ==
  /\ sState' = "Error" /\ air' = air \cup {SenderSays("Cancel", 0)}

\* startDiscovery() and, a receiver being listed, selectPeer().
SelectPeer ==
  /\ sState = "off" /\ session < Sessions
  /\ session' = session + 1 /\ sState' = "WaitingForApproval" /\ tries' = 0
  /\ chunksAcked' = 0
  /\ air' = air \cup {Packet("sender", "Offer", session + 1, 0)}
  /\ UNCHANGED receiverVars

\* sendNextChunk(), resendPending() or sendComplete(), by what is acknowledged.
Pending(n) == IF n < Chunks THEN SenderSays("Data", n) ELSE SenderSays("Complete", n)

TakeAccept ==
  /\ sState = "WaitingForApproval"
  /\ \E p \in air : Mine(p) /\ p.kind = "Accept"
  /\ \/ sState' = "Sending" /\ tries' = 0 /\ air' = air \cup {Pending(0)}
     \/ SenderFails /\ UNCHANGED tries       \* the source cannot be opened
  /\ UNCHANGED <<session, chunksAcked, receiverVars>>

TakeReject ==
  /\ sState = "WaitingForApproval"
  /\ \E p \in air : Mine(p) /\ p.kind = "Reject"
  /\ SenderFails
  /\ UNCHANGED <<session, chunksAcked, tries, receiverVars>>

\* acceptAcknowledgement() takes the one number that follows.
TakeAck ==
  /\ sState = "Sending" /\ chunksAcked < Chunks
  /\ \E p \in air : Mine(p) /\ p.kind = "Ack" /\ p.n = chunksAcked + 1
  /\ chunksAcked' = chunksAcked + 1
  /\ \/ tries' = 0 /\ air' = air \cup {Pending(chunksAcked + 1)} /\ UNCHANGED sState
     \/ chunksAcked + 1 < Chunks /\ SenderFails /\ tries' = 0     \* the source cannot be read
  /\ UNCHANGED <<session, receiverVars>>

TakeResult ==
  /\ sState = "Sending"
  /\ \E p \in air :
       /\ Mine(p)
       /\ \/ p.kind = "Done" /\ sState' = "Success" /\ UNCHANGED air
          \/ p.kind = "Failed" /\ SenderFails
  /\ UNCHANGED <<session, chunksAcked, tries, receiverVars>>

\* In any state.
TakeCancel ==
  /\ sState # "off"
  /\ \E p \in air : Mine(p) /\ p.kind = "Cancel"
  /\ SenderFails
  /\ UNCHANGED <<session, chunksAcked, tries, receiverVars>>

\* updateTimers(): WaitingForApproval and Sending.  sendComplete() starts the count
\* again, also when it is the timer that calls it: a Complete is repeated for ever.
SenderTimer ==
  /\ sState \in {"WaitingForApproval", "Sending"}
  /\ LET max == IF sState = "Sending" THEN MaxRetries ELSE MaxApprovals IN
     IF tries >= max
     THEN SenderFails /\ UNCHANGED tries
     ELSE /\ tries' = IF sState = "Sending" /\ chunksAcked = Chunks THEN 0 ELSE tries + 1
          /\ air' = air \cup {IF sState = "Sending" THEN Pending(chunksAcked) ELSE SenderSays("Offer", 0)}
          /\ UNCHANGED sState
  /\ UNCHANGED <<session, chunksAcked, receiverVars>>

\* exitAfterRadio()
SenderExits ==
  /\ sState # "off" /\ sState' = "off"
  /\ air' = IF sState \in {"WaitingForApproval", "Sending"}
            THEN air \cup {SenderSays("Cancel", 0)} ELSE air
  /\ UNCHANGED <<session, chunksAcked, tries, receiverVars>>

-----------------------------------------------------------------------------
(* The receiver *)

\* Its peer is set with the offer and forgotten with startListening().
FromPeer(p) == rState \notin {"off", "Listening"} /\ p.from = "sender" /\ p.session = rSession

\* setError(): the temporary file goes.
ReceiverFails(said) ==
  /\ rState' = "Error" /\ acceptPending' = FALSE /\ screenDrawn' = FALSE /\ temp' = Absent
  /\ air' = air \cup {ReceiverSays("Cancel", 0)} \cup said

StartListening ==
  /\ rState = "off" /\ rState' = "Listening"
  /\ UNCHANGED <<air, senderVars, rSession, acceptPending, screenDrawn, keepBoth, fileVars>>

TakeOffer ==
  /\ rState = "Listening"
  /\ \E p \in air : p.kind = "Offer" /\ rSession' = p.session
  /\ rState' = "OfferPrompt"
  /\ UNCHANGED <<air, senderVars, acceptPending, screenDrawn, keepBoth, fileVars>>

\* The offer is declined, on the first prompt or on the one about the name.
RejectOffer ==
  /\ rState = "OfferPrompt" /\ rState' = "Listening"
  /\ air' = air \cup {ReceiverSays("Reject", 0)}
  /\ UNCHANGED <<senderVars, rSession, acceptPending, screenDrawn, keepBoth, fileVars>>

\* acceptOffer(): a name that exists is replaced or kept beside a new one.
AcceptOffer(both) ==
  /\ rState = "OfferPrompt"
  /\ both => book # Absent
  /\ keepBoth' = both
  /\ \/ /\ rState' = "Receiving" /\ temp' = <<>> /\ acceptPending' = TRUE /\ screenDrawn' = FALSE
        /\ UNCHANGED air
     \/ ReceiverFails({ReceiverSays("Reject", 0)})      \* no room on the card
     \/ ReceiverFails({})                               \* the file cannot be opened
  /\ copy' = IF both THEN Absent ELSE copy
  /\ UNCHANGED <<senderVars, rSession, book, backup, whole>>

DrawReceiving ==     \* the render task
  /\ rState = "Receiving" /\ ~screenDrawn /\ screenDrawn' = TRUE
  /\ UNCHANGED <<air, senderVars, rState, rSession, acceptPending, keepBoth, fileVars>>

SendPendingAccept ==
  /\ acceptPending /\ screenDrawn
  /\ \/ /\ acceptPending' = FALSE
        /\ air' = air \cup {ReceiverSays("Accept", 0)}
        /\ UNCHANGED <<rState, screenDrawn, temp>>
     \/ ReceiverFails({})                               \* it could not be sent
  /\ UNCHANGED <<senderVars, rSession, keepBoth, book, copy, backup, whole>>

\* The sender has not heard the acceptance.
RepeatAccept ==
  /\ rState = "Receiving" /\ ~acceptPending
  /\ \E p \in air : FromPeer(p) /\ p.kind = "Offer"
  /\ air' = air \cup {ReceiverSays("Accept", 0)}
  /\ UNCHANGED <<senderVars, receiverVars>>

IsNext(n) == n = Len(temp)

TakeData ==
  /\ rState = "Receiving"
  /\ \E p \in air :
       /\ FromPeer(p) /\ p.kind = "Data"
       /\ IF IsNext(p.n)
          THEN \/ /\ temp' = Append(temp, <<p.session, p.n + 1>>)
                  /\ air' = air \cup {ReceiverSays("Ack", Len(temp'))}
                  /\ UNCHANGED <<rState, acceptPending, screenDrawn>>
               \/ ReceiverFails({ReceiverSays("Failed", 0)})    \* the card is full
          ELSE /\ air' = air \cup {ReceiverSays("Ack", Len(temp))}
               /\ UNCHANGED <<rState, acceptPending, screenDrawn, temp>>
  /\ UNCHANGED <<senderVars, rSession, keepBoth, book, copy, backup, whole>>

BrokenVerified(s) == TRUE
\* Sizes and checksum agree with what the sender read of its file.
Verified(s) == temp = File(s)

\* Complete, up to the first rename.
TakeComplete ==
  /\ rState \in {"Receiving", "Success"}
  /\ \E p \in air : FromPeer(p) /\ p.kind = "Complete"
  /\ IF rState = "Success"
     THEN air' = air \cup {ReceiverSays("Done", 0)} /\ UNCHANGED <<rState, acceptPending, screenDrawn, temp>>
     ELSE \/ Verified(rSession) /\ rState' = "moving" /\ UNCHANGED <<air, acceptPending, screenDrawn, temp>>
          \/ ReceiverFails({ReceiverSays("Failed", 0)})   \* it is not, or the card fails
  /\ UNCHANGED <<senderVars, rSession, keepBoth, book, copy, backup, whole>>

\* finishReceivedFile(): what stands in the way goes aside, the new file takes
\* its name, the old one goes; no packet is handled in between.
MoveAside ==
  /\ rState = "moving"
  /\ IF keepBoth \/ book = Absent
     THEN rState' = "installing" /\ UNCHANGED <<air, acceptPending, screenDrawn, temp, book, backup>>
     ELSE \/ /\ rState' = "replacing" /\ backup' = book /\ book' = Absent
             /\ UNCHANGED <<air, acceptPending, screenDrawn, temp>>
          \/ /\ ReceiverFails({ReceiverSays("Failed", 0)}) /\ UNCHANGED book
             /\ backup' \in {backup, Absent}
  /\ UNCHANGED <<senderVars, rSession, keepBoth, copy, whole>>

BrokenPutsBack == book' = book /\ backup' = Absent
\* A failed replacement is undone, if the card lets it.
PutsBack ==
  \/ rState = "replacing" /\ book' = backup /\ backup' = Absent
  \/ UNCHANGED <<book, backup>>

Install ==
  /\ rState \in {"installing", "replacing"}
  /\ \/ /\ IF keepBoth THEN copy' = temp /\ UNCHANGED book
                       ELSE book' = temp /\ UNCHANGED copy
        /\ temp' = Absent /\ whole' = whole \cup {rSession}
        /\ IF rState = "replacing"
           THEN rState' = "dropping" /\ UNCHANGED air
           ELSE rState' = "Success" /\ air' = air \cup {ReceiverSays("Done", 0)}
        /\ UNCHANGED <<acceptPending, screenDrawn, backup>>
     \/ ReceiverFails({ReceiverSays("Failed", 0)}) /\ PutsBack /\ UNCHANGED <<copy, whole>>
  /\ UNCHANGED <<senderVars, rSession, keepBoth>>

DropOldFile ==
  /\ rState = "dropping" /\ rState' = "Success"
  /\ backup' \in {backup, Absent}
  /\ air' = air \cup {ReceiverSays("Done", 0)}
  /\ UNCHANGED <<senderVars, rSession, acceptPending, screenDrawn, keepBoth, temp, book, copy, whole>>

\* Cancel, in any state that has a peer.
HearCancel ==
  /\ rState \notin Finishing
  /\ \E p \in air : FromPeer(p) /\ p.kind = "Cancel"
  /\ ReceiverFails({})
  /\ UNCHANGED <<senderVars, rSession, keepBoth, book, copy, backup, whole>>

ReceiveTimeout ==
  /\ rState = "Receiving"
  /\ ReceiverFails({})
  /\ UNCHANGED <<senderVars, rSession, keepBoth, book, copy, backup, whole>>

ReceiverExits ==
  /\ rState \in {"Listening", "Receiving", "Success", "Error"} /\ rState' = "off"
  /\ IF rState = "Receiving"
     THEN temp' = Absent /\ air' = air \cup {ReceiverSays("Cancel", 0)}
     ELSE UNCHANGED <<temp, air>>
  /\ acceptPending' = FALSE /\ screenDrawn' = FALSE
  /\ UNCHANGED <<senderVars, rSession, keepBoth, book, copy, backup, whole>>

ReceiverLosesPower ==
  /\ rState # "off" /\ rState' = "off"
  /\ acceptPending' = FALSE /\ screenDrawn' = FALSE
  /\ UNCHANGED <<air, senderVars, rSession, keepBoth, fileVars>>

-----------------------------------------------------------------------------
NearbyInit ==
  /\ air \in {{}} \cup {{Packet(IF k = "Offer" THEN "sender" ELSE "receiver", k, 0, 0)} : k \in Strays}
  /\ sState = "off" /\ session = 0 /\ chunksAcked = 0 /\ tries = 0
  /\ rState = "off" /\ rSession = 0 /\ acceptPending = FALSE /\ screenDrawn = FALSE /\ keepBoth = FALSE
  /\ temp = Absent /\ book = Old /\ copy = Absent /\ backup = Absent /\ whole = {}

Sender ==
  \/ SelectPeer \/ TakeAccept \/ TakeReject \/ TakeAck \/ TakeResult \/ TakeCancel
  \/ SenderTimer \/ SenderExits
Finish == MoveAside \/ Install \/ DropOldFile
Receiver ==
  \/ StartListening \/ TakeOffer \/ RejectOffer \/ DrawReceiving \/ SendPendingAccept
  \/ RepeatAccept \/ TakeData \/ TakeComplete \/ Finish \/ HearCancel \/ ReceiveTimeout
  \/ ReceiverExits \/ ReceiverLosesPower \/ \E both \in BOOLEAN : AcceptOffer(both)

NearbyNext == Sender \/ Receiver

NearbySpec == NearbyInit /\ [][NearbyNext]_nearbyVars

-----------------------------------------------------------------------------
(* Properties *)

Kinds == {"Offer", "Accept", "Reject", "Data", "Ack", "Complete", "Done", "Failed", "Cancel"}

NearbyTypeOK ==
  /\ \A p \in air : p.from \in {"sender", "receiver"} /\ p.kind \in Kinds
                   /\ p.session \in SessionIds /\ p.n \in Positions
  /\ sState \in {"off", "WaitingForApproval", "Sending", "Success", "Error"}
  /\ session \in SessionIds /\ chunksAcked \in Positions /\ tries \in Nat
  /\ rState \in {"off", "Listening", "OfferPrompt", "Receiving", "Success", "Error"} \cup Finishing
  /\ rSession \in SessionIds /\ {acceptPending, screenDrawn, keepBoth} \subseteq BOOLEAN
  /\ Len(temp) \in Positions /\ whole \subseteq SessionIds

\* What stands under a name of its own is the old file or all of a new one, of
\* one session, however the chunks came and wherever the power went.
InstalledIsWhole ==
  /\ book \in {Absent, Old} \cup {File(s) : s \in SessionIds}
  /\ copy \in {Absent} \cup {File(s) : s \in SessionIds}

\* A name the receiver had a file under never ends up with none on the card: the
\* file itself or its backup is there at every moment of the exchange.
NameKeepsAFile == book = Absent => backup # Absent

\* A sender that says the file was sent has had this session's file put in place.
SentMeansInstalled == sState = "Success" => session \in whole
=============================================================================
