-------------------------- MODULE EnrollmentProofs --------------------------
(***************************************************************************)
(* No identification is enrolled twice and none is lost, for any number of *)
(* devices, of failures and of restarts of either side, and whatever the   *)
(* other server writes to the file.                                        *)
(***************************************************************************)
EXTENDS Enrollment, FunctionTheorems, SequenceTheorems, TLAPS

\* Some device has stored the identification that the server sent it, and the
\* server may still learn of it: it will be confirmed, or the confirmation is
\* on its way.
Confirming(d) == pc[d] = "confirm" /\ link[d] = "handshake"

InFlight ==
    IF toServer.command = "confirm" \/ \E d \in Devices : Confirming(d)
    THEN {remoteID} ELSE {}

\* One connection at a time is in the handshake, and on it one packet.
ChannelInv ==
    /\ \A d \in Devices : link[d] = "handshake" => peer = d /\ serverPc # "accept"
    /\ toDevice.command # "none" => toServer.command = "none"
    /\ toDevice.command = "renew" => serverPc = "renew" /\ toDevice.id = remoteID
    /\ toServer.command = "confirm" => serverPc = "renew" /\ toServer.id = remoteID
    /\ serverPc \in {"accept", "push"} => toServer.command = "none"
    /\ serverPc = "push" => toDevice.command = "none"
    /\ serverPc # "accept" => peer \in Devices
    /\ \A d \in Devices : pc[d] = "confirm" => link[d] # "pending"
    /\ \A d \in Devices : Confirming(d) =>
          /\ serverPc = "renew" /\ idDevice[d] = remoteID
          /\ toDevice.command = "none" /\ toServer.command = "none"

\* What the server has offered is free, what it has written is known to it, and
\* the server of the sensors finds all of that in the file.
OfferInv ==
    /\ serverPc \in {"renew", "push"}
          => IsValidID(remoteID) /\ remoteID \notin Range(registered)
    /\ \A id \in Range(enrolled) :
          id \in Range(registered) \/ (serverPc = "push" /\ id = remoteID)
    /\ \A id \in Range(enrolled) : IsValidID(id)
    /\ server = "sensors" => Range(enrolled) \subseteq Range(file) /\ forgotten = {}

\* What a device has stored has its register, may still get it, or is lost.
StoredInv ==
    /\ \A d \in Devices : pc[d] = "renew" => ~IsValidID(idDevice[d])
    /\ \A d \in Devices : IsValidID(idDevice[d]) =>
          idDevice[d] \in Range(enrolled) \cup forgotten \cup InFlight \cup unregistered
    /\ \A id \in Range(enrolled) \cup InFlight : \E d \in Devices : idDevice[d] = id

EnrollmentInv ==
    /\ TypeOK
    /\ ChannelInv
    /\ OfferInv
    /\ StoredInv
    /\ EnrolledOnce
    /\ SharedOnlyIfUnregistered

-----------------------------------------------------------------------------
(* Sequences. *)

LEMMA RangeOfAppend ==
    ASSUME NEW S, NEW s \in Seq(S), NEW x \in S
    PROVE  /\ Range(Append(s, x)) = Range(s) \cup {x}
           /\ x \notin Range(s) /\ IsInjective(s) => IsInjective(Append(s, x))
  <1>1. /\ DOMAIN s = 1 .. Len(s) /\ Len(s) \in Nat
        /\ DOMAIN Append(s, x) = 1 .. Len(s) + 1
        /\ \A i \in 1 .. Len(s) : Append(s, x)[i] = s[i]
        /\ Append(s, x)[Len(s) + 1] = x
    BY AppendProperties, LenProperties
  <1>2. 1 .. Len(s) + 1 = (1 .. Len(s)) \cup {Len(s) + 1}
    BY <1>1
  <1>3. Range(Append(s, x)) = Range(s) \cup {x}
    BY <1>1, <1>2 DEF Range
  <1>4. ASSUME x \notin Range(s), IsInjective(s)
        PROVE  IsInjective(Append(s, x))
    BY <1>1, <1>2, <1>4 DEF Range, IsInjective
  <1> QED BY <1>3, <1>4

LEMMA RangeOfReload ==
    ASSUME NEW f \in Seq(Nat)
    PROVE  /\ Reload(f) \in Seq(Nat)
           /\ server # "alarms" => Range(f) \subseteq Range(Reload(f))
  <1>1. CASE f = <<>> \/ server = "alarms"
    BY <1>1, EmptySeq DEF Reload, Range
  <1>2. CASE ~(f = <<>> \/ server = "alarms")
    BY <1>2, RangeOfAppend, AppendProperties DEF Reload
  <1> QED BY <1>1, <1>2

-----------------------------------------------------------------------------
LEMMA EnrollmentInit == Init => EnrollmentInv
  <1> SUFFICES ASSUME Init PROVE EnrollmentInv
    OBVIOUS
  <1> USE DEF Init, Nothing, BlankID, IDs, IsValidID
  <1>1. TypeOK
    <2>1. toDevice \in [command : {"none", "ack", "renew"}, id : Nat]
      OBVIOUS
    <2>2. toServer \in [command : {"none", "hello", "confirm"}, id : IDs]
      OBVIOUS
    <2>3. registered \in Seq(Nat) /\ file \in Seq(Nat) /\ enrolled \in Seq(Nat)
      BY EmptySeq
    <2> QED BY <2>1, <2>2, <2>3, EnrollmentAssumption DEF TypeOK
  <1>2. Range(enrolled) = {} /\ InFlight = {}
    BY DEF Range, InFlight, Confirming
  <1>3. ChannelInv /\ OfferInv /\ StoredInv
    BY <1>2, EnrollmentAssumption DEF ChannelInv, OfferInv, StoredInv, Confirming
  <1>4. EnrolledOnce /\ SharedOnlyIfUnregistered
    BY DEF EnrolledOnce, SharedOnlyIfUnregistered, IsInjective
  <1> QED BY <1>1, <1>3, <1>4 DEF EnrollmentInv

-----------------------------------------------------------------------------
(* Steps that leave every identification where it is. *)

LEMMA IDsUnmoved ==
    ASSUME EnrollmentInv,
           UNCHANGED <<server, idDevice>>,
           enrolled' = enrolled \/ enrolled' = <<>>,
           Range(enrolled) \cup forgotten \subseteq Range(enrolled)' \cup forgotten',
           forgotten \subseteq forgotten',
           unregistered \subseteq unregistered',
           InFlight \subseteq InFlight' \cup unregistered',
           InFlight' \subseteq InFlight,
           \A d \in Devices : pc'[d] = "renew" => pc[d] = "renew" \/ ~IsValidID(idDevice[d])
    PROVE  StoredInv' /\ EnrolledOnce' /\ SharedOnlyIfUnregistered'
  <1>1. Range(enrolled)' \subseteq Range(enrolled)
    BY DEF Range
  <1>2. StoredInv
    BY DEF EnrollmentInv
  <1>3. \A d \in Devices : IsValidID(idDevice[d]) =>
          idDevice'[d] \in Range(enrolled)' \cup forgotten' \cup InFlight' \cup unregistered'
    BY <1>2 DEF StoredInv
  <1>4. \A id \in Range(enrolled)' \cup InFlight' : \E d \in Devices : idDevice'[d] = id
    BY <1>1, <1>2 DEF StoredInv
  <1>5. \A d \in Devices : pc'[d] = "renew" => ~IsValidID(idDevice[d])'
    BY <1>2 DEF StoredInv, IsValidID
  <1>6. StoredInv'
    BY <1>3, <1>4, <1>5 DEF StoredInv, IsValidID
  <1>7. EnrolledOnce'
    BY DEF EnrollmentInv, EnrolledOnce, IsInjective
  <1>8. SharedOnlyIfUnregistered'
    BY DEF EnrollmentInv, SharedOnlyIfUnregistered, IsValidID
  <1> QED BY <1>6, <1>7, <1>8

\* What a failure loses is what was in flight.
LEMMA LossIsInFlight ==
    ASSUME EnrollmentInv
    PROVE  /\ LostConfirmation \subseteq InFlight
           /\ \A d \in Devices : Unconfirmed(d) \subseteq InFlight
           /\ InFlight \subseteq LostConfirmation \cup UNION {Unconfirmed(d) : d \in Devices}
           /\ \A d \in Devices : link[d] = "handshake"
                 => InFlight \subseteq LostConfirmation \cup Unconfirmed(d)
           /\ InFlight \subseteq Nat
           /\ InFlight # {} => InFlight = {remoteID} /\ serverPc = "renew"
  <1>1. TypeOK /\ ChannelInv /\ OfferInv
    BY DEF EnrollmentInv
  <1>2. toServer.command = "confirm" => LostConfirmation = {remoteID}
    BY <1>1 DEF LostConfirmation, ChannelInv
  <1>3. toServer.command # "confirm" => LostConfirmation = {}
    BY DEF LostConfirmation
  <1>4. \A d \in Devices : Unconfirmed(d) = IF Confirming(d) THEN {remoteID} ELSE {}
    BY <1>1 DEF Unconfirmed, Confirming, ChannelInv
  <1>5. \A d, e \in Devices : link[d] = "handshake" /\ Confirming(e) => d = e
    BY <1>1 DEF ChannelInv, Confirming
  <1>6. InFlight # {} => InFlight = {remoteID} /\ serverPc = "renew"
    BY <1>1 DEF InFlight, ChannelInv
  <1>7. InFlight \subseteq Nat
    BY <1>1, <1>6 DEF OfferInv, IsValidID, TypeOK, IDs, BlankID
  <1>8. \A d \in Devices : link[d] = "handshake"
           => InFlight \subseteq LostConfirmation \cup Unconfirmed(d)
    BY <1>2, <1>4, <1>5 DEF InFlight
  <1>9. InFlight \subseteq LostConfirmation \cup UNION {Unconfirmed(d) : d \in Devices}
    BY <1>2, <1>4 DEF InFlight
  <1>10. /\ LostConfirmation \subseteq InFlight
         /\ \A d \in Devices : Unconfirmed(d) \subseteq InFlight
    BY <1>2, <1>3, <1>4 DEF InFlight
  <1> QED BY <1>6, <1>7, <1>8, <1>9, <1>10

-----------------------------------------------------------------------------
(* The device. *)

\* The steps that store nothing and are no failure.
QuietStep(d) == PowerOn(d) \/ StartComm(d) \/ RecvAck(d) \/ GiveUp(d) \/ Reconnect(d)

LEMMA QuietStepInv ==
    ASSUME EnrollmentInv, NEW d \in Devices, QuietStep(d)
    PROVE  EnrollmentInv'
  <1>1. TypeOK /\ ChannelInv /\ OfferInv
    BY DEF EnrollmentInv
  <1>2. /\ UNCHANGED <<server, idDevice, file, registered, enrolled, forgotten, unregistered,
                       serverPc, peer, remoteID, halfOpen>>
        /\ \A e \in Devices : link'[e] = "handshake" => link[e] = "handshake"
        /\ link' \in [Devices -> {"none", "pending", "handshake", "served"}]
        /\ pc' \in [Devices -> {"off", "connect", "ack", "renew", "confirm", "connected"}]
        /\ pc[d] # "confirm" /\ pc'[d] # "confirm"
        /\ \A e \in Devices : e # d => pc'[e] = pc[e] /\ link'[e] = link[e]
    BY <1>1 DEF QuietStep, PowerOn, StartComm, RecvAck, GiveUp, Reconnect, registryVars,
       handshakeVars, historyVars, TypeOK
  <1>3. \/ toDevice' = toDevice /\ toServer' = toServer
        \/ /\ toDevice.command = "ack" /\ toDevice' = Nothing
           /\ toServer' = Hello(idDevice[d]) /\ link[d] = "handshake"
    BY DEF QuietStep, PowerOn, StartComm, RecvAck, Arrived, GiveUp, Reconnect, handshakeVars
  <1>4. /\ toDevice' \in [command : {"none", "ack", "renew"}, id : Nat]
        /\ toServer' \in [command : {"none", "hello", "confirm"}, id : IDs]
    BY <1>1, <1>3 DEF TypeOK, Nothing, Hello
  <1>5. TypeOK'
    BY <1>1, <1>2, <1>4 DEF TypeOK
  <1>6. \A e \in Devices : Confirming(e)' <=> Confirming(e)
    BY <1>2 DEF Confirming
  <1>7. InFlight' = InFlight
    <2>1. toDevice.command = "ack" => toServer.command = "none"
      BY <1>1 DEF ChannelInv
    <2> QED BY <1>2, <1>3, <1>6, <2>1 DEF InFlight, Hello
  <1>8. ChannelInv'
    <2>1. /\ toDevice'.command # "none" => toServer'.command = "none"
          /\ toDevice'.command = "renew" => serverPc = "renew" /\ toDevice'.id = remoteID
          /\ toServer'.command = "confirm" => serverPc = "renew" /\ toServer'.id = remoteID
          /\ serverPc \in {"accept", "push"} => toServer'.command = "none"
          /\ serverPc = "push" => toDevice'.command = "none"
      BY <1>1, <1>3 DEF ChannelInv, Nothing, Hello
    <2>2. ASSUME NEW e \in Devices, Confirming(e)
          PROVE  /\ serverPc = "renew" /\ idDevice[e] = remoteID
                 /\ toDevice'.command = "none" /\ toServer'.command = "none"
      BY <1>1, <1>3, <2>2 DEF ChannelInv
    <2>3. \A e \in Devices : pc'[e] = "confirm" => link'[e] # "pending"
      BY <1>1, <1>2 DEF ChannelInv
    <2> QED BY <1>1, <1>2, <1>6, <2>1, <2>2, <2>3 DEF ChannelInv
  <1>9. OfferInv'
    BY <1>1, <1>2 DEF OfferInv, Range
  <1>10. \A e \in Devices : pc'[e] = "renew" => pc[e] = "renew" \/ ~IsValidID(idDevice[e])
    BY <1>1 DEF QuietStep, PowerOn, StartComm, RecvAck, GiveUp, Reconnect, TypeOK
  <1>11. StoredInv' /\ EnrolledOnce' /\ SharedOnlyIfUnregistered'
    BY <1>2, <1>7, <1>10, IDsUnmoved
  <1> QED BY <1>5, <1>8, <1>9, <1>11 DEF EnrollmentInv

\* EEPROM.put: what the server offered is free, so no other device has it
\* unless that one got no register for it, or its register is forgotten.
LEMMA StoreInv ==
    ASSUME EnrollmentInv, NEW d \in Devices, RecvRenew(d)
    PROVE  /\ EnrollmentInv'
           /\ ~IsValidID(idDevice[d]) /\ IsValidID(remoteID) /\ remoteID \in Nat
           /\ remoteID \notin Range(enrolled)
           /\ InFlight = {}
           /\ idDevice' = [idDevice EXCEPT ![d] = remoteID]
  <1>1. TypeOK /\ ChannelInv /\ OfferInv /\ StoredInv
    BY DEF EnrollmentInv
  <1>2. /\ pc[d] = "renew" /\ toDevice.command = "renew" /\ toDevice' = Nothing
        /\ link[d] = "handshake"
        /\ UNCHANGED <<server, file, registered, enrolled, forgotten, unregistered, link,
                       serverPc, peer, remoteID, toServer, halfOpen>>
        /\ idDevice' = [idDevice EXCEPT ![d] = toDevice.id]
        /\ pc' = [pc EXCEPT ![d] = "confirm"]
    BY DEF RecvRenew, Arrived, registryVars, historyVars
  <1>3. /\ serverPc = "renew" /\ toDevice.id = remoteID /\ toServer.command = "none"
        /\ IsValidID(remoteID) /\ remoteID \notin Range(enrolled)
        /\ remoteID \notin Range(registered)
        /\ \A e \in Devices : ~Confirming(e)
    BY <1>1, <1>2 DEF ChannelInv, OfferInv
  <1>4. /\ idDevice \in [Devices -> IDs] /\ remoteID \in Nat
        /\ pc \in [Devices -> {"off", "connect", "ack", "renew", "confirm", "connected"}]
    BY <1>1, <1>3 DEF TypeOK, IDs, BlankID, IsValidID
  <1>5. /\ idDevice'[d] = remoteID /\ pc'[d] = "confirm"
        /\ \A e \in Devices : e # d => idDevice'[e] = idDevice[e] /\ pc'[e] = pc[e]
    BY <1>2, <1>3, <1>4
  <1>6. /\ Confirming(d)'
        /\ \A e \in Devices : Confirming(e)' => e = d
    BY <1>2, <1>3, <1>5 DEF Confirming
  <1>7. InFlight = {} /\ InFlight' = {remoteID} /\ Range(enrolled)' = Range(enrolled)
    BY <1>2, <1>3, <1>6 DEF InFlight, Range
  <1>8. TypeOK'
    BY <1>1, <1>2, <1>3, <1>4 DEF TypeOK, Nothing, IDs
  <1>9. ChannelInv'
    <2>1. /\ toDevice'.command = "none" /\ toServer'.command = "none" /\ serverPc' = "renew"
          /\ peer' = peer /\ link' = link
      BY <1>2, <1>3 DEF Nothing
    <2>2. \A e \in Devices : pc'[e] = "confirm" => link'[e] # "pending"
      BY <1>1, <1>2, <1>5 DEF ChannelInv
    <2>3. \A e \in Devices : Confirming(e)' => idDevice'[e] = remoteID'
      BY <1>2, <1>5, <1>6
    <2> QED BY <1>1, <1>2, <1>3, <2>1, <2>2, <2>3 DEF ChannelInv
  <1>10. OfferInv' /\ EnrolledOnce'
    BY <1>1, <1>2 DEF OfferInv, Range, EnrollmentInv, EnrolledOnce, IsInjective
  <1>11. ~IsValidID(idDevice[d])
    BY <1>1, <1>2 DEF StoredInv
  <1>12. StoredInv'
    <2>1. \A e \in Devices : pc'[e] = "renew" => ~IsValidID(idDevice'[e])
      BY <1>1, <1>5 DEF StoredInv
    <2>2. \A e \in Devices : IsValidID(idDevice'[e]) =>
            idDevice'[e] \in Range(enrolled)' \cup forgotten' \cup InFlight' \cup unregistered'
      BY <1>1, <1>2, <1>5, <1>7 DEF StoredInv
    <2>3. ASSUME NEW id \in Range(enrolled)' \cup InFlight'
          PROVE  \E e \in Devices : idDevice'[e] = id
      <3>1. CASE id = remoteID
        BY <1>5, <3>1
      <3>2. CASE id # remoteID
        <4>1. id \in Range(enrolled) /\ IsValidID(id)
          BY <1>1, <1>7, <2>3, <3>2 DEF OfferInv
        <4>2. PICK e \in Devices : idDevice[e] = id
          BY <1>1, <4>1 DEF StoredInv
        <4>3. e # d
          BY <1>11, <4>1, <4>2
        <4> QED BY <1>5, <4>2, <4>3
      <3> QED BY <3>1, <3>2
    <2> QED BY <2>1, <2>2, <2>3 DEF StoredInv, IsValidID
  <1>13. SharedOnlyIfUnregistered'
    <2>1. ASSUME NEW e \in Devices, NEW f \in Devices, e # f, IsValidID(idDevice'[e]),
                 idDevice'[e] = idDevice'[f]
          PROVE  \/ idDevice'[e] \in unregistered
                 \/ server = "alarms" /\ idDevice'[e] \in forgotten
      <3>1. CASE e # d /\ f # d
        BY <1>5, <2>1, <3>1 DEF EnrollmentInv, SharedOnlyIfUnregistered
      <3>2. CASE e = d \/ f = d
        <4>1. PICK g \in Devices : g # d /\ (g = e \/ g = f)
          BY <2>1, <3>2
        <4>2. idDevice[g] = remoteID /\ idDevice'[e] = remoteID
          BY <1>5, <2>1, <3>2, <4>1
        <4>3. remoteID \in forgotten \cup unregistered
          BY <1>1, <1>3, <1>7, <4>2 DEF StoredInv
        <4>4. forgotten # {} => server = "alarms"
          BY <1>1 DEF OfferInv, TypeOK
        <4> QED BY <4>2, <4>3, <4>4
      <3> QED BY <3>1, <3>2
    <2> QED BY <1>2, <2>1 DEF SharedOnlyIfUnregistered, IsValidID
  <1> QED BY <1>2, <1>3, <1>4, <1>7, <1>8, <1>9, <1>10, <1>11, <1>12, <1>13
          DEF EnrollmentInv

\* The confirmation is sent: it is still in flight.
LEMMA SendConfirmInv ==
    ASSUME EnrollmentInv, NEW d \in Devices, SendConfirm(d)
    PROVE  EnrollmentInv'
  <1>1. TypeOK /\ ChannelInv /\ OfferInv
    BY DEF EnrollmentInv
  <1>2. /\ Confirming(d) /\ toServer' = Confirm(idDevice[d])
        /\ pc' = [pc EXCEPT ![d] = "connected"]
        /\ UNCHANGED <<server, idDevice, link, serverPc, peer, remoteID, toDevice, halfOpen,
                       registered, file, enrolled, forgotten, unregistered>>
    BY DEF SendConfirm, Confirming, registryVars, historyVars
  <1>3. /\ serverPc = "renew" /\ idDevice[d] = remoteID /\ toDevice.command = "none"
        /\ link[d] = "handshake"
    BY <1>1, <1>2 DEF ChannelInv, Confirming
  <1>4. /\ pc'[d] = "connected" /\ \A e \in Devices : e # d => pc'[e] = pc[e]
        /\ pc' \in [Devices -> {"off", "connect", "ack", "renew", "confirm", "connected"}]
    BY <1>1, <1>2 DEF TypeOK
  <1>5. \A e \in Devices : ~Confirming(e)'
    BY <1>1, <1>2, <1>3, <1>4 DEF ChannelInv, Confirming
  <1>6. TypeOK'
    BY <1>1, <1>2, <1>3, <1>4 DEF TypeOK, Confirm
  <1>7. ChannelInv'
    BY <1>1, <1>2, <1>3, <1>4, <1>5 DEF ChannelInv, Confirm
  <1>8. InFlight' = InFlight
    BY <1>2 DEF InFlight, Confirm
  <1>9. OfferInv'
    BY <1>1, <1>2 DEF OfferInv, Range
  <1>10. StoredInv' /\ EnrolledOnce' /\ SharedOnlyIfUnregistered'
    BY <1>2, <1>4, <1>8, IDsUnmoved
  <1> QED BY <1>6, <1>7, <1>9, <1>10 DEF EnrollmentInv

-----------------------------------------------------------------------------
(* The device's connection ends, by its own doing or not. *)

LEMMA LeaveInv ==
    ASSUME EnrollmentInv, NEW d \in Devices,
           link' = [link EXCEPT ![d] = "none"],
           pc' = pc \/ pc' = [pc EXCEPT ![d] = "connect"] \/ pc' = [pc EXCEPT ![d] = "off"],
           toServer' = toServer \/ toServer' = Nothing,
           halfOpen' \in BOOLEAN,
           unregistered \subseteq unregistered',
           unregistered' \subseteq unregistered \cup InFlight,
           link[d] = "handshake" /\ toServer' # toServer
              => LostConfirmation \subseteq unregistered',
           Unconfirmed(d) \subseteq unregistered',
           link[d] # "handshake" => toServer' = toServer,
           UNCHANGED <<server, idDevice, serverPc, peer, remoteID, toDevice, registered,
                       file, enrolled, forgotten>>
    PROVE  EnrollmentInv'
  <1>1. TypeOK /\ ChannelInv /\ OfferInv
    BY DEF EnrollmentInv
  <1>2. /\ link'[d] = "none" /\ \A e \in Devices : e # d => link'[e] = link[e] /\ pc'[e] = pc[e]
        /\ link' \in [Devices -> {"none", "pending", "handshake", "served"}]
        /\ pc' \in [Devices -> {"off", "connect", "ack", "renew", "confirm", "connected"}]
    BY <1>1 DEF TypeOK
  <1>3. /\ ~Confirming(d)' /\ \A e \in Devices : e # d => (Confirming(e)' <=> Confirming(e))
        /\ \A e \in Devices : Confirming(e)' => Confirming(e)
    BY <1>2 DEF Confirming
  <1>4. TypeOK'
    <2>1. unregistered' \subseteq Nat
      BY <1>1, LossIsInFlight DEF TypeOK
    <2>2. toServer' \in [command : {"none", "hello", "confirm"}, id : IDs]
      BY <1>1 DEF TypeOK, Nothing, IDs
    <2> QED BY <1>1, <1>2, <2>1, <2>2 DEF TypeOK
  <1>5. ChannelInv'
    <2>1. \A e \in Devices : pc'[e] = "confirm" => link'[e] # "pending"
      BY <1>1, <1>2 DEF ChannelInv
    <2>2. toServer'.command = "none" \/ toServer' = toServer
      BY DEF Nothing
    <2> QED BY <1>1, <1>2, <1>3, <2>1, <2>2 DEF ChannelInv
  <1>6. OfferInv'
    BY <1>1 DEF OfferInv, Range
  <1>7. InFlight' \subseteq InFlight
    BY <1>3 DEF InFlight, Nothing
  <1>8. InFlight \subseteq InFlight' \cup unregistered'
    <2>1. CASE InFlight = {}
      BY <2>1
    <2>2. CASE toServer.command = "confirm" /\ toServer' = toServer
      BY <2>2 DEF InFlight
    <2>3. CASE toServer.command = "confirm" /\ toServer' # toServer
      BY <1>1, <2>3 DEF InFlight, LostConfirmation, ChannelInv
    <2>4. CASE \E e \in Devices : e # d /\ Confirming(e)
      BY <1>3, <2>4 DEF InFlight
    <2>5. CASE Confirming(d)
      BY <1>1, <2>5 DEF InFlight, Confirming, Unconfirmed, ChannelInv
    <2> QED BY <2>1, <2>2, <2>3, <2>4, <2>5 DEF InFlight
  <1>9. \A e \in Devices : pc'[e] = "renew" => pc[e] = "renew"
    BY <1>1 DEF TypeOK
  <1>10. Range(enrolled)' = Range(enrolled)
    BY DEF Range
  <1>11. StoredInv' /\ EnrolledOnce' /\ SharedOnlyIfUnregistered'
    BY <1>7, <1>8, <1>9, <1>10, IDsUnmoved
  <1> QED BY <1>4, <1>5, <1>6, <1>11 DEF EnrollmentInv

LEMMA ConfirmFailsInv ==
    ASSUME EnrollmentInv, NEW d \in Devices, ConfirmFails(d)
    PROVE  EnrollmentInv'
  <1>1. halfOpen \in BOOLEAN
    BY DEF EnrollmentInv, TypeOK
  <1> QED BY <1>1, LossIsInFlight, LeaveInv
          DEF ConfirmFails, handshakeVars, registryVars, historyVars

LEMMA PowerOffInv ==
    ASSUME EnrollmentInv, NEW d \in Devices, PowerOff(d)
    PROVE  EnrollmentInv'
  <1>1. halfOpen' \in BOOLEAN
    BY DEF EnrollmentInv, TypeOK, PowerOff
  <1> QED BY <1>1, LossIsInFlight, LeaveInv DEF PowerOff, registryVars, historyVars

LEMMA BreakInv ==
    ASSUME EnrollmentInv, NEW d \in Devices, Break(d)
    PROVE  EnrollmentInv'
  <1>1. /\ link' = [link EXCEPT ![d] = "none"]
        /\ UNCHANGED <<server, pc, idDevice, serverPc, peer, remoteID, toDevice, registered,
                       file, enrolled, forgotten>>
    BY DEF Break, registryVars, historyVars
  <1>2. CASE link[d] = "handshake"
    <2>1. /\ toServer' = Nothing /\ halfOpen' \in BOOLEAN
          /\ unregistered' = unregistered \cup LostConfirmation \cup Unconfirmed(d)
      BY <1>2 DEF Break
    <2> QED BY <1>1, <1>2, <2>1, LossIsInFlight, LeaveInv
  <1>3. CASE link[d] # "handshake"
    <2>1. UNCHANGED <<toServer, unregistered, halfOpen>> /\ Unconfirmed(d) = {}
      BY <1>3 DEF Break, Unconfirmed
    <2>2. halfOpen' \in BOOLEAN
      BY <2>1 DEF EnrollmentInv, TypeOK
    <2> QED BY <1>1, <1>3, <2>1, <2>2, LeaveInv
  <1> QED BY <1>2, <1>3

-----------------------------------------------------------------------------
(* The server. *)

LEMMA IdleChannel ==
    ASSUME EnrollmentInv, Idle, \A d \in Devices : link'[d] # "handshake",
           pc' = pc, \A d \in Devices : link'[d] = "pending" => link[d] = "pending"
    PROVE  /\ serverPc' = "accept" /\ InFlight' = {}
           /\ peer' \in Devices \cup {NoDevice} /\ remoteID' \in IDs
           /\ toDevice' \in [command : {"none", "ack", "renew"}, id : Nat]
           /\ toServer' \in [command : {"none", "hello", "confirm"}, id : IDs]
           /\ halfOpen' \in BOOLEAN
           /\ ChannelInv'
  <1>1. ChannelInv
    BY DEF EnrollmentInv
  <1> QED BY <1>1 DEF Idle, InFlight, Nothing, IDs, BlankID, ChannelInv, Confirming

\* A device that is admitted or refused leaves the handshake, and nobody else
\* is in it.
LEMMA PeerLeaves ==
    ASSUME EnrollmentInv, serverPc # "accept", NEW l \in {"served", "none"},
           link' = [link EXCEPT ![peer] = IF @ = "handshake" THEN l ELSE @]
    PROVE  /\ link' \in [Devices -> {"none", "pending", "handshake", "served"}]
           /\ \A d \in Devices : link'[d] # "handshake"
           /\ \A d \in Devices : link'[d] = "pending" => link[d] = "pending"
  <1>1. /\ link \in [Devices -> {"none", "pending", "handshake", "served"}]
        /\ \A d \in Devices : link[d] = "handshake" => peer = d
        /\ peer \in Devices
    BY DEF EnrollmentInv, TypeOK, ChannelInv
  <1> QED BY <1>1

LEMMA AcceptInv ==
    ASSUME EnrollmentInv, NEW d \in Devices, Accept(d)
    PROVE  EnrollmentInv'
  <1>1. TypeOK /\ ChannelInv /\ OfferInv
    BY DEF EnrollmentInv
  <1>2. /\ serverPc = "accept" /\ serverPc' = "hello" /\ peer' = d /\ toDevice' = Ack
        /\ link[d] = "pending"
        /\ link' = [link EXCEPT ![d] = "handshake"]
        /\ UNCHANGED <<server, pc, idDevice, remoteID, toServer, halfOpen, registered, file,
                       enrolled, forgotten, unregistered>>
    BY DEF Accept, registryVars, historyVars
  <1>3. TypeOK'
    BY <1>1, <1>2 DEF TypeOK, Ack
  <1>4. \A e \in Devices : ~Confirming(e) /\ ~Confirming(e)'
    BY <1>1, <1>2 DEF ChannelInv, Confirming, TypeOK
  <1>5. ChannelInv'
    BY <1>1, <1>2, <1>4 DEF ChannelInv, TypeOK, Ack
  <1>6. OfferInv' /\ InFlight' = InFlight
    BY <1>1, <1>2, <1>4 DEF OfferInv, Range, InFlight
  <1>7. StoredInv' /\ EnrolledOnce' /\ SharedOnlyIfUnregistered'
    BY <1>2, <1>6, IDsUnmoved
  <1> QED BY <1>3, <1>5, <1>6, <1>7 DEF EnrollmentInv

\* The accept thread returns with nothing written.
LEMMA ReturnsInv ==
    ASSUME EnrollmentInv, RecvHello \/ RefuseFull \/ RecvFails
    PROVE  EnrollmentInv'
  <1>1. TypeOK /\ ChannelInv /\ OfferInv
    BY DEF EnrollmentInv
  <1>2. /\ Idle /\ serverPc \in {"hello", "renew"}
        /\ UNCHANGED <<server, pc, idDevice, registered, file, enrolled, forgotten>>
        /\ unregistered' = unregistered \cup LostConfirmation
    <2>1. CASE RecvHello \/ RecvFails
      <3>1. LostConfirmation = {}
        BY <2>1 DEF RecvHello, RecvFails, LostConfirmation, Nothing
      <3> QED BY <2>1, <3>1 DEF RecvHello, RecvFails, Admit, registryVars, deviceVars,
              historyVars
    <2>2. CASE RefuseFull
      BY <1>1, <2>2 DEF RefuseFull, registryVars, historyVars, ChannelInv, TypeOK
    <2> QED BY <2>1, <2>2
  <1>3. \A d \in Devices : ~Confirming(d)
    BY <1>1, <1>2 DEF RecvHello, RefuseFull, RecvFails, ChannelInv, Confirming, Nothing
  <1>4. InFlight = LostConfirmation
    BY <1>1, <1>3 DEF InFlight, LostConfirmation, ChannelInv
  <1>5. /\ link' \in [Devices -> {"none", "pending", "handshake", "served"}]
        /\ \A d \in Devices : link'[d] # "handshake"
        /\ \A d \in Devices : link'[d] = "pending" => link[d] = "pending"
    <2>1. CASE RecvHello \/ RefuseFull
      <3>1. PICK l \in {"served", "none"} :
               link' = [link EXCEPT ![peer] = IF link[peer] = "handshake" THEN l ELSE link[peer]]
        BY <2>1 DEF RecvHello, RefuseFull, Admit
      <3> QED BY <1>2, <3>1, PeerLeaves
    <2>2. CASE RecvFails
      BY <1>1, <1>2, <2>2 DEF RecvFails, deviceVars, ChannelInv, TypeOK
    <2> QED BY <2>1, <2>2
  <1>6. InFlight' = {} /\ ChannelInv' /\ serverPc' = "accept"
    BY <1>2, <1>5, IdleChannel
  <1>7. TypeOK'
    <2>1. unregistered' \subseteq Nat
      BY <1>1, <1>2, LossIsInFlight DEF TypeOK
    <2> QED BY <1>1, <1>2, <1>5, <2>1, IdleChannel DEF TypeOK
  <1>8. OfferInv'
    BY <1>1, <1>2, <1>6 DEF OfferInv, Range
  <1>9. StoredInv' /\ EnrolledOnce' /\ SharedOnlyIfUnregistered'
    <2>1. Range(enrolled)' = Range(enrolled)
      BY <1>2 DEF Range
    <2> QED BY <1>2, <1>4, <1>6, <2>1, IDsUnmoved
  <1> QED BY <1>6, <1>7, <1>8, <1>9 DEF EnrollmentInv

LEMMA SendRenewInv ==
    ASSUME EnrollmentInv, NEW id \in 1 .. Len(registered) + 2, SendRenew(id)
    PROVE  EnrollmentInv'
  <1>1. TypeOK /\ ChannelInv /\ OfferInv
    BY DEF EnrollmentInv
  <1>2. /\ serverPc = "hello" /\ serverPc' = "renew" /\ remoteID' = id
        /\ toDevice' = Renew(id) /\ toServer' = Nothing /\ toServer.command = "hello"
        /\ NewRemoteID(id)
        /\ UNCHANGED <<server, pc, idDevice, link, peer, halfOpen, registered, file,
                       enrolled, forgotten, unregistered>>
    BY DEF SendRenew, registryVars, deviceVars, historyVars
  <1>3. id \in Nat /\ id > 0
    BY <1>1 DEF TypeOK
  <1>4. id \notin Range(registered)
    BY <1>2 DEF NewRemoteID, Range
  <1>5. TypeOK'
    BY <1>1, <1>2, <1>3 DEF TypeOK, Renew, Nothing, IDs
  <1>6. \A d \in Devices : ~Confirming(d) /\ ~Confirming(d)'
    BY <1>1, <1>2 DEF ChannelInv, Confirming
  <1>7. ChannelInv'
    BY <1>1, <1>2, <1>6 DEF ChannelInv, Renew, Nothing
  <1>8. OfferInv'
    BY <1>1, <1>2, <1>3, <1>4 DEF OfferInv, Range, IsValidID
  <1>9. InFlight = {} /\ InFlight' = {}
    BY <1>2, <1>6 DEF InFlight, Nothing
  <1>10. Range(enrolled)' = Range(enrolled)
    BY <1>2 DEF Range
  <1>11. StoredInv' /\ EnrolledOnce' /\ SharedOnlyIfUnregistered'
    BY <1>2, <1>9, <1>10, IDsUnmoved
  <1> QED BY <1>5, <1>7, <1>8, <1>11 DEF EnrollmentInv

\* The confirmation arrives: the identification moves to the file ...
LEMMA RecvConfirmInv == EnrollmentInv /\ RecvConfirm => EnrollmentInv'
  <1> SUFFICES ASSUME EnrollmentInv, RecvConfirm PROVE EnrollmentInv'
    OBVIOUS
  <1>1. TypeOK /\ ChannelInv /\ OfferInv /\ StoredInv
    BY DEF EnrollmentInv
  <1>2. /\ serverPc = "renew" /\ serverPc' = "push" /\ toServer = Confirm(remoteID)
        /\ toServer' = Nothing
        /\ file' = Append(file, remoteID) /\ enrolled' = Append(enrolled, remoteID)
        /\ UNCHANGED <<server, pc, idDevice, link, peer, remoteID, toDevice, halfOpen,
                       registered, forgotten, unregistered>>
    BY DEF RecvConfirm, deviceVars
  <1>3. /\ IsValidID(remoteID) /\ remoteID \in Nat
        /\ remoteID \notin Range(registered) /\ remoteID \notin Range(enrolled)
        /\ file \in Seq(Nat) /\ enrolled \in Seq(Nat)
    BY <1>1, <1>2 DEF OfferInv, TypeOK, IDs, BlankID, IsValidID
  <1>4. /\ Range(file)' = Range(file) \cup {remoteID}
        /\ Range(enrolled)' = Range(enrolled) \cup {remoteID}
        /\ file' \in Seq(Nat) /\ enrolled' \in Seq(Nat)
    BY <1>2, <1>3, RangeOfAppend, AppendProperties
  <1>5. /\ \A d \in Devices : ~Confirming(d) /\ ~Confirming(d)'
        /\ toDevice.command = "none"
    BY <1>1, <1>2 DEF ChannelInv, Confirming, Confirm
  <1>6. InFlight = {remoteID} /\ InFlight' = {}
    BY <1>2, <1>5 DEF InFlight, Confirm, Nothing
  <1>7. TypeOK'
    BY <1>1, <1>2, <1>4 DEF TypeOK, Nothing, IDs
  <1>8. ChannelInv'
    BY <1>1, <1>2, <1>5 DEF ChannelInv, Nothing
  <1>9. OfferInv'
    <2>1. Range(registered)' = Range(registered)
      BY <1>2 DEF Range
    <2> QED BY <1>1, <1>2, <1>3, <1>4, <2>1 DEF OfferInv, IsValidID
  <1>10. StoredInv'
    BY <1>1, <1>2, <1>4, <1>6 DEF StoredInv, IsValidID
  <1>11. EnrolledOnce' /\ SharedOnlyIfUnregistered'
    <2>1. IsInjective(Append(enrolled, remoteID))
      BY <1>3, RangeOfAppend DEF EnrollmentInv, EnrolledOnce
    <2> QED BY <1>2, <2>1 DEF EnrollmentInv, EnrolledOnce, SharedOnlyIfUnregistered,
            IsInjective, IsValidID
  <1> QED BY <1>7, <1>8, <1>9, <1>10, <1>11 DEF EnrollmentInv

\* ... and to the list.
LEMMA PushRegisterInv == EnrollmentInv /\ PushRegister => EnrollmentInv'
  <1> SUFFICES ASSUME EnrollmentInv, PushRegister PROVE EnrollmentInv'
    OBVIOUS
  <1>1. TypeOK /\ ChannelInv /\ OfferInv
    BY DEF EnrollmentInv
  <1>2. /\ serverPc = "push" /\ Idle /\ registered' = Append(registered, remoteID)
        /\ link' = [link EXCEPT ![peer] = IF link[peer] = "handshake" THEN "served" ELSE link[peer]]
        /\ UNCHANGED <<server, pc, idDevice, file, enrolled, forgotten, unregistered>>
    BY DEF PushRegister, Admit, historyVars
  <1>3. remoteID \in Nat /\ registered \in Seq(Nat)
    BY <1>1, <1>2 DEF OfferInv, TypeOK, IDs, BlankID, IsValidID
  <1>4. /\ Range(registered)' = Range(registered) \cup {remoteID}
        /\ registered' \in Seq(Nat)
    BY <1>2, <1>3, RangeOfAppend, AppendProperties
  <1>5. /\ link' \in [Devices -> {"none", "pending", "handshake", "served"}]
        /\ \A d \in Devices : link'[d] # "handshake"
        /\ \A d \in Devices : link'[d] = "pending" => link[d] = "pending"
    BY <1>2, PeerLeaves
  <1>6. InFlight' = {} /\ ChannelInv' /\ serverPc' = "accept"
    BY <1>2, <1>5, IdleChannel
  <1>7. TypeOK'
    BY <1>1, <1>2, <1>4, <1>5, IdleChannel DEF TypeOK
  <1>8. InFlight = {}
    BY <1>2, LossIsInFlight
  <1>9. OfferInv' /\ Range(enrolled)' = Range(enrolled)
    BY <1>1, <1>2, <1>4, <1>6 DEF OfferInv, Range
  <1>10. StoredInv' /\ EnrolledOnce' /\ SharedOnlyIfUnregistered'
    BY <1>2, <1>6, <1>8, <1>9, IDsUnmoved
  <1> QED BY <1>6, <1>7, <1>9, <1>10 DEF EnrollmentInv

-----------------------------------------------------------------------------
(* Restarts, and the other server. *)

\* What was in flight is lost; and the registers of a server that does not know
\* all of them any more, which that of the sensors always does.
LEMMA RestartLoses ==
    ASSUME EnrollmentInv, RestartServer
    PROVE  /\ unregistered' = unregistered \cup InFlight
           /\ registered' \in Seq(Nat)
           /\ \/ /\ UNCHANGED <<enrolled, forgotten>>
                 /\ Range(enrolled) \subseteq Range(registered')
              \/ /\ server # "sensors"
                 /\ enrolled' = <<>> /\ forgotten' = forgotten \cup Range(enrolled)
  <1>1. TypeOK /\ OfferInv
    BY DEF EnrollmentInv
  <1>2. unregistered' = unregistered \cup InFlight
    BY LossIsInFlight DEF RestartServer
  <1>3. /\ Reload(file) \in Seq(Nat)
        /\ server = "sensors" => Range(enrolled) \subseteq Range(Reload(file))
    BY <1>1, RangeOfReload DEF TypeOK, OfferInv
  <1> QED BY <1>2, <1>3 DEF RestartServer, historyVars

LEMMA RestartInv == EnrollmentInv /\ RestartServer => EnrollmentInv'
  <1> SUFFICES ASSUME EnrollmentInv, RestartServer PROVE EnrollmentInv'
    OBVIOUS
  <1>1. TypeOK /\ ChannelInv /\ OfferInv
    BY DEF EnrollmentInv
  <1>2. /\ link' = [d \in Devices |-> "none"] /\ Idle
        /\ UNCHANGED <<server, pc, idDevice, file>>
    BY DEF RestartServer
  <1>3. ChannelInv' /\ InFlight' = {} /\ serverPc' = "accept"
    BY <1>2, IdleChannel
  <1>4. InFlight \subseteq Nat /\ unregistered' = unregistered \cup InFlight
    BY LossIsInFlight, RestartLoses
  <1>5. Range(<<>>) = {} /\ <<>> \in Seq(Nat)
    BY EmptySeq DEF Range
  <1>6. Range(enrolled) \subseteq Nat
    BY <1>1 DEF TypeOK, Range
  <1>7. /\ enrolled' \in Seq(Nat) /\ forgotten' \subseteq Nat
        /\ enrolled' = enrolled \/ enrolled' = <<>>
        /\ Range(enrolled)' \subseteq Range(enrolled)
        /\ Range(enrolled)' \subseteq Range(registered)'
        /\ Range(enrolled) \cup forgotten \subseteq Range(enrolled)' \cup forgotten'
        /\ forgotten \subseteq forgotten'
        /\ server = "sensors" => forgotten' = forgotten
    <2>1. CASE UNCHANGED <<enrolled, forgotten>> /\ Range(enrolled) \subseteq Range(registered')
      <3>1. Range(enrolled)' = Range(enrolled) /\ Range(registered)' = Range(registered')
        BY <2>1 DEF Range
      <3> QED BY <1>1, <2>1, <3>1 DEF TypeOK
    <2>2. CASE /\ server # "sensors"
               /\ enrolled' = <<>> /\ forgotten' = forgotten \cup Range(enrolled)
      <3>1. Range(enrolled)' = {}
        BY <1>5, <2>2 DEF Range
      <3> QED BY <1>1, <1>5, <1>6, <2>2, <3>1 DEF TypeOK
    <2> QED BY <2>1, <2>2, RestartLoses
  <1>8. TypeOK'
    BY <1>1, <1>2, <1>3, <1>4, <1>7, RestartLoses, IdleChannel DEF TypeOK
  <1>9. OfferInv'
    <2>1. Range(file)' = Range(file)
      BY <1>2 DEF Range
    <2> QED BY <1>1, <1>2, <1>3, <1>7, <2>1 DEF OfferInv, IsValidID
  <1>10. StoredInv' /\ EnrolledOnce' /\ SharedOnlyIfUnregistered'
    BY <1>2, <1>3, <1>4, <1>7, IDsUnmoved
  <1> QED BY <1>3, <1>8, <1>9, <1>10 DEF EnrollmentInv

LEMMA OtherServerInv ==
    ASSUME EnrollmentInv, NEW id \in 1 .. MaxOtherID, OtherServerRegisters(id)
    PROVE  EnrollmentInv'
  <1>1. TypeOK /\ ChannelInv /\ OfferInv
    BY DEF EnrollmentInv
  <1>2. /\ file' = Append(file, id)
        /\ UNCHANGED <<server, pc, idDevice, link, serverPc, peer, remoteID, toDevice,
                       toServer, halfOpen, registered, enrolled, forgotten, unregistered>>
    BY DEF OtherServerRegisters, deviceVars, handshakeVars, historyVars
  <1>3. id \in Nat /\ file \in Seq(Nat)
    BY <1>1, EnrollmentAssumption DEF TypeOK
  <1>4. file' \in Seq(Nat) /\ Range(file) \subseteq Range(file)'
    BY <1>2, <1>3, RangeOfAppend, AppendProperties
  <1>5. TypeOK' /\ ChannelInv'
    BY <1>1, <1>2, <1>4 DEF TypeOK, ChannelInv, Confirming
  <1>6. InFlight' = InFlight /\ Range(enrolled)' = Range(enrolled)
    BY <1>2 DEF InFlight, Confirming, Range
  <1>7. OfferInv'
    <2>1. Range(registered)' = Range(registered)
      BY <1>2 DEF Range
    <2> QED BY <1>1, <1>2, <1>4, <1>6, <2>1 DEF OfferInv
  <1>8. StoredInv' /\ EnrolledOnce' /\ SharedOnlyIfUnregistered'
    BY <1>2, <1>6, IDsUnmoved
  <1> QED BY <1>5, <1>7, <1>8 DEF EnrollmentInv

-----------------------------------------------------------------------------
LEMMA EnrollmentStep == EnrollmentInv /\ [Next]_vars => EnrollmentInv'
  <1> SUFFICES ASSUME EnrollmentInv, [Next]_vars PROVE EnrollmentInv'
    OBVIOUS
  <1>1. CASE UNCHANGED vars
    <2>1. /\ UNCHANGED <<server, pc, idDevice, link, serverPc, peer, remoteID, toDevice>>
          /\ UNCHANGED <<toServer, halfOpen, registered, file, enrolled, forgotten>>
          /\ UNCHANGED unregistered
      BY <1>1 DEF vars, deviceVars, handshakeVars, registryVars, historyVars
    <2>2. TypeOK'
      BY <2>1 DEF EnrollmentInv, TypeOK
    <2>3. ChannelInv' /\ OfferInv' /\ InFlight' = InFlight /\ Range(enrolled)' = Range(enrolled)
      BY <2>1 DEF EnrollmentInv, ChannelInv, OfferInv, Range, InFlight, Confirming
    <2>4. StoredInv' /\ EnrolledOnce' /\ SharedOnlyIfUnregistered'
      BY <2>1, <2>3, IDsUnmoved
    <2> QED BY <2>2, <2>3, <2>4 DEF EnrollmentInv
  <1>2. ASSUME NEW d \in Devices, DeviceStep(d) \/ Accept(d)
        PROVE  EnrollmentInv'
    BY <1>2, QuietStepInv, StoreInv, SendConfirmInv, ConfirmFailsInv, AcceptInv
       DEF DeviceStep, QuietStep
  <1>3. CASE ServerStep
    BY <1>3, ReturnsInv, SendRenewInv, RecvConfirmInv, PushRegisterInv DEF ServerStep
  <1>4. CASE \E id \in 1 .. MaxOtherID : OtherServerRegisters(id)
    BY <1>4, OtherServerInv
  <1>5. CASE Failure
    BY <1>5, BreakInv, PowerOffInv, RestartInv DEF Failure
  <1> QED BY <1>1, <1>2, <1>3, <1>4, <1>5 DEF Next

\* The invariant of the enrollment.  None of the properties below is inductive
\* alone: each needs to know what the packet in flight means to both sides.
THEOREM EnrollmentInvariant == Spec => []EnrollmentInv
  BY EnrollmentInit, EnrollmentStep, PTL DEF Spec

\* Every variable keeps its type.
THEOREM EnrollmentTypeCorrect == Spec => []TypeOK
  BY EnrollmentInvariant, PTL DEF EnrollmentInv

\* No server writes an identification that it knows to the file a second time
\* (ServerSensors.cpp:194), whatever is lost and restarted.
THEOREM NoneEnrolledTwice == Spec => []EnrolledOnce
  BY EnrollmentInvariant, PTL DEF EnrollmentInv

\* EEPROM.put before the confirmation (TerremotoDevice.ino:265 and :270) is
\* enough: no register belongs to nobody.
THEOREM RegistersHaveDevices == Spec => []RegisteredIDsStored
  <1>1. EnrollmentInv => RegisteredIDsStored
    BY DEF EnrollmentInv, StoredInv, RegisteredIDsStored, Range
  <1> QED BY <1>1, EnrollmentInvariant, PTL

\* Only an identification that got no register, or that the server of the
\* alarms forgot, is given to two devices.
THEOREM OnlyUnregisteredShare == Spec => []SharedOnlyIfUnregistered
  BY EnrollmentInvariant, PTL DEF EnrollmentInv

-----------------------------------------------------------------------------
(* The refinement of DeviceRegistry. *)

lostIDs == unregistered \cup forgotten

\* One step of the abstract specification, or none.
RegistryStep ==
    Registry!Next \/ UNCHANGED <<server = "sensors", idDevice, enrolled, lostIDs>>

\* What is in flight is a free, stored identification.
LEMMA InFlightIsFree ==
    ASSUME EnrollmentInv, NEW id \in InFlight
    PROVE  /\ id = remoteID /\ serverPc = "renew"
           /\ Registry!Free(id)
           /\ \E d \in Devices : idDevice[d] = id
  <1>1. TypeOK /\ OfferInv /\ StoredInv
    BY DEF EnrollmentInv
  <1>2. id = remoteID /\ serverPc = "renew"
    BY LossIsInFlight
  <1>3. remoteID \in Nat /\ IsValidID(remoteID) /\ remoteID \notin Range(enrolled)
    BY <1>1, <1>2 DEF TypeOK, IDs, BlankID, OfferInv, IsValidID
  <1>4. Registry!Free(id)
    BY <1>2, <1>3 DEF Registry!Free, Registry!Range, Range, IsValidID
  <1>5. \E d \in Devices : idDevice[d] = id
    BY <1>1 DEF StoredInv
  <1> QED BY <1>2, <1>4, <1>5

\* EEPROM.put: Store(d, remoteID).
LEMMA StoreImplements ==
    ASSUME EnrollmentInv, NEW d \in Devices, RecvRenew(d)
    PROVE  RegistryStep
  <1>1. /\ ~IsValidID(idDevice[d]) /\ IsValidID(remoteID) /\ remoteID \in Nat
        /\ remoteID \notin Range(enrolled) /\ InFlight = {}
        /\ idDevice' = [idDevice EXCEPT ![d] = remoteID]
    BY StoreInv
  <1>2. TypeOK /\ StoredInv
    BY DEF EnrollmentInv
  <1>3. UNCHANGED <<server, enrolled, forgotten, unregistered>>
    BY DEF RecvRenew, historyVars
  <1>4. idDevice'[d] = remoteID /\ idDevice[d] <= 0
    <2>1. idDevice \in [Devices -> IDs] /\ idDevice[d] \in Int
      BY <1>2 DEF TypeOK, IDs, BlankID
    <2> QED BY <1>1, <2>1 DEF IsValidID
  <1>5. (\E e \in Devices : idDevice[e] = remoteID) => remoteID \in lostIDs
    BY <1>1, <1>2 DEF StoredInv, lostIDs
  <1>6. Registry!Free(remoteID)
    BY <1>1 DEF Registry!Free, Registry!Range, Range, IsValidID
  <1>7. Registry!Store(d, remoteID)
    BY <1>1, <1>3, <1>4, <1>5, <1>6 DEF Registry!Store, lostIDs
  <1>8. Registry!Store(d, idDevice'[d])
    BY <1>4, <1>7
  <1>9. UNCHANGED (server = "sensors")
    BY <1>3
  <1> QED BY <1>8, <1>9 DEF RegistryStep, Registry!Next

\* The register is written: Enrol(remoteID).
LEMMA ConfirmImplements == EnrollmentInv /\ RecvConfirm => RegistryStep
  <1> SUFFICES ASSUME EnrollmentInv, RecvConfirm PROVE RegistryStep
    OBVIOUS
  <1>1. remoteID \in InFlight
    BY DEF RecvConfirm, Confirm, InFlight
  <1>2. PICK d \in Devices : idDevice[d] = remoteID
    BY <1>1, InFlightIsFree
  <1>3. Registry!Free(idDevice[d])
    BY <1>1, <1>2, InFlightIsFree
  <1>4. Registry!Enrol(idDevice[d]) /\ UNCHANGED (server = "sensors")
    BY <1>2, <1>3 DEF Registry!Enrol, RecvConfirm, deviceVars
  <1> QED BY <1>4 DEF RegistryStep, Registry!Next

\* Something in flight is lost: Lose.
LEMMA LossImplements ==
    ASSUME EnrollmentInv, NEW ids \in SUBSET InFlight,
           UNCHANGED <<server, idDevice, enrolled, forgotten>>,
           unregistered' = unregistered \cup ids
    PROVE  RegistryStep
  <1>1. ids \in SUBSET {idDevice[d] : d \in Devices}
    BY InFlightIsFree
  <1>2. Registry!Lose(ids)
    BY InFlightIsFree DEF Registry!Lose
  <1>3. UNCHANGED (server = "sensors")
    OBVIOUS
  <1> QED BY <1>1, <1>2, <1>3 DEF RegistryStep, Registry!Next

\* A restart loses what is in flight, and may be a Forget.
LEMMA RestartImplements ==
    ASSUME EnrollmentInv, RestartServer
    PROVE  RegistryStep
  <1>1. UNCHANGED <<server, idDevice>> /\ unregistered' = unregistered \cup InFlight
    BY RestartLoses DEF RestartServer
  <1>2. CASE UNCHANGED <<enrolled, forgotten>>
    BY <1>1, <1>2, LossImplements
  <1>3. CASE /\ server # "sensors"
             /\ enrolled' = <<>> /\ forgotten' = forgotten \cup Range(enrolled)
    <2>1. InFlight \in SUBSET {idDevice[d] : d \in Devices}
      BY InFlightIsFree
    <2>2. Registry!Forget(InFlight)
      <3>1. (unregistered \cup forgotten)'
              = (unregistered \cup forgotten) \cup InFlight \cup Range(enrolled)
        BY <1>1, <1>3
      <3>2. Registry!Range(enrolled) = Range(enrolled)
        BY DEF Registry!Range, Range
      <3> QED BY <1>1, <1>3, <3>1, <3>2, InFlightIsFree DEF Registry!Forget
    <2>3. UNCHANGED (server = "sensors")
      BY <1>1
    <2> QED BY <2>1, <2>2, <2>3 DEF RegistryStep, Registry!Next
  <1> QED BY <1>2, <1>3, RestartLoses

LEMMA StepImplements == EnrollmentInv /\ [Next]_vars => RegistryStep
  <1> SUFFICES ASSUME EnrollmentInv, [Next]_vars PROVE RegistryStep
    OBVIOUS
  <1>1. ASSUME NEW d \in Devices, DeviceStep(d) \/ Accept(d) \/ Break(d) \/ PowerOff(d)
        PROVE  RegistryStep
    <2>1. CASE RecvRenew(d)
      BY <2>1, StoreImplements
    <2>2. CASE ~RecvRenew(d)
      <3>1. UNCHANGED <<server, idDevice, enrolled, forgotten>>
        BY <1>1, <2>2 DEF DeviceStep, PowerOn, StartComm, RecvAck, SendConfirm, ConfirmFails,
           GiveUp, Reconnect, Accept, Break, PowerOff, historyVars
      <3>2. PICK ids \in {{}, Unconfirmed(d), LostConfirmation \cup Unconfirmed(d)} :
               unregistered' = unregistered \cup ids
        BY <1>1, <2>2 DEF DeviceStep, PowerOn, StartComm, RecvAck, SendConfirm, ConfirmFails,
           GiveUp, Reconnect, Accept, Break, PowerOff
      <3>3. ids \in SUBSET InFlight
        BY <3>2, LossIsInFlight
      <3> QED BY <3>1, <3>2, <3>3, LossImplements
    <2> QED BY <2>1, <2>2
  <1>2. CASE ServerStep
    <2>1. CASE RecvConfirm
      BY <2>1, ConfirmImplements
    <2>2. CASE ServerStep /\ ~RecvConfirm
      <3>1. UNCHANGED <<server, idDevice, enrolled, forgotten>>
        BY <2>2 DEF ServerStep, RecvHello, SendRenew, PushRegister, RefuseFull, RecvFails,
           deviceVars, historyVars
      <3>2. PICK ids \in {{}, LostConfirmation} : unregistered' = unregistered \cup ids
        BY <2>2 DEF ServerStep, RecvHello, SendRenew, PushRegister, RefuseFull, RecvFails
      <3>3. ids \in SUBSET InFlight
        BY <3>2, LossIsInFlight
      <3> QED BY <3>1, <3>2, <3>3, LossImplements
    <2> QED BY <1>2, <2>1, <2>2
  <1>3. CASE RestartServer
    BY <1>3, RestartImplements
  <1>4. CASE UNCHANGED vars \/ \E id \in 1 .. MaxOtherID : OtherServerRegisters(id)
    BY <1>4 DEF vars, OtherServerRegisters, deviceVars, historyVars, RegistryStep, lostIDs
  <1> QED BY <1>1, <1>2, <1>3, <1>4 DEF Next, Failure

\* The enrollment implements DeviceRegistry, for any number of devices,
\* failures and restarts.  What a device stores was free (getNewRemoteID chose
\* it before two messages went over the network), is never given up, and is
\* written by the server that knows it at most once.
THEOREM EnrollmentImplementsRegistry == Spec => ImplementsRegistry
  <1>1. Init => Registry!Init
    BY DEF Init, Registry!Init, BlankID
  <1>2. EnrollmentInv /\ [Next]_vars
          => [Registry!Next]_<<server = "sensors", idDevice, enrolled, unregistered \cup forgotten>>
    BY StepImplements DEF RegistryStep, lostIDs
  <1> QED BY <1>1, <1>2, EnrollmentInvariant, PTL DEF Spec, ImplementsRegistry, Registry!Spec
=============================================================================
