---------------------------- MODULE UdpEcho_proofs ----------------------------
(***************************************************************************)
(* Proofs about UdpEcho for any number of clients, any lines, environments *)
(* and options, and any number of datagrams lost or duplicated.            *)
(***************************************************************************)
EXTENDS UdpEcho, FiniteSetTheorems, SequenceTheorems, WellFoundedInduction, TLAPS

\* A record with the fields of a PacketManager, of a datagram.
IsManager(m) == m = [listed |-> m.listed, chance |-> m.chance, always |-> m.always]
IsDatagram(d) ==
    d = [client |-> d.client, from |-> d.from, to |-> d.to, num |-> d.num,
         bytes |-> d.bytes, sent |-> d.sent, flips |-> d.flips, copy |-> d.copy]

TypeInv ==
    /\ DOMAIN pktMgr = Processes /\ \A p \in Processes : IsManager(pktMgr[p])
    /\ m_MsgNo \in [Processes -> Nat]
    /\ client \in [Clients -> {"start", "reading", "waiting", "ended"}]
    /\ DOMAIN server_address = Clients
    /\ faults \in Nat
    /\ surplus \in [Clients -> Int]
    /\ IsFiniteSet(net)

\* A datagram left its process as one of the messages it has counted and was
\* duplicated by one of the faults so far, so that the next number, and the next
\* fault, make a datagram that is not in flight yet.  It goes to the client it
\* belongs to, or to none.
Recorded(d) ==
    /\ IsDatagram(d)
    /\ d.client \in Clients /\ d.from \in Processes
    /\ d.num \in Nat /\ d.num <= m_MsgNo[d.from]
    /\ d.copy \in Nat /\ d.copy <= faults
    /\ d.to \in Clients => d.to = d.client

\* No client sends to a client.
Addressed ==
    \A c \in Clients : client[c] \in {"reading", "waiting"} => server_address[c] \notin Clients

Flight == \A d \in net : Recorded(d)

IInv == TypeInv /\ Flight /\ Addressed /\ ListedNeverLeave /\ StopAndWait
-----------------------------------------------------------------------------
\* The options leave the drop list alone: SettingsManager adds random events only.
LEMMA InitialisedKeeps ==
    ASSUME NEW p, IsManager(pktMgr[p]), NEW err
    PROVE  /\ IsManager(initialised(p, err))
           /\ initialised(p, err).listed = pktMgr[p].listed
  <1> DEFINE a == setUserMode_ErrRate(pktMgr[p], env[p], err >= 100)
  <1> DEFINE b == setUserMode_ErrDrop(a, env[p], FALSE)
  <1>1. IsManager(a) /\ a.listed = pktMgr[p].listed
    BY DEF IsManager, setUserMode_ErrRate, setErrorRate
  <1>2. b = a
    BY DEF setUserMode_ErrDrop
  <1>3. initialised(p, err) = setUserMode_ErrFlip(b, env[p], TRUE)
    BY DEF initialised, sendErr_init
  <1> HIDE DEF a, b
  <1>4. /\ IsManager(setUserMode_ErrFlip(a, env[p], TRUE))
        /\ setUserMode_ErrFlip(a, env[p], TRUE).listed = a.listed
    BY <1>1 DEF IsManager, setUserMode_ErrFlip, addMsgEvent_Random
  <1> QED
    BY <1>1, <1>2, <1>3, <1>4

\* The constructor makes a PacketManager of any environment.
LEMMA ConstructorMakes ==
    ASSUME NEW e
    PROVE  IsManager(SettingsManager(e))
  <1> DEFINE a == loadEnvData_ErrRate(PacketManager, e)
  <1> DEFINE b == loadEnvData_ErrDrop(a, e)
  <1>1. IsManager(a)
    BY DEF IsManager, PacketManager, loadEnvData_ErrRate, setErrorRate
  <1>2. IsManager(b)
    <2> HIDE DEF a
    <2> QED
      BY <1>1 DEF IsManager, loadEnvData_ErrDrop, addMsgEvent_Random, addMsgEvent_Standard
  <1>3. IsManager(loadEnvData_ErrFlip(b, e))
    <2> HIDE DEF b
    <2> QED
      BY <1>2 DEF IsManager, loadEnvData_ErrFlip, addMsgEvent_Random
  <1> QED
    BY <1>3 DEF SettingsManager

\* Only Dropped comes of a message in the drop list.
LEMMA ListedIsDropped ==
    ASSUME NEW p, NEW bytes, NEW n, NEW out \in processEvents(pktMgr[p], bytes, n),
           n \in pktMgr[p].listed
    PROVE  out = Dropped
  BY DEF processEvents, runMsgEvents, errorDrop
-----------------------------------------------------------------------------
\* The datagrams in S that belong to c.
Of(c, S) == {d \in S : d.client = c}

LEMMA OfAdd ==
    ASSUME NEW S, IsFiniteSet(S), NEW d, d \notin S, NEW c
    PROVE  /\ IsFiniteSet(S \cup {d})
           /\ Cardinality(Of(c, S \cup {d}))
                 = Cardinality(Of(c, S)) + (IF d.client = c THEN 1 ELSE 0)
  <1>1. IsFiniteSet(Of(c, S)) /\ IsFiniteSet(S \cup {d}) /\ d \notin Of(c, S)
    BY FS_Subset, FS_AddElement DEF Of
  <1>2. Cardinality(Of(c, S)) \in Nat
    BY <1>1, FS_CardinalityType
  <1>3. CASE d.client = c
    <2>1. Of(c, S \cup {d}) = Of(c, S) \cup {d}
      BY <1>3 DEF Of
    <2> QED
      BY <1>1, <1>3, <2>1, FS_AddElement
  <1>4. CASE d.client # c
    <2>1. Of(c, S \cup {d}) = Of(c, S)
      BY <1>4 DEF Of
    <2> QED
      BY <1>1, <1>2, <1>4, <2>1
  <1> QED
    BY <1>3, <1>4

LEMMA OfRemove ==
    ASSUME NEW S, IsFiniteSet(S), NEW d \in S, NEW c
    PROVE  /\ IsFiniteSet(S \ {d})
           /\ Cardinality(Of(c, S)) \in Nat
           /\ Cardinality(Of(c, S \ {d}))
                 = Cardinality(Of(c, S)) - (IF d.client = c THEN 1 ELSE 0)
  <1>1. IsFiniteSet(S \ {d}) /\ IsFiniteSet(Of(c, S))
    BY FS_Subset, FS_RemoveElement DEF Of
  <1>2. Cardinality(Of(c, S)) \in Nat
    BY <1>1, FS_CardinalityType
  <1>3. (S \ {d}) \cup {d} = S /\ d \notin S \ {d}
    OBVIOUS
  <1>4. Cardinality(Of(c, S)) = Cardinality(Of(c, S \ {d})) + (IF d.client = c THEN 1 ELSE 0)
    BY <1>1, <1>3, OfAdd
  <1>5. Cardinality(Of(c, S \ {d})) \in Nat
    <2>1. IsFiniteSet(Of(c, S \ {d}))
      BY <1>1, FS_Subset DEF Of
    <2> QED
      BY <2>1, FS_CardinalityType
  <1> QED
    BY <1>1, <1>2, <1>4, <1>5
-----------------------------------------------------------------------------
\* How many datagrams of c are to be in flight.
Due(c) == surplus[c] + (IF client[c] = "waiting" THEN 1 ELSE 0)

\* StopAndWait, in these terms.
LEMMA InTheseTerms ==
    StopAndWait <=> \A c \in Clients : Cardinality(Of(c, net)) = Due(c)
  BY DEF StopAndWait, Of, Due

\* The datagram sendto makes, field by field.
Leaving(d, p, n, out, more) ==
    [d EXCEPT !.from = p, !.num = n, !.bytes = out, !.flips = @ + more]

LEMMA SentFields ==
    ASSUME NEW d, IsDatagram(d), NEW p, NEW n, NEW out, NEW more
    PROVE  Leaving(d, p, n, out, more)
              = [client |-> d.client, from |-> p, to |-> d.to, num |-> n, bytes |-> out,
                 sent |-> d.sent, copy |-> d.copy, flips |-> d.flips + more]
  <1>1. PICK client1, to1, from1, num1, bytes1, sent1, flips1, copy1 :
            d = [client |-> client1, from |-> from1, to |-> to1, num |-> num1,
                 bytes |-> bytes1, sent |-> sent1, flips |-> flips1, copy |-> copy1]
    BY Zenon DEF IsDatagram
  <1> DEFINE one == [d EXCEPT !.from = p]
             two == [one EXCEPT !.num = n]
             three == [two EXCEPT !.bytes = out]
             four == [three EXCEPT !.flips = flips1 + more]
  <1>2. one = [client |-> client1, from |-> p, to |-> to1, num |-> num1,
               bytes |-> bytes1, sent |-> sent1, flips |-> flips1, copy |-> copy1]
    BY <1>1
  <1>3. two = [client |-> client1, from |-> p, to |-> to1, num |-> n,
               bytes |-> bytes1, sent |-> sent1, flips |-> flips1, copy |-> copy1]
    <2> HIDE DEF one
    <2> QED
      BY <1>2
  <1>4. three = [client |-> client1, from |-> p, to |-> to1, num |-> n,
                 bytes |-> out, sent |-> sent1, flips |-> flips1, copy |-> copy1]
    <2> HIDE DEF two
    <2> QED
      BY <1>3
  <1>5. four = [client |-> client1, from |-> p, to |-> to1, num |-> n, bytes |-> out,
                sent |-> sent1, flips |-> flips1 + more, copy |-> copy1]
    <2> HIDE DEF three
    <2> QED
      BY <1>4
  <1>6. d.flips = flips1 /\ d.client = client1 /\ d.to = to1 /\ d.sent = sent1
        /\ d.copy = copy1
    BY <1>1
  <1>7. Leaving(d, p, n, out, more) = four
    BY <1>6 DEF Leaving
  <1> QED
    BY <1>5, <1>6, <1>7

\* sendto adds a datagram of its client's that was not in flight, or counts one lost;
\* what it adds has the number of the message, which no drop list holds.
LEMMA SendCounts ==
    ASSUME IInv, UNCHANGED <<faults, pktMgr>>,
           NEW p \in Processes, NEW bytes, NEW rest, rest \subseteq net,
           NEW d, IsDatagram(d), d.client \in Clients, d.copy \in 0 .. faults,
           d.to \in Clients => d.to = d.client,
           sendto(p, bytes, d, rest)
    PROVE  /\ m_MsgNo' \in [Processes -> Nat]
           /\ surplus' \in [Clients -> Int]
           /\ IsFiniteSet(net')
           /\ Flight'
           /\ ListedNeverLeave'
           /\ \A c \in Clients :
                 Cardinality(Of(c, net')) - surplus'[c]
                    = Cardinality(Of(c, rest)) - surplus[c] + (IF d.client = c THEN 1 ELSE 0)
  <1> USE DEF IInv, TypeInv
  <1>1. PICK out \in processEvents(pktMgr[p], bytes, m_MsgNo[p] + 1) :
          /\ m_MsgNo' = [m_MsgNo EXCEPT ![p] = @ + 1]
          /\ IF out = Dropped
             THEN /\ net' = rest
                  /\ surplus' = [surplus EXCEPT ![d.client] = @ - 1]
             ELSE /\ net' = rest \cup
                       {[d EXCEPT !.from = p, !.num = m_MsgNo[p] + 1, !.bytes = out,
                                  !.flips = @ + (IF out = bytes THEN 0 ELSE 1)]}
                  /\ UNCHANGED surplus
    BY DEF sendto
  <1>2. /\ m_MsgNo' \in [Processes -> Nat]
        /\ \A q \in Processes : m_MsgNo[q] <= m_MsgNo'[q]
    BY <1>1
  <1>3. IsFiniteSet(rest) /\ \A c \in Clients : Cardinality(Of(c, rest)) \in Nat
    <2>1. IsFiniteSet(rest)
      BY FS_Subset
    <2>2. \A c \in Clients : IsFiniteSet(Of(c, rest))
      BY <2>1, FS_Subset DEF Of
    <2> QED
      BY <2>1, <2>2, FS_CardinalityType
  <1>4. \A e \in rest : /\ Recorded(e)'
                        /\ e.num \notin pktMgr'[e.from].listed
    <2> SUFFICES ASSUME NEW e \in rest
                 PROVE  Recorded(e)' /\ e.num \notin pktMgr'[e.from].listed
      OBVIOUS
    <2>1. Recorded(e) /\ e.num \notin pktMgr[e.from].listed
      BY DEF Flight, ListedNeverLeave
    <2>2. e.num <= m_MsgNo'[e.from]
      BY <1>2, <2>1 DEF Recorded
    <2> QED
      BY <2>1, <2>2 DEF Recorded
  <1>5. CASE out = Dropped
    <2>1. net' = rest /\ surplus' = [surplus EXCEPT ![d.client] = @ - 1]
      BY <1>1, <1>5
    <2>2. Flight' /\ ListedNeverLeave'
      BY <1>4, <2>1 DEF Flight, ListedNeverLeave
    <2> QED
      BY <1>2, <1>3, <2>1, <2>2
  <1>6. CASE out # Dropped
    <2>0. PICK more :
            /\ more = IF out = bytes THEN 0 ELSE 1
            /\ net' = rest \cup {Leaving(d, p, m_MsgNo[p] + 1, out, more)}
            /\ surplus' = surplus
      BY <1>1, <1>6 DEF Leaving
    <2>1. PICK f :
            /\ f = [client |-> d.client, from |-> p, to |-> d.to, num |-> m_MsgNo[p] + 1,
                    bytes |-> out, sent |-> d.sent, copy |-> d.copy, flips |-> d.flips + more]
            /\ net' = rest \cup {f} /\ surplus' = surplus
      BY <2>0, SentFields
    <2>2. /\ IsDatagram(f) /\ f.client = d.client /\ f.to = d.to /\ f.copy = d.copy
          /\ f.from = p /\ f.num = m_MsgNo[p] + 1
      BY <2>1 DEF IsDatagram
    <2>3. f \notin rest
      <3> SUFFICES ASSUME f \in rest
                   PROVE  FALSE
        OBVIOUS
      <3>1. f.num <= m_MsgNo[f.from]
        BY DEF Flight, Recorded
      <3> QED
        BY <2>2, <3>1
    <2>4. f.num \notin pktMgr[p].listed
      BY <1>6, <2>2, ListedIsDropped
    <2>5. Recorded(f)'
      <3>1. f.num <= m_MsgNo'[p] /\ f.num \in Nat
        BY <1>1, <2>2
      <3> QED
        BY <2>2, <3>1 DEF Recorded
    <2>6. Flight'
      BY <1>4, <2>1, <2>5 DEF Flight
    <2>7. ListedNeverLeave'
      BY <1>4, <2>1, <2>2, <2>4 DEF ListedNeverLeave
    <2>8. /\ IsFiniteSet(net')
          /\ \A c \in Clients : Cardinality(Of(c, net'))
                = Cardinality(Of(c, rest)) + (IF d.client = c THEN 1 ELSE 0)
      <3>1. IsFiniteSet(rest \cup {f})
        BY <1>3, FS_AddElement
      <3>2. ASSUME NEW c \in Clients
            PROVE  Cardinality(Of(c, rest \cup {f}))
                      = Cardinality(Of(c, rest)) + (IF f.client = c THEN 1 ELSE 0)
        BY <1>3, <2>3, OfAdd
      <3> QED
        BY <2>1, <2>2, <3>1, <3>2
    <2>9. ASSUME NEW c \in Clients
          PROVE  Cardinality(Of(c, net')) - surplus'[c]
                    = Cardinality(Of(c, rest)) - surplus[c] + (IF d.client = c THEN 1 ELSE 0)
      <3>1. Cardinality(Of(c, rest)) \in Nat /\ surplus[c] \in Int
        BY <1>3
      <3>2. Cardinality(Of(c, net'))
               = Cardinality(Of(c, rest)) + (IF d.client = c THEN 1 ELSE 0)
        BY <2>8
      <3>3. surplus'[c] = surplus[c]
        BY <2>1
      <3> QED
        BY <3>1, <3>2, <3>3
    <2> QED
      BY <1>2, <2>1, <2>6, <2>7, <2>8, <2>9
  <1> QED
    BY <1>5, <1>6

\* A datagram that is received or lost leaves nothing behind.
LEMMA Removal ==
    ASSUME IInv, NEW d \in net, net' = net \ {d}, UNCHANGED <<pktMgr, m_MsgNo>>,
           faults' \in Nat, faults <= faults'
    PROVE  /\ IsFiniteSet(net') /\ Flight' /\ ListedNeverLeave'
           /\ \A c \in Clients : Cardinality(Of(c, net'))
                 = Cardinality(Of(c, net)) - (IF d.client = c THEN 1 ELSE 0)
  <1>1. IsFiniteSet(net') /\ \A c \in Clients : Cardinality(Of(c, net'))
                 = Cardinality(Of(c, net)) - (IF d.client = c THEN 1 ELSE 0)
    BY OfRemove DEF IInv, TypeInv
  <1>2. Flight'
    BY DEF IInv, TypeInv, Flight, Recorded
  <1>3. ListedNeverLeave'
    BY DEF IInv, ListedNeverLeave
  <1> QED
    BY <1>1, <1>2, <1>3

\* Losing a datagram takes one off its client's surplus.
LEMMA Loss ==
    ASSUME IInv, NEW d \in net, net' = net \ {d},
           surplus' = [surplus EXCEPT ![d.client] = @ - 1],
           UNCHANGED <<pktMgr, m_MsgNo, clientvars>>, faults' \in Nat, faults <= faults'
    PROVE  IInv'
  <1>1. d.client \in Clients
    BY DEF IInv, Flight, Recorded
  <1>2. IsFiniteSet(net') /\ Flight' /\ ListedNeverLeave'
    BY Removal
  <1>3. surplus' \in [Clients -> Int]
    BY <1>1 DEF IInv, TypeInv
  <1>4. \A c \in Clients : Cardinality(Of(c, net')) = Due(c)'
    <2> SUFFICES ASSUME NEW c \in Clients
                 PROVE  Cardinality(Of(c, net')) = Due(c)'
      OBVIOUS
    <2>1. /\ Cardinality(Of(c, net')) = Cardinality(Of(c, net)) - (IF d.client = c THEN 1 ELSE 0)
          /\ Cardinality(Of(c, net)) = Due(c)
      BY Removal, InTheseTerms DEF IInv
    <2> QED
      BY <1>1, <2>1 DEF Due, clientvars, IInv, TypeInv
  <1>5. StopAndWait'
    BY <1>4 DEF StopAndWait, Of, Due
  <1> QED
    BY <1>2, <1>3, <1>5 DEF IInv, TypeInv, Addressed, clientvars
-----------------------------------------------------------------------------
LEMMA InitIInv == Init => IInv
  <1> SUFFICES ASSUME Init
               PROVE  IInv
    OBVIOUS
  <1> USE DEF Init
  <1>1. \A p \in Processes : IsManager(pktMgr[p])
    BY ConstructorMakes
  <1>2. IsFiniteSet(net) /\ Cardinality({}) = 0
    BY FS_EmptySet
  <1>3. TypeInv
    BY <1>1, <1>2 DEF TypeInv
  <1>4. Flight /\ Addressed /\ ListedNeverLeave
    BY DEF Flight, Addressed, ListedNeverLeave
  <1>5. \A c \in Clients : {d \in net : d.client = c} = {}
    OBVIOUS
  <1>6. StopAndWait
    BY <1>2, <1>5 DEF StopAndWait
  <1> QED
    BY <1>3, <1>4, <1>6 DEF IInv

\* A process that starts finds nothing in flight that it sent, or that it gets to.
LEMMA StartClientKeeps ==
    ASSUME IInv, NEW c \in Clients, StartClient(c)
    PROVE  IInv'
  <1> USE EchoAssumption DEF IInv
  <1>1. c \in Processes
    BY DEF Processes
  <1>2. PICK args \in Arguments :
          IF checkArgs_Client(args) /\ rateInRange(args.err)
          THEN /\ pktMgr' = [pktMgr EXCEPT ![c] = initialised(c, args.err)]
               /\ setupUdpClientToServer(c, args.host)
          ELSE /\ client' = [client EXCEPT ![c] = "ended"]
               /\ UNCHANGED <<server_address, pktMgr>>
    BY DEF StartClient
  <1>3. /\ DOMAIN pktMgr' = Processes
        /\ \A p \in Processes :
              IsManager(pktMgr'[p]) /\ pktMgr'[p].listed = pktMgr[p].listed
    <2>1. IsManager(initialised(c, args.err))
          /\ initialised(c, args.err).listed = pktMgr[c].listed
      BY <1>1, InitialisedKeeps DEF TypeInv
    <2> QED
      BY <1>1, <1>2, <2>1 DEF TypeInv
  <1>4. /\ client' \in [Clients -> {"start", "reading", "waiting", "ended"}]
        /\ \A e \in Clients : client'[e] = "waiting" <=> client[e] = "waiting"
        /\ DOMAIN server_address' = Clients
    BY <1>2 DEF StartClient, setupUdpClientToServer, TypeInv
  <1>5. Addressed'
    <2> SUFFICES ASSUME NEW e \in Clients, client'[e] \in {"reading", "waiting"}
                 PROVE  server_address'[e] \notin Clients
      BY DEF Addressed
    <2>1. CASE e # c
      BY <1>2, <2>1 DEF TypeInv, Addressed, setupUdpClientToServer
    <2>2. CASE e = c
      <3> DEFINE host == args.host
      <3>1. getIPAddress46(host) # Null /\ server_address'[c] = getIPAddress46(host)
        BY <1>2, <2>2 DEF TypeInv, StartClient, setupUdpClientToServer
      <3>2. Addresses[host] # <<>> /\ getIPAddress46(host) = Head(Addresses[host])
        BY <3>1 DEF getIPAddress46
      <3>3. Addresses[host] \in Seq(ToSet(Addresses[host]) \ Clients)
        OBVIOUS
      <3> QED
        BY <2>2, <3>1, <3>2, <3>3
    <2> QED
      BY <2>1, <2>2
  <1>6. Flight'
    BY DEF StartClient, Flight, Recorded
  <1>7. ListedNeverLeave'
    BY <1>3 DEF StartClient, ListedNeverLeave, Flight, Recorded
  <1>8. StopAndWait'
    BY <1>4 DEF StartClient, StopAndWait
  <1> QED
    BY <1>3, <1>4, <1>5, <1>6, <1>7, <1>8 DEF StartClient, TypeInv

LEMMA StartServerKeeps ==
    ASSUME IInv, StartServer
    PROVE  IInv'
  <1> USE DEF IInv
  <1>1. PICK args \in Arguments :
          pktMgr' = [pktMgr EXCEPT ![Server] = initialised(Server, args.err)]
          \/ UNCHANGED pktMgr
    BY DEF StartServer
  <1>2. /\ DOMAIN pktMgr' = Processes
        /\ \A p \in Processes :
              IsManager(pktMgr'[p]) /\ pktMgr'[p].listed = pktMgr[p].listed
    <2>1. IsManager(initialised(Server, args.err))
          /\ initialised(Server, args.err).listed = pktMgr[Server].listed
      BY InitialisedKeeps DEF TypeInv, Processes
    <2> QED
      BY <1>1, <2>1 DEF TypeInv, Processes
  <1>3. UNCHANGED <<m_MsgNo, clientvars, net, faults, surplus>>
    BY DEF StartServer
  <1>4. ListedNeverLeave'
    BY <1>2, <1>3 DEF ListedNeverLeave, Flight, Recorded
  <1>5. Flight'
    BY <1>3 DEF Flight, Recorded
  <1> QED
    BY <1>2, <1>3, <1>4, <1>5 DEF clientvars, TypeInv, Addressed, StopAndWait

LEMMA SendLineKeeps ==
    ASSUME IInv, NEW c \in Clients, SendLine(c)
    PROVE  IInv'
  <1> USE DEF IInv
  <1>1. PICK pdu, d :
          /\ d = [client |-> c, from |-> c, to |-> server_address[c], num |-> 0,
                  bytes |-> pdu, sent |-> pdu, flips |-> 0, copy |-> 0]
          /\ sendto(c, pdu, d, net)
    BY DEF SendLine
  <1>2. IsDatagram(d) /\ d.client = c /\ d.copy = 0 /\ d.to = server_address[c]
    BY <1>1 DEF IsDatagram
  <1>3. client[c] = "reading" /\ d.to \notin Clients
    BY <1>2 DEF SendLine, Addressed
  <1>4. sendto(c, pdu, d, net) /\ c \in Processes /\ net \subseteq net
        /\ d.copy \in 0 .. faults /\ UNCHANGED <<faults, pktMgr>>
    BY <1>1, <1>2 DEF SendLine, Processes, TypeInv
  <1>5. /\ m_MsgNo' \in [Processes -> Nat]
        /\ surplus' \in [Clients -> Int]
        /\ IsFiniteSet(net')
        /\ Flight'
        /\ ListedNeverLeave'
        /\ \A e \in Clients :
              Cardinality(Of(e, net')) - surplus'[e]
                 = Cardinality(Of(e, net)) - surplus[e] + (IF d.client = e THEN 1 ELSE 0)
    <2>1. IInv /\ UNCHANGED <<faults, pktMgr>> /\ c \in Processes /\ net \subseteq net
      BY <1>4
    <2>2. /\ IsDatagram(d) /\ d.client \in Clients /\ d.copy \in 0 .. faults
          /\ d.to \in Clients => d.to = d.client
      BY <1>2, <1>3, <1>4
    <2>3. sendto(c, pdu, d, net)
      BY <1>4
    <2> HIDE DEF IInv
    <2> QED
      BY <2>1, <2>2, <2>3, SendCounts
  <1>6. client' = [client EXCEPT ![c] = "waiting"] /\ UNCHANGED <<server_address, pktMgr, faults>>
    BY DEF SendLine
  <1>7. ASSUME NEW e \in Clients
        PROVE  Cardinality(Of(e, net')) = Due(e)'
    <2>1. Cardinality(Of(e, net)) = Due(e)
      BY InTheseTerms
    <2>2. Cardinality(Of(e, net')) \in Nat
      <3>1. IsFiniteSet(Of(e, net'))
        BY <1>5, FS_Subset DEF Of
      <3> QED
        BY <3>1, FS_CardinalityType
    <2>3. /\ Cardinality(Of(e, net')) - surplus'[e]
                 = Cardinality(Of(e, net)) - surplus[e] + (IF c = e THEN 1 ELSE 0)
          /\ surplus'[e] \in Int /\ surplus[e] \in Int
      BY <1>2, <1>5 DEF TypeInv
    <2>4. CASE e = c
      BY <1>3, <1>6, <2>1, <2>2, <2>3, <2>4 DEF Due, TypeInv
    <2>5. CASE e # c
      BY <1>6, <2>1, <2>2, <2>3, <2>5 DEF Due, TypeInv
    <2> QED
      BY <2>4, <2>5
  <1>8. StopAndWait'
    BY <1>7 DEF StopAndWait, Of, Due
  <1>9. Addressed'
    BY <1>3, <1>6 DEF Addressed, TypeInv
  <1> QED
    BY <1>5, <1>6, <1>8, <1>9 DEF TypeInv

LEMMA ReceiveEchoKeeps ==
    ASSUME IInv, NEW c \in Clients, ReceiveEcho(c)
    PROVE  IInv'
  <1> USE DEF IInv
  <1>1. PICK d \in net : d.to = c /\ net' = net \ {d}
    BY DEF ReceiveEcho
  <1>2. d.client = c
    BY <1>1 DEF Flight, Recorded
  <1>3. UNCHANGED <<pktMgr, m_MsgNo, server_address, faults, surplus>>
        /\ faults \in Nat
    BY DEF ReceiveEcho, TypeInv
  <1>4. /\ IsFiniteSet(net') /\ Flight' /\ ListedNeverLeave'
        /\ \A e \in Clients : Cardinality(Of(e, net'))
              = Cardinality(Of(e, net)) - (IF d.client = e THEN 1 ELSE 0)
    BY <1>1, <1>3, Removal
  <1>5. /\ client \in [Clients -> {"start", "reading", "waiting", "ended"}]
        /\ client[c] = "waiting"
        /\ \/ client' = [client EXCEPT ![c] = "ended"]
           \/ client' = [client EXCEPT ![c] = "reading"]
    BY DEF ReceiveEcho, TypeInv
  <1>6. ASSUME NEW e \in Clients
        PROVE  Cardinality(Of(e, net')) = Due(e)'
    <2>1. Cardinality(Of(e, net)) = Due(e) /\ surplus[e] \in Int
      BY InTheseTerms DEF TypeInv
    <2>2. CASE e = c
      BY <1>2, <1>3, <1>4, <1>5, <2>1, <2>2 DEF Due
    <2>3. CASE e # c
      BY <1>2, <1>3, <1>4, <1>5, <2>1, <2>3 DEF Due
    <2> QED
      BY <2>2, <2>3
  <1>7. StopAndWait'
    BY <1>6 DEF StopAndWait, Of, Due
  <1>8. Addressed'
    BY <1>3, <1>5 DEF Addressed
  <1> QED
    BY <1>3, <1>4, <1>5, <1>7, <1>8 DEF TypeInv

\* What the server sends back replaces what it received.
LEMMA EchoKeeps ==
    ASSUME IInv, Echo
    PROVE  IInv'
  <1>1. PICK d \in net :
          \E bytes : sendto(Server, bytes, [d EXCEPT !.to = d.client], net \ {d})
    BY DEF Echo
  <1>2. PICK bytes, e, rest :
          /\ e = [d EXCEPT !.to = d.client]
          /\ rest = net \ {d}
          /\ sendto(Server, bytes, e, rest)
    BY <1>1
  <1>3. /\ IsDatagram(d) /\ d.client \in Clients /\ d.copy \in Nat /\ d.copy <= faults
        /\ faults \in Nat
    BY DEF IInv, TypeInv, Flight, Recorded
  <1>4. IsDatagram(e) /\ e.client = d.client /\ e.copy = d.copy /\ e.to = d.client
    <2>1. e = [client |-> d.client, from |-> d.from, to |-> d.client, num |-> d.num,
               bytes |-> d.bytes, sent |-> d.sent, flips |-> d.flips, copy |-> d.copy]
      BY <1>2, <1>3 DEF IsDatagram
    <2> QED
      BY <2>1 DEF IsDatagram
  <1>5. UNCHANGED <<env, pktMgr, clientvars, faults>>
    BY DEF Echo
  <1>6. /\ m_MsgNo' \in [Processes -> Nat]
        /\ surplus' \in [Clients -> Int]
        /\ IsFiniteSet(net')
        /\ Flight'
        /\ ListedNeverLeave'
        /\ \A c \in Clients :
              Cardinality(Of(c, net')) - surplus'[c]
                 = Cardinality(Of(c, rest)) - surplus[c]
                      + (IF e.client = c THEN 1 ELSE 0)
    <2>1. IInv /\ UNCHANGED <<faults, pktMgr>> /\ Server \in Processes /\ rest \subseteq net
      BY <1>2, <1>5 DEF Processes
    <2>2. /\ IsDatagram(e) /\ e.client \in Clients /\ e.copy \in 0 .. faults
          /\ e.to \in Clients => e.to = e.client
      BY <1>3, <1>4
    <2>3. sendto(Server, bytes, e, rest)
      BY <1>2
    <2> QED
      BY <2>1, <2>2, <2>3, SendCounts
  <1>7. ASSUME NEW c \in Clients
        PROVE  Cardinality(Of(c, net')) = Due(c)'
    <2>1. Cardinality(Of(c, net)) = Due(c) /\ surplus[c] \in Int /\ surplus'[c] \in Int
      BY <1>6, InTheseTerms DEF IInv, TypeInv
    <2>2. Cardinality(Of(c, net')) \in Nat
      <3>1. IsFiniteSet(Of(c, net'))
        BY <1>6, FS_Subset DEF Of
      <3> QED
        BY <3>1, FS_CardinalityType
    <2>3. /\ Cardinality(Of(c, net)) \in Nat
          /\ Cardinality(Of(c, rest))
                = Cardinality(Of(c, net)) - (IF d.client = c THEN 1 ELSE 0)
      BY <1>2, OfRemove DEF IInv, TypeInv
    <2>4. Cardinality(Of(c, net')) - surplus'[c] = Cardinality(Of(c, net)) - surplus[c]
      BY <1>4, <1>6, <2>1, <2>3
    <2>5. client' = client
      BY <1>5 DEF clientvars
    <2> QED
      BY <2>1, <2>2, <2>3, <2>4, <2>5 DEF Due
  <1>8. StopAndWait'
    BY <1>7 DEF StopAndWait, Of, Due
  <1> QED
    BY <1>5, <1>6, <1>8 DEF IInv, TypeInv, Addressed, clientvars

LEMMA UnreachableKeeps ==
    ASSUME IInv, Unreachable
    PROVE  IInv'
  <1>1. PICK d \in net : /\ net' = net \ {d}
                         /\ surplus' = [surplus EXCEPT ![d.client] = @ - 1]
    BY DEF Unreachable
  <1>2. UNCHANGED <<pktMgr, m_MsgNo, clientvars>> /\ faults' \in Nat /\ faults <= faults'
    BY DEF Unreachable, IInv, TypeInv
  <1> QED
    BY <1>1, <1>2, Loss

\* The next fault makes a copy that was not there yet.
LEMMA FaultKeeps ==
    ASSUME IInv, Fault
    PROVE  IInv'
  <1>1. /\ UNCHANGED <<pktMgr, m_MsgNo, clientvars>> /\ faults \in Nat /\ faults' = faults + 1
        /\ faults' \in Nat /\ faults <= faults'
    BY DEF Fault, IInv, TypeInv
  <1>2. PICK d \in net :
          \/ /\ net' = net \ {d}
             /\ surplus' = [surplus EXCEPT ![d.client] = @ - 1]
          \/ /\ net' = net \cup {[d EXCEPT !.copy = faults + 1]}
             /\ surplus' = [surplus EXCEPT ![d.client] = @ + 1]
    BY DEF Fault
  <1>3. CASE net' = net \ {d} /\ surplus' = [surplus EXCEPT ![d.client] = @ - 1]
    BY <1>1, <1>3, Loss
  <1>4. CASE /\ net' = net \cup {[d EXCEPT !.copy = faults + 1]}
             /\ surplus' = [surplus EXCEPT ![d.client] = @ + 1]
    <2>1. PICK e : e = [d EXCEPT !.copy = faults + 1] /\ net' = net \cup {e}
      BY <1>4
    <2>2. Recorded(d) /\ d.num \notin pktMgr[d.from].listed
      BY DEF IInv, Flight, ListedNeverLeave
    <2>3. e = [client |-> d.client, from |-> d.from, to |-> d.to, num |-> d.num,
               bytes |-> d.bytes, sent |-> d.sent, flips |-> d.flips, copy |-> faults + 1]
      BY <2>1, <2>2 DEF Recorded, IsDatagram
    <2>4. /\ IsDatagram(e) /\ e.client = d.client /\ e.from = d.from /\ e.to = d.to
          /\ e.num = d.num /\ e.copy = faults + 1
      BY <2>3 DEF IsDatagram
    <2>5. e \notin net
      BY <1>1, <2>4 DEF IInv, Flight, Recorded
    <2>6. Recorded(e)'
      BY <1>1, <2>2, <2>4 DEF Recorded
    <2>7. Flight'
      <3>1. ASSUME NEW f \in net
            PROVE  Recorded(f)'
        BY <1>1 DEF IInv, Flight, Recorded
      <3> QED
        BY <2>1, <2>6, <3>1 DEF Flight
    <2>8. ListedNeverLeave'
      BY <1>1, <2>1, <2>2, <2>4 DEF IInv, ListedNeverLeave
    <2>9. IsFiniteSet(net') /\ surplus' \in [Clients -> Int]
      BY <1>4, <2>1, <2>2, FS_AddElement DEF IInv, TypeInv, Recorded
    <2>10. ASSUME NEW c \in Clients
           PROVE  Cardinality(Of(c, net')) = Due(c)'
      <3>1. Cardinality(Of(c, net)) = Due(c) /\ surplus[c] \in Int
        BY InTheseTerms DEF IInv, TypeInv
      <3>2. Cardinality(Of(c, net'))
               = Cardinality(Of(c, net)) + (IF d.client = c THEN 1 ELSE 0)
        <4>1. Cardinality(Of(c, net \cup {e}))
                 = Cardinality(Of(c, net)) + (IF e.client = c THEN 1 ELSE 0)
          BY <2>5, OfAdd DEF IInv, TypeInv
        <4> QED
          BY <2>1, <2>4, <4>1
      <3>3. surplus'[c] = surplus[c] + (IF d.client = c THEN 1 ELSE 0)
        BY <1>4, <3>1 DEF IInv, TypeInv
      <3> QED
        BY <1>1, <3>1, <3>2, <3>3 DEF Due, clientvars
    <2>11. StopAndWait'
      BY <2>10 DEF StopAndWait, Of, Due
    <2> QED
      BY <1>1, <2>7, <2>8, <2>9, <2>11 DEF IInv, TypeInv, Addressed, clientvars
  <1> QED
    BY <1>2, <1>3, <1>4

LEMMA NextKeeps == IInv /\ [Next]_vars => IInv'
  <1> SUFFICES ASSUME IInv, [Next]_vars
               PROVE  IInv'
    OBVIOUS
  <1>1. CASE StartServer
    BY <1>1, StartServerKeeps
  <1>2. CASE Echo
    BY <1>2, EchoKeeps
  <1>3. CASE Unreachable
    BY <1>3, UnreachableKeeps
  <1>4. CASE Fault
    BY <1>4, FaultKeeps
  <1>5. ASSUME NEW c \in Clients, StartClient(c) \/ SendLine(c) \/ ReceiveEcho(c)
        PROVE  IInv'
    BY <1>5, StartClientKeeps, SendLineKeeps, ReceiveEchoKeeps
  <1>6. CASE UNCHANGED vars
    BY <1>6 DEF vars, clientvars, IInv, TypeInv, Flight, Recorded, Addressed,
                ListedNeverLeave, StopAndWait
  <1> QED
    BY <1>1, <1>2, <1>3, <1>4, <1>5, <1>6 DEF Next

LEMMA Invariance == Spec => []IInv
  <1> QED
    BY InitIInv, NextKeeps, PTL DEF Spec
-----------------------------------------------------------------------------
\* What in_cksum makes of a buffer.  The fold of sum is a recursion on sets of
\* places: what it computes is proved by taking a least counterexample, a number or
\* a set.

\* What a byte counts at place i, and what it adds to the sum there.
Weight(i) == IF i % 2 = 1 THEN 1 ELSE 256
Summand(buf, i) == buf[i] * Weight(i)

\* A set of numbers that is not empty has a least one.
LEMMA LeastNumber ==
    ASSUME NEW T, T \subseteq Nat, T # {}
    PROVE  \E m \in T : \A k \in T : m <= k
  <1>1. IsWellFoundedOn({ss \in Nat \X Nat : ss[1] < ss[2]}, Nat)
    BY NatLessThanWellFounded, Zenon DEF OpToRel
  <1>2. PICK m \in T : \A k \in T : ~(<<k, m>> \in {ss \in Nat \X Nat : ss[1] < ss[2]})
    BY <1>1, WFMin, Zenon
  <1>3. ASSUME NEW k \in T PROVE m <= k
    <2>1. k \in Nat /\ m \in Nat /\ <<k, m>> \in Nat \X Nat
      OBVIOUS
    <2>2. ~(<<k, m>>[1] < <<k, m>>[2])
      BY <1>2, <2>1
    <2> QED
      BY <2>1, <2>2
  <1> QED
    BY <1>3

\* The place that the fold takes next, and the recursion it is.
pick(s) == CHOOSE x \in s : TRUE
Adds(buf, iter) ==
    iter = [s \in SUBSET DOMAIN buf |->
              IF s = {} THEN 0
              ELSE buf[pick(s)] * Weight(pick(s)) + iter[s \ {pick(s)}]]

LEMMA SumAdds ==
    ASSUME NEW buf
    PROVE  sum(buf) = (CHOOSE iter : Adds(buf, iter))[DOMAIN buf]
  BY Zenon DEF sum, MapThenSumSet, MapThenFoldSet, Adds, Weight, pick

\* The recursion of the sum has a solution: there is one up to every size.
LEMMA Solution ==
    ASSUME NEW buf, IsFiniteSet(DOMAIN buf)
    PROVE  \E iter : Adds(buf, iter)
  <1> DEFINE S == DOMAIN buf
             Step(g) == [s \in SUBSET S |->
                            IF s = {} THEN 0
                            ELSE buf[pick(s)] * Weight(pick(s)) + g[s \ {pick(s)}]]
             UpTo(g, n) == \A s \in SUBSET S : Cardinality(s) <= n => g[s] = Step(g)[s]
             Bad == {n \in Nat : ~ \E g : UpTo(g, n)}
  <1>1. \A s \in SUBSET S : IsFiniteSet(s) /\ Cardinality(s) \in Nat
    BY FS_Subset, FS_CardinalityType
  <1>2. ASSUME NEW g, NEW n \in Nat, UpTo(g, n)
        PROVE  UpTo(Step(g), n + 1)
    <2> SUFFICES ASSUME NEW s \in SUBSET S, Cardinality(s) <= n + 1
                 PROVE  Step(g)[s] = Step(Step(g))[s]
      OBVIOUS
    <2>1. CASE s = {}
      BY <2>1
    <2>2. CASE s # {}
      <3>1. pick(s) \in s
        BY <2>2 DEF pick
      <3>2. PICK t : t = s \ {pick(s)}
        OBVIOUS
      <3>3. t \in SUBSET S /\ Cardinality(t) <= n
        <4>1. IsFiniteSet(s) /\ Cardinality(s) \in Nat
          BY <1>1
        <4>2. Cardinality(t) = Cardinality(s) - 1
          BY <3>1, <3>2, <4>1, FS_RemoveElement
        <4>3. t \in SUBSET S
          BY <3>2
        <4> QED
          BY <4>1, <4>2, <4>3
      <3>4. g[t] = Step(g)[t]
        BY <1>2, <3>3
      <3>5. Step(g)[s] = buf[pick(s)] * Weight(pick(s)) + g[t]
        BY <2>2, <3>2
      <3>6. Step(Step(g))[s] = buf[pick(s)] * Weight(pick(s)) + Step(g)[t]
        <4> DEFINE h == Step(g)
        <4> HIDE DEF h
        <4>1. Step(h)[s] = buf[pick(s)] * Weight(pick(s)) + h[t]
          BY <2>2, <3>2
        <4> QED
          BY <4>1 DEF h
      <3> QED
        BY <3>4, <3>5, <3>6
    <2> QED
      BY <2>1, <2>2
  <1> HIDE DEF Step
  <1>3. UpTo(Step(buf), 0)
    <2>1. \A s \in SUBSET S : Cardinality(s) <= 0 => s = {}
      BY <1>1, FS_EmptySet
    <2>2. \A g : Step(g)[{}] = 0
      BY DEF Step
    <2> QED
      BY <2>1, <2>2
  <1>4. \A n \in Nat : \E g : UpTo(g, n)
    <2> SUFFICES ASSUME Bad # {} PROVE FALSE
      OBVIOUS
    <2>1. PICK m \in Bad : \A k \in Bad : m <= k
      BY LeastNumber
    <2>2. m # 0
      BY <1>3, <2>1
    <2>3. m - 1 \in Nat /\ m - 1 \notin Bad /\ (m - 1) + 1 = m
      BY <2>1, <2>2
    <2>4. PICK g : UpTo(g, m - 1)
      BY <2>3
    <2>5. UpTo(Step(g), m)
      BY <1>2, <2>3, <2>4
    <2> QED
      BY <2>1, <2>5
  <1>5. PICK g : UpTo(g, Cardinality(S))
    BY <1>1, <1>4
  <1>6. \A s \in SUBSET S : g[s] = Step(g)[s]
    BY <1>1, <1>5, FS_Subset
  <1>7. PICK h : h = Step(g)
    OBVIOUS
  <1>8. h = Step(h)
    <2>1. \A s \in SUBSET S : h[s] = Step(h)[s]
      <3> SUFFICES ASSUME NEW s \in SUBSET S PROVE Step(g)[s] = Step(h)[s]
        BY <1>7
      <3>1. \A t \in SUBSET S : g[t] = h[t]
        BY <1>6, <1>7
      <3>2. s # {} => s \ {pick(s)} \in SUBSET S
        OBVIOUS
      <3> QED
        BY <3>1, <3>2 DEF Step
    <2>2. h = [s \in SUBSET S |-> h[s]]
      BY <1>7 DEF Step
    <2>3. Step(h) = [s \in SUBSET S |-> Step(h)[s]]
      BY DEF Step
    <2> QED
      BY <2>1, <2>2, <2>3
  <1> QED
    BY <1>8 DEF Step, Adds

\* The sum of the places in s.
SumOver(buf) == CHOOSE iter : Adds(buf, iter)

\* It adds the places one by one.
LEMMA SumSteps ==
    ASSUME NEW buf, IsFiniteSet(DOMAIN buf)
    PROVE  /\ sum(buf) = SumOver(buf)[DOMAIN buf]
           /\ SumOver(buf)[{}] = 0
           /\ \A s \in SUBSET DOMAIN buf : s # {} =>
                 /\ pick(s) \in s
                 /\ SumOver(buf)[s] = Summand(buf, pick(s)) + SumOver(buf)[s \ {pick(s)}]
  <1>1. Adds(buf, SumOver(buf))
    BY Solution DEF SumOver
  <1>2. PICK g : g = SumOver(buf)
    OBVIOUS
  <1>3. sum(buf) = g[DOMAIN buf]
    BY <1>2, SumAdds DEF SumOver
  <1>4. g = [s \in SUBSET DOMAIN buf |->
              IF s = {} THEN 0 ELSE Summand(buf, pick(s)) + g[s \ {pick(s)}]]
    BY <1>1, <1>2 DEF Adds, Summand
  <1>5. g[{}] = 0
    BY <1>4
  <1>6. ASSUME NEW s \in SUBSET DOMAIN buf, s # {}
        PROVE  pick(s) \in s /\ g[s] = Summand(buf, pick(s)) + g[s \ {pick(s)}]
    <2>1. pick(s) \in s
      BY <1>6 DEF pick
    <2> QED
      BY <1>4, <1>6, <2>1
  <1> QED
    BY <1>2, <1>3, <1>5, <1>6

\* A set of subsets of a finite set that is not empty has one that contains no other.
LEMMA LeastSubset ==
    ASSUME NEW S, IsFiniteSet(S), NEW B, B \subseteq SUBSET S, B # {}
    PROVE  \E s \in B : \A x \in s : s \ {x} \notin B
  <1>1. \A s \in B : IsFiniteSet(s) /\ Cardinality(s) \in Nat
    BY FS_Subset, FS_CardinalityType
  <1> DEFINE T == {Cardinality(s) : s \in B}
  <1>2. PICK m \in T : \A k \in T : m <= k
    <2>1. T \subseteq Nat /\ T # {}
      BY <1>1
    <2> HIDE DEF T
    <2> QED
      BY <2>1, LeastNumber
  <1>3. PICK s \in B : m = Cardinality(s)
    OBVIOUS
  <1>4. ASSUME NEW x \in s, s \ {x} \in B PROVE FALSE
    <2>1. Cardinality(s \ {x}) = Cardinality(s) - 1
      BY <1>1, FS_RemoveElement
    <2>2. Cardinality(s) <= Cardinality(s \ {x})
      BY <1>2, <1>3, <1>4
    <2> QED
      BY <1>1, <2>1, <2>2
  <1> QED
    BY <1>4

\* What a char of a buffer holds.
Bytes == 0 .. Byte - 1

LEMMA WeightIs ==
    ASSUME NEW i
    PROVE  Weight(i) = 1 \/ Weight(i) = 256
  BY DEF Weight

LEMMA BytesAre == \A x : x \in Bytes <=> x \in Nat /\ x <= 255
  <1>1. \A x : x \in 0 .. Byte - 1 <=> x \in Nat /\ x <= Byte - 1
    <2>1. Byte \in Nat /\ Byte # 0
      BY DEF Byte
    <2> QED
      BY <2>1
  <1>2. Byte - 1 = 255
    BY DEF Byte
  <1> QED
    BY <1>1, <1>2 DEF Bytes

\* What a byte adds to the sum.
LEMMA SummandIs ==
    ASSUME NEW buf \in Seq(Bytes), NEW i \in 1 .. Len(buf)
    PROVE  /\ buf[i] \in Nat /\ buf[i] <= 255
           /\ Summand(buf, i) \in Nat /\ Summand(buf, i) <= 65280
           /\ \/ Summand(buf, i) = buf[i]
              \/ Summand(buf, i) = 256 * buf[i]
  <1>1. buf[i] \in Nat /\ buf[i] <= 255
    <2>1. buf[i] \in Bytes
      OBVIOUS
    <2> QED
      BY <2>1, BytesAre
  <1>2. PICK x \in Nat : x = buf[i] /\ x <= 255
    BY <1>1
  <1>3. CASE Weight(i) = 1
    <2>1. Summand(buf, i) = x
      BY <1>2, <1>3 DEF Summand
    <2> QED
      BY <1>2, <1>3, <2>1
  <1>4. CASE Weight(i) = 256
    <2>1. Summand(buf, i) = 256 * x
      BY <1>2, <1>4 DEF Summand
    <2> QED
      BY <1>2, <1>4, <2>1
  <1> QED
    BY <1>3, <1>4, WeightIs

\* The sum of a buffer of bytes, and a bound of it.
LEMMA SumBound ==
    ASSUME NEW buf \in Seq(Bytes)
    PROVE  sum(buf) \in Nat /\ sum(buf) <= 65280 * Len(buf)
  <1>1. /\ IsFiniteSet(DOMAIN buf) /\ Cardinality(DOMAIN buf) = Len(buf) /\ Len(buf) \in Nat
        /\ DOMAIN buf = 1 .. Len(buf)
    <2>1. Len(buf) \in Nat /\ DOMAIN buf = 1 .. Len(buf)
      OBVIOUS
    <2>2. \A n \in Nat : IsFiniteSet(1 .. n) /\ Cardinality(1 .. n) = n
      BY FS_Interval
    <2> QED
      BY <2>1, <2>2
  <1> DEFINE Small(s) == /\ SumOver(buf)[s] \in Nat
                         /\ SumOver(buf)[s] <= 65280 * Cardinality(s)
             B == {s \in SUBSET DOMAIN buf : ~Small(s)}
  <1>2. \A i \in DOMAIN buf : Summand(buf, i) \in Nat /\ Summand(buf, i) <= 65280
    BY <1>1, SummandIs
  <1>3. \A s \in SUBSET DOMAIN buf : IsFiniteSet(s) /\ Cardinality(s) \in Nat
    BY <1>1, FS_Subset, FS_CardinalityType
  <1>4. \A s \in SUBSET DOMAIN buf : s # {} =>
           /\ pick(s) \in s
           /\ SumOver(buf)[s] = Summand(buf, pick(s)) + SumOver(buf)[s \ {pick(s)}]
    BY <1>1, SumSteps
  <1>5. Small({})
    <2>1. Cardinality({}) = 0
      BY FS_EmptySet
    <2>2. SumOver(buf)[{}] = 0
      BY <1>1, SumSteps
    <2> QED
      BY <2>1, <2>2
  <1>6. ASSUME NEW s \in SUBSET DOMAIN buf, NEW x \in s, Small(s \ {x}),
               SumOver(buf)[s] = Summand(buf, x) + SumOver(buf)[s \ {x}]
        PROVE  Small(s)
    <2>1. Cardinality(s \ {x}) = Cardinality(s) - 1 /\ Cardinality(s) \in Nat
      BY <1>3, FS_RemoveElement
    <2>2. Summand(buf, x) \in Nat /\ Summand(buf, x) <= 65280
      BY <1>2
    <2> QED
      BY <1>6, <2>1, <2>2
  <1> HIDE DEF Small
  <1>7. B = {}
    <2> SUFFICES ASSUME B # {} PROVE FALSE
      OBVIOUS
    <2>1. PICK s \in B : \A x \in s : s \ {x} \notin B
      <3>1. B \subseteq SUBSET DOMAIN buf
        OBVIOUS
      <3> HIDE DEF B
      <3> QED
        BY <1>1, <3>1, LeastSubset
    <2>2. s \in SUBSET DOMAIN buf /\ ~Small(s)
      BY <2>1
    <2>3. s # {}
      BY <1>5, <2>2
    <2>4. PICK x \in s : SumOver(buf)[s] = Summand(buf, x) + SumOver(buf)[s \ {x}]
      BY <1>4, <2>2, <2>3
    <2>5. s \ {x} \in SUBSET DOMAIN buf /\ s \ {x} \notin B
      BY <2>1, <2>2
    <2>6. Small(s \ {x})
      BY <2>5
    <2> QED
      BY <1>6, <2>2, <2>4, <2>6
  <1>8. Small(DOMAIN buf)
    BY <1>7
  <1>9. sum(buf) = SumOver(buf)[DOMAIN buf]
    BY <1>1, SumSteps
  <1> QED
    BY <1>1, <1>8, <1>9 DEF Small

\* Changing one byte changes the sum by the difference, in the byte's place.
LEMMA OneChange ==
    ASSUME NEW a \in Seq(Bytes), NEW b \in Seq(Bytes), Len(a) = Len(b), NEW k \in 1 .. Len(a),
           \A i \in 1 .. Len(a) : i # k => a[i] = b[i]
    PROVE  sum(a) - sum(b) = Summand(a, k) - Summand(b, k)
  <1>1. /\ IsFiniteSet(DOMAIN a) /\ DOMAIN a = 1 .. Len(a) /\ DOMAIN b = DOMAIN a
        /\ Len(a) \in Nat
    BY FS_Interval
  <1> DEFINE diff == Summand(a, k) - Summand(b, k)
             Right(s) == /\ SumOver(a)[s] \in Int /\ SumOver(b)[s] \in Int
                         /\ SumOver(a)[s] - SumOver(b)[s] = IF k \in s THEN diff ELSE 0
             B == {s \in SUBSET DOMAIN a : ~Right(s)}
  <1>2. \A i \in DOMAIN a : Summand(a, i) \in Int /\ Summand(b, i) \in Int
    BY <1>1, SummandIs
  <1>3. \A i \in DOMAIN a : i # k => Summand(a, i) = Summand(b, i)
    BY <1>1 DEF Summand
  <1>4. \A s \in SUBSET DOMAIN a : s # {} =>
           /\ pick(s) \in s
           /\ SumOver(a)[s] = Summand(a, pick(s)) + SumOver(a)[s \ {pick(s)}]
           /\ SumOver(b)[s] = Summand(b, pick(s)) + SumOver(b)[s \ {pick(s)}]
    BY <1>1, SumSteps
  <1>5. Right({})
    <2>1. SumOver(a)[{}] = 0 /\ SumOver(b)[{}] = 0
      BY <1>1, SumSteps
    <2> QED
      BY <2>1
  <1>6. ASSUME NEW s \in SUBSET DOMAIN a, NEW x \in s, Right(s \ {x}),
               SumOver(a)[s] = Summand(a, x) + SumOver(a)[s \ {x}],
               SumOver(b)[s] = Summand(b, x) + SumOver(b)[s \ {x}]
        PROVE  Right(s)
    <2>1. x \in DOMAIN a /\ Summand(a, x) \in Int /\ Summand(b, x) \in Int
      BY <1>2
    <2>2. /\ SumOver(a)[s \ {x}] \in Int /\ SumOver(b)[s \ {x}] \in Int
          /\ SumOver(a)[s \ {x}] - SumOver(b)[s \ {x}] = IF k \in s \ {x} THEN diff ELSE 0
      BY <1>6
    <2>3. PICK p, q : p = SumOver(a)[s \ {x}] /\ q = SumOver(b)[s \ {x}]
      OBVIOUS
    <2>4. /\ p \in Int /\ q \in Int /\ p - q = IF k \in s \ {x} THEN diff ELSE 0
          /\ SumOver(a)[s] = Summand(a, x) + p /\ SumOver(b)[s] = Summand(b, x) + q
      BY <1>6, <2>2, <2>3
    <2>5. CASE x = k
      <3>1. p = q
        BY <2>4, <2>5
      <3>2. Summand(a, x) + p - (Summand(b, x) + q) = Summand(a, x) - Summand(b, x)
        BY <2>1, <2>4, <3>1
      <3> QED
        BY <2>1, <2>4, <2>5, <3>2
    <2>6. CASE x # k
      <3>1. /\ Summand(a, x) = Summand(b, x)
            /\ k \in s <=> k \in s \ {x}
        BY <1>3, <2>1, <2>6
      <3>2. Summand(a, x) + p - (Summand(b, x) + q) = p - q
        BY <2>1, <2>4, <3>1
      <3> QED
        BY <2>1, <2>4, <3>1, <3>2
    <2> QED
      BY <2>5, <2>6
  <1> HIDE DEF Right
  <1>7. B = {}
    <2> SUFFICES ASSUME B # {} PROVE FALSE
      OBVIOUS
    <2>1. PICK s \in B : \A x \in s : s \ {x} \notin B
      <3>1. B \subseteq SUBSET DOMAIN a
        OBVIOUS
      <3> HIDE DEF B
      <3> QED
        BY <1>1, <3>1, LeastSubset
    <2>2. s \in SUBSET DOMAIN a /\ ~Right(s)
      BY <2>1
    <2>3. s # {}
      BY <1>5, <2>2
    <2>4. PICK x \in s : /\ SumOver(a)[s] = Summand(a, x) + SumOver(a)[s \ {x}]
                         /\ SumOver(b)[s] = Summand(b, x) + SumOver(b)[s \ {x}]
      BY <1>4, <2>2, <2>3
    <2>5. s \ {x} \in SUBSET DOMAIN a /\ s \ {x} \notin B
      BY <2>1, <2>2
    <2>6. Right(s \ {x})
      BY <2>5
    <2> QED
      BY <1>6, <2>2, <2>4, <2>6
  <1>8. Right(DOMAIN a)
    BY <1>7
  <1>9. sum(a) = SumOver(a)[DOMAIN a] /\ sum(b) = SumOver(b)[DOMAIN a]
    BY <1>1, SumSteps
  <1> QED
    BY <1>1, <1>8, <1>9 DEF Right

\* The carries added back, twice: the sum less a multiple of 65535, zero only for zero.
Folded(s) ==
    LET folded == (s \div 65536) + (s % 65536)
        twice  == folded + (folded \div 65536)
    IN  twice % 65536

Fits32(s) == s < 65536 * 65536

LEMMA Folding ==
    ASSUME NEW s \in Nat, Fits32(s)
    PROVE  /\ Folded(s) \in Nat /\ Folded(s) <= 65535 /\ (Folded(s) = 0 <=> s = 0)
           /\ \E k \in Nat : s = Folded(s) + 65535 * k
  <1>1. PICK q \in Nat, r \in Nat : /\ q = s \div 65536 /\ r = s % 65536
                                    /\ s = 65536 * q + r /\ r <= 65535 /\ q <= 65535
    BY DEF Fits32
  <1>2. PICK t \in Nat : t = q + r /\ t <= 131070
    BY <1>1
  <1>3. s = 65536 * q + r
    BY <1>1
  <1> DEFINE f == (t + (t \div 65536)) % 65536
  <1>4. PICK k \in Nat : s = f + 65535 * k /\ f \in Nat /\ f <= 65535 /\ (f = 0 <=> t = 0)
    <2>1. s = t + 65535 * q
      <3> HIDE <1>1
      <3> QED
        BY <1>2, <1>3
    <2>2. CASE t <= 65535
      <3>1. f = t
        BY <1>2, <2>2
      <3> HIDE DEF f
      <3> QED
        BY <2>1, <2>2, <3>1
    <2>3. CASE t >= 65536
      <3>1. f = t - 65535
        BY <1>2, <2>3
      <3>2. s = (t - 65535) + 65535 * (q + 1)
        BY <2>1
      <3> HIDE DEF f
      <3> QED
        BY <1>2, <2>3, <3>1, <3>2
    <2> QED
      BY <1>2, <2>2, <2>3
  <1>5. t = 0 <=> s = 0
    BY <1>2, <1>3
  <1>6. t = (s \div 65536) + (s % 65536)
    <2>1. q = s \div 65536 /\ r = s % 65536
      BY <1>1
    <2>2. t = q + r
      BY <1>2
    <2> QED
      BY <2>1, <2>2
  <1> HIDE DEF f
  <1>7. f \in Nat /\ f <= 65535 /\ (f = 0 <=> s = 0) /\ \E n \in Nat : s = f + 65535 * n
    BY <1>4, <1>5
  <1>8. f = Folded(s)
    BY <1>6 DEF f, Folded
  <1> QED
    BY <1>7, <1>8

\* The number with every bit set.
Ones == 65535

\* in_cksum adds to the sum what is missing to a multiple of it, and not to zero.
LEMMA Complement ==
    ASSUME NEW b \in Seq(Bytes), Len(b) <= Ones
    PROVE  /\ in_cksum(b) \in Nat /\ in_cksum(b) <= Ones
           /\ \E n \in Nat : n # 0 /\ sum(b) + in_cksum(b) = Ones * n
           /\ in_cksum(b) = Ones <=> sum(b) = 0
  <1>1. PICK l \in Nat : l = Len(b)
    OBVIOUS
  <1>2. PICK s \in Nat : s = sum(b) /\ s <= 65280 * l
    BY <1>1, SumBound
  <1>3. Fits32(s)
    <2>1. l <= 65535
      BY <1>1, SMT DEF Ones
    <2> QED
      BY <1>2, <2>1, SMT DEF Fits32
  <1>4. PICK f : f = Folded(s)
    OBVIOUS
  <1>5. f \in Nat /\ f <= 65535 /\ (f = 0 <=> s = 0)
    <2>1. /\ Folded(s) \in Nat /\ Folded(s) <= 65535
          /\ Folded(s) = 0 <=> s = 0
      BY <1>3, Folding, SMT
    <2> QED
      BY <1>4, <2>1, SMT
  <1>6. PICK k \in Nat : s = f + 65535 * k
    <2>1. \E k \in Nat : s = Folded(s) + 65535 * k
      BY <1>3, Folding, SMT
    <2> QED
      BY <1>4, <2>1, SMT
  <1>7. PICK c : c = 65535 - f
    OBVIOUS
  <1>8. in_cksum(b) = c
    <2>1. in_cksum(b) = 65536 - 1 - Folded(sum(b))
      BY SMT DEF in_cksum, Word16, Folded
    <2>2. Folded(sum(b)) = f
      BY <1>2, <1>4
    <2>3. 65536 - 1 - f = c
      BY <1>5, <1>7, SMT
    <2> QED
      BY <2>1, <2>2, <2>3, SMT
  <1>9. c \in Nat /\ c <= Ones /\ (c = Ones <=> s = 0)
    BY <1>5, <1>7, SMT DEF Ones
  <1>10. PICK n \in Nat : n # 0 /\ s + c = Ones * n
    <2>1. k + 1 \in Nat /\ k + 1 # 0
      OBVIOUS
    <2>2. s + c = Ones * (k + 1)
      BY <1>5, <1>6, <1>7, SMT DEF Ones
    <2> QED
      BY <2>1, <2>2
  <1> QED
    BY <1>2, <1>8, <1>9, <1>10

\* The checksum is 0 just for the buffers whose sum is such a multiple itself.
Balanced(b) == \E n \in Nat : n # 0 /\ sum(b) = Ones * n

LEMMA ZeroIfBalanced ==
    ASSUME NEW b \in Seq(Bytes), Len(b) <= Ones
    PROVE  in_cksum(b) = 0 <=> Balanced(b)
  <1>1. PICK s \in Nat : s = sum(b)
    BY SumBound
  <1>2. PICK c \in Nat : c = in_cksum(b)
    BY Complement
  <1>3. c <= Ones /\ (c = Ones <=> s = 0)
    BY <1>1, <1>2, Complement
  <1>4. PICK n \in Nat : n # 0 /\ s + c = Ones * n
    BY <1>1, <1>2, Complement
  <1>5. c = 0 => s = Ones * n
    BY <1>4, SMT DEF Ones
  <1>6. ASSUME NEW m \in Nat, m # 0, s = Ones * m
        PROVE  c = 0
    <2>1. s # 0
      BY <1>6, SMT DEF Ones
    <2>2. PICK k \in Int : n = m + k
      <3>1. n - m \in Int /\ n = m + (n - m)
        OBVIOUS
      <3> QED
        BY <3>1
    <2>3. c = 65535 * k
      BY <1>4, <1>6, <2>2, SMT DEF Ones
    <2>4. c < 65535
      BY <1>3, <2>1, SMT DEF Ones
    <2> QED
      BY <2>3, <2>4, SMT
  <1>7. c = 0 <=> \E m \in Nat : m # 0 /\ s = Ones * m
    BY <1>4, <1>5, <1>6
  <1> QED
    BY <1>1, <1>2, <1>7 DEF Balanced

\* A buffer with one byte flipped.
Flipped(b, i) == [b EXCEPT ![i] = Byte - 1 - @]

\* It is another one, and the same elsewhere.
LEMMA FlippedIs ==
    ASSUME NEW b \in Seq(Bytes), NEW i \in 1 .. Len(b)
    PROVE  /\ Flipped(b, i) \in Seq(Bytes) /\ Len(Flipped(b, i)) = Len(b)
           /\ Flipped(b, i)[i] = 255 - b[i] /\ Flipped(b, i) # b
           /\ \A j \in 1 .. Len(b) : j # i => Flipped(b, i)[j] = b[j]
  <1>1. b[i] \in Nat /\ b[i] <= 255
    BY SummandIs
  <1>2. PICK x : x = Byte - 1 - b[i]
    OBVIOUS
  <1>3. x = 255 - b[i] /\ x \in Nat /\ x <= 255 /\ x # b[i]
    BY <1>1, <1>2 DEF Byte
  <1>4. x \in Bytes
    BY <1>3, BytesAre
  <1>5. Flipped(b, i) = [b EXCEPT ![i] = x]
    BY <1>2 DEF Flipped
  <1>6. /\ [b EXCEPT ![i] = x] \in Seq(Bytes) /\ Len([b EXCEPT ![i] = x]) = Len(b)
        /\ [b EXCEPT ![i] = x][i] = x
        /\ \A j \in 1 .. Len(b) : j # i => [b EXCEPT ![i] = x][j] = b[j]
    BY <1>4, ExceptSeq
  <1> QED
    BY <1>3, <1>5, <1>6

\* One flipped byte does not leave the sum a multiple of 65535.
LEMMA FlipUnbalances ==
    ASSUME NEW b \in Seq(Bytes), Balanced(b), NEW i \in 1 .. Len(b)
    PROVE  ~Balanced(Flipped(b, i))
  <1>1. PICK c \in Seq(Bytes) : /\ c = Flipped(b, i) /\ Len(c) = Len(b)
                                /\ c[i] = 255 - b[i]
                                /\ \A j \in 1 .. Len(b) : j # i => c[j] = b[j]
    BY FlippedIs
  <1>2. sum(b) \in Nat /\ sum(c) \in Nat
    BY SumBound
  <1>3. sum(b) - sum(c) = Summand(b, i) - Summand(c, i)
    BY <1>1, OneChange
  <1>4. PICK x \in Nat : x = b[i] /\ x <= 255
    BY SummandIs
  <1>5. \/ Summand(b, i) = x /\ Summand(c, i) = 255 - x
        \/ Summand(b, i) = 256 * x /\ Summand(c, i) = 256 * (255 - x)
    <2>1. Summand(b, i) = x * Weight(i) /\ Summand(c, i) = (255 - x) * Weight(i)
      BY <1>1, <1>4 DEF Summand
    <2>2. CASE Weight(i) = 1
      BY <1>4, <2>1, <2>2
    <2>3. CASE Weight(i) = 256
      BY <1>4, <2>1, <2>3
    <2> QED
      BY <2>2, <2>3, WeightIs
  <1>6. PICK n \in Nat : sum(b) = Ones * n
    BY DEF Balanced
  <1>7. ASSUME NEW m \in Nat, sum(c) = Ones * m
        PROVE  FALSE
    <2>1. PICK k \in Int : n = m + k
      <3>1. n - m \in Int /\ n = m + (n - m)
        OBVIOUS
      <3> QED
        BY <3>1
    <2>2. PICK y \in Int, z \in Int : /\ y = Summand(b, i) /\ z = Summand(c, i)
                                      /\ Ones * n - Ones * m = y - z
      BY <1>2, <1>3, <1>4, <1>5, <1>6, <1>7
    <2>3. 65535 * k = y - z
      BY <2>1, <2>2, SMT DEF Ones
    <2>4. CASE y = x /\ z = 255 - x
      <3>1. 65535 * k = 2 * x - 255
        <4>1. x - (255 - x) = 2 * x - 255
          BY <1>4, SMT
        <4> QED
          BY <2>2, <2>3, <2>4, <4>1, SMT
      <3>2. k = 0
        BY <1>4, <3>1, SMT
      <3> QED
        BY <3>1, <3>2, SMT
    <2>5. CASE y = 256 * x /\ z = 256 * (255 - x)
      <3>1. PICK v \in Nat : v = 255 - x /\ x = 255 - v
        BY <1>4
      <3>2. z = 256 * v
        BY <2>5, <3>1
      <3>3. 65535 * k = 256 * x - 256 * v
        BY <2>3, <2>5, <3>2
      <3>4. PICK w \in Int : w = x - v
        OBVIOUS
      <3>5. 65535 * k = 256 * w
        BY <3>3, <3>4, SMT
      <3>6. w <= 255 /\ w + 255 >= 0 /\ x + x = w + 255
        <4>1. x <= 255
          BY <1>4
        <4>2. v <= 255 /\ x + v = 255 /\ x = w + v
          BY <3>1, <3>4
        <4> QED
          BY <4>1, <4>2
      <3>7. k = 0
        BY <3>5, <3>6, SMT
      <3>8. w = 0
        BY <3>5, <3>7, SMT
      <3> QED
        BY <3>6, <3>8, SMT
    <2> QED
      BY <1>5, <2>2, <2>4, <2>5
  <1> QED
    BY <1>1, <1>7 DEF Balanced
-----------------------------------------------------------------------------
\* A PDU by its fields.
Pdu(seq, lo, hi, data) == <<0, 0, 0, seq, lo, hi, DataFlag>> \o data

\* b is such a PDU; a is one whose checksum may be another.
IsPdu(b, a, lo, hi, data) ==
    /\ b \in Seq(Bytes) /\ Len(b) = 7 + Len(data) /\ b[5] = lo /\ b[6] = hi
    /\ \A i \in 1 .. 7 + Len(data) : i # 5 /\ i # 6 => b[i] = a[i]

\* Only its checksum depends on the two bytes of it.
LEMMA PduIs ==
    ASSUME NEW data \in Seq(Bytes), NEW seq \in Bytes, NEW lo \in Bytes, NEW hi \in Bytes
    PROVE  IsPdu(Pdu(seq, lo, hi, data), Pdu(seq, 0, 0, data), lo, hi, data)
  <1>1. PICK h : h = <<0, 0, 0, seq, lo, hi, DataFlag>>
    OBVIOUS
  <1>2. PICK z : z = <<0, 0, 0, seq, 0, 0, DataFlag>>
    OBVIOUS
  <1>3. 0 \in Bytes /\ DataFlag \in Bytes
    BY BytesAre DEF DataFlag
  <1>4. /\ h \in Seq(Bytes) /\ Len(h) = 7 /\ h[5] = lo /\ h[6] = hi
        /\ z \in Seq(Bytes) /\ Len(z) = 7
        /\ \A i \in 1 .. 7 : i # 5 /\ i # 6 => h[i] = z[i]
    <2>1. h \in Seq(Bytes) /\ Len(h) = 7 /\ z \in Seq(Bytes) /\ Len(z) = 7
      BY <1>1, <1>2, <1>3
    <2>2. /\ h[1] = z[1] /\ h[2] = z[2] /\ h[3] = z[3] /\ h[4] = z[4] /\ h[7] = z[7]
          /\ h[5] = lo /\ h[6] = hi
      BY <1>1, <1>2
    <2> QED
      BY <2>1, <2>2
  <1>5. /\ h \o data \in Seq(Bytes) /\ Len(h \o data) = 7 + Len(data)
        /\ \A i \in 1 .. 7 + Len(data) :
              (h \o data)[i] = IF i <= 7 THEN h[i] ELSE data[i - 7]
    <2>1. h \in Seq(Bytes) /\ data \in Seq(Bytes) /\ Len(h) = 7
      BY <1>4
    <2>2. /\ h \o data \in Seq(Bytes)
          /\ Len(h \o data) = Len(h) + Len(data)
          /\ \A i \in 1 .. Len(h) + Len(data) :
                (h \o data)[i] = IF i <= Len(h) THEN h[i] ELSE data[i - Len(h)]
      BY <2>1, ConcatProperties, Zenon
    <2> QED
      BY <2>1, <2>2, Zenon
  <1>6. \A i \in 1 .. 7 + Len(data) :
              (z \o data)[i] = IF i <= 7 THEN z[i] ELSE data[i - 7]
    <2>1. z \in Seq(Bytes) /\ data \in Seq(Bytes) /\ Len(z) = 7
      BY <1>4
    <2>2. /\ z \o data \in Seq(Bytes)
          /\ Len(z \o data) = Len(z) + Len(data)
          /\ \A i \in 1 .. Len(z) + Len(data) :
                (z \o data)[i] = IF i <= Len(z) THEN z[i] ELSE data[i - Len(z)]
      BY <2>1, ConcatProperties, Zenon
    <2> QED
      BY <2>1, <2>2, Zenon
  <1>7. Pdu(seq, lo, hi, data) = h \o data /\ Pdu(seq, 0, 0, data) = z \o data
    BY <1>1, <1>2 DEF Pdu
  <1>8. Len(data) \in Nat
    OBVIOUS
  <1>9. (h \o data)[5] = lo /\ (h \o data)[6] = hi
    BY <1>4, <1>5, <1>8
  <1>10. ASSUME NEW i \in 1 .. 7 + Len(data), i # 5, i # 6
         PROVE  (h \o data)[i] = (z \o data)[i]
    BY <1>4, <1>5, <1>6, <1>8, <1>10
  <1> QED
    BY <1>5, <1>7, <1>9, <1>10 DEF IsPdu

\* The two bytes of the checksum add what it is to the sum.
LEMMA PduSum ==
    ASSUME NEW data \in Seq(Bytes), NEW seq \in Bytes, NEW lo \in Bytes, NEW hi \in Bytes
    PROVE  sum(Pdu(seq, lo, hi, data)) = sum(Pdu(seq, 0, 0, data)) + lo + 256 * hi
  <1>1. 0 \in Bytes
    BY BytesAre
  <1>2. PICK l \in Nat : l = 7 + Len(data)
    OBVIOUS
  <1>3. 5 \in 1 .. l /\ 6 \in 1 .. l
    BY <1>2
  <1>4. PICK a : a = Pdu(seq, 0, 0, data)
    OBVIOUS
  <1>5. PICK b : b = Pdu(seq, lo, 0, data) /\ IsPdu(b, a, lo, 0, data)
    BY <1>1, <1>4, PduIs
  <1>6. PICK c : c = Pdu(seq, lo, hi, data) /\ IsPdu(c, a, lo, hi, data)
    BY <1>4, PduIs
  <1>7. IsPdu(a, a, 0, 0, data)
    BY <1>1, <1>4, PduIs
  <1>8. /\ a \in Seq(Bytes) /\ b \in Seq(Bytes) /\ c \in Seq(Bytes)
        /\ Len(b) = Len(a) /\ Len(c) = Len(b) /\ 5 \in 1 .. Len(b) /\ 6 \in 1 .. Len(c)
    BY <1>2, <1>3, <1>5, <1>6, <1>7 DEF IsPdu
  <1>9. sum(b) - sum(a) = Summand(b, 5) - Summand(a, 5)
    <2>1. \A i \in 1 .. Len(b) : i # 5 => b[i] = a[i]
      BY <1>5, <1>7 DEF IsPdu
    <2> QED
      BY <1>8, <2>1, OneChange
  <1>10. sum(c) - sum(b) = Summand(c, 6) - Summand(b, 6)
    <2>1. \A i \in 1 .. Len(c) : i # 6 => c[i] = b[i]
      BY <1>5, <1>6 DEF IsPdu
    <2> QED
      BY <1>8, <2>1, OneChange
  <1>11. Weight(5) = 1 /\ Weight(6) = 256
    BY DEF Weight
  <1>12. /\ Summand(b, 5) = lo * 1 /\ Summand(a, 5) = 0 * 1
         /\ Summand(c, 6) = hi * 256 /\ Summand(b, 6) = 0 * 256
    BY <1>5, <1>6, <1>7, <1>11 DEF Summand, IsPdu
  <1>13. sum(a) \in Nat /\ sum(b) \in Nat /\ sum(c) \in Nat
    BY <1>8, SumBound
  <1>14. lo \in Nat /\ hi \in Nat
    BY BytesAre
  <1>15. sum(c) = sum(a) + lo + 256 * hi
    BY <1>9, <1>10, <1>12, <1>13, <1>14
  <1> QED
    BY <1>4, <1>6, <1>15

\* createPDU stores the checksum of the PDU without one: what arrives as it was
\* created has a sum that is a multiple of Ones.
LEMMA CreatedIs ==
    ASSUME NEW seq \in Bytes, NEW data \in Seq(Bytes), 7 + Len(data) <= Ones
    PROVE  /\ createPDU(seq, data) \in Seq(Bytes)
           /\ Balanced(createPDU(seq, data))
  <1>1. 0 \in Bytes
    BY BytesAre
  <1>2. PICK a : a = Pdu(seq, 0, 0, data)
    OBVIOUS
  <1>3. a \in Seq(Bytes) /\ Len(a) <= Ones
    BY <1>1, <1>2, PduIs DEF IsPdu
  <1>4. PICK c \in Nat : c = in_cksum(a) /\ c <= Ones
    BY <1>3, Complement
  <1>5. PICK n \in Nat : n # 0 /\ sum(a) + c = Ones * n
    BY <1>3, <1>4, Complement
  <1>6. PICK lo \in Nat, hi \in Nat : /\ lo = c % 256 /\ hi = c \div 256
                                      /\ lo <= 255 /\ hi <= 255 /\ c = lo + 256 * hi
    <2>1. c <= 65535
      BY <1>4, SMT DEF Ones
    <2> QED
      BY <2>1, SMT
  <1>7. lo \in Bytes /\ hi \in Bytes
    BY <1>6, BytesAre
  <1>8. createPDU(seq, data) = Pdu(seq, lo, hi, data)
    <2>1. lo = c % Byte /\ hi = c \div Byte
      BY <1>6 DEF Byte
    <2>2. in_cksum(<<0, 0, 0, seq, 0, 0, DataFlag>> \o data) = c
      BY <1>2, <1>4 DEF Pdu
    <2> QED
      BY <2>1, <2>2 DEF createPDU, Pdu
  <1>9. sum(Pdu(seq, lo, hi, data)) = sum(a) + c
    <2>1. sum(Pdu(seq, lo, hi, data)) = sum(a) + lo + 256 * hi
      BY <1>2, <1>7, PduSum
    <2>2. sum(a) \in Nat
      BY <1>3, SumBound
    <2>3. sum(a) + lo + 256 * hi = sum(a) + c
      BY <1>6, <2>2
    <2> QED
      BY <2>1, <2>3
  <1>10. Balanced(Pdu(seq, lo, hi, data))
    BY <1>5, <1>9 DEF Balanced
  <1>11. Pdu(seq, lo, hi, data) \in Seq(Bytes)
    BY <1>7, PduIs DEF IsPdu
  <1> QED
    BY <1>8, <1>10, <1>11
-----------------------------------------------------------------------------
\* A PDU that was not too long for the server's buffer arrives as createPDU made it,
\* but for the bytes flipped on its way.
Faithful(d) ==
    /\ d.flips \in Nat
    /\ Len(d.sent) <= PAYLOAD_MAXBUF =>
          /\ d.sent \in Seq(Bytes) /\ Balanced(d.sent)
          /\ d.bytes \in Seq(Bytes) /\ Len(d.bytes) = Len(d.sent)
          /\ d.flips = 0 => d.bytes = d.sent
          /\ d.flips = 1 => \E i \in 1 .. Len(d.sent) : d.bytes = Flipped(d.sent, i)

AllFaithful == \A d \in net : Faithful(d)

\* A client's sequence number does not reach a second byte of its field.
Numbered == sequenceNum \in [Clients -> Nat]

FInv == IInv /\ AllFaithful /\ Numbered

\* What leaves a process is what it sends, or that with a byte flipped.
LEMMA LeavesAs ==
    ASSUME NEW m, NEW buf, NEW n, NEW out \in processEvents(m, buf, n), out # Dropped
    PROVE  out = buf \/ \E i \in DOMAIN buf : out = Flipped(buf, i)
  <1>1. runMsgEvents(m, buf, n) # Dropped
    BY DEF processEvents
  <1>2. out \in randomEvents(m, buf, n)
    BY <1>1 DEF processEvents
  <1>3. errorDrop(TRUE, {}, buf, n) = Dropped
    BY DEF errorDrop
  <1>4. out \in errorFlipBits(buf) \/ out = buf
    BY <1>2, <1>3 DEF randomEvents
  <1> QED
    BY <1>4 DEF errorFlipBits, Flipped

\* On its way through a process a PDU stays so.
LEMMA StaysFaithful ==
    ASSUME NEW d, Faithful(d), NEW buf, Len(d.sent) <= PAYLOAD_MAXBUF => buf = d.bytes,
           NEW out, out = buf \/ \E i \in DOMAIN buf : out = Flipped(buf, i),
           NEW more, more = IF out = buf THEN 0 ELSE 1,
           NEW f, f.sent = d.sent, f.bytes = out, f.flips = d.flips + more
    PROVE  Faithful(f)
  <1>1. f.flips \in Nat
    BY DEF Faithful
  <1>2. SUFFICES ASSUME Len(d.sent) <= PAYLOAD_MAXBUF
                 PROVE  Faithful(f)
    BY <1>1 DEF Faithful
  <1>3. /\ buf \in Seq(Bytes) /\ Len(buf) = Len(d.sent)
        /\ d.flips \in Nat /\ d.sent \in Seq(Bytes) /\ Balanced(d.sent)
        /\ d.flips = 0 => buf = d.sent
        /\ d.flips = 1 => \E i \in 1 .. Len(d.sent) : buf = Flipped(d.sent, i)
    BY <1>2 DEF Faithful
  <1>4. CASE out = buf
    <2>1. f.flips = d.flips
      BY <1>3, <1>4
    <2> QED
      BY <1>3, <1>4, <2>1 DEF Faithful
  <1>5. CASE out # buf
    <2>1. PICK i \in 1 .. Len(buf) : out = Flipped(buf, i)
      BY <1>3, <1>5
    <2>2. out \in Seq(Bytes) /\ Len(out) = Len(buf)
      BY <1>3, <2>1, FlippedIs
    <2>3. f.flips = d.flips + 1
      BY <1>5
    <2>4. f.flips # 0
      BY <1>3, <2>3
    <2>5. f.flips = 1 => \E j \in 1 .. Len(f.sent) : f.bytes = Flipped(f.sent, j)
      <3>1. f.flips = 1 => buf = d.sent
        BY <1>3, <2>3
      <3> QED
        BY <2>1, <3>1
    <2> QED
      BY <1>1, <1>3, <2>2, <2>4, <2>5 DEF Faithful
  <1> QED
    BY <1>4, <1>5

\* What sendto leaves in flight.
LEMMA SendsFaithful ==
    ASSUME NEW p, NEW buf, NEW rest, \A e \in rest : Faithful(e),
           NEW d, IsDatagram(d), Faithful(d), Len(d.sent) <= PAYLOAD_MAXBUF => buf = d.bytes,
           sendto(p, buf, d, rest)
    PROVE  \A e \in net' : Faithful(e)
  <1>1. PICK out \in processEvents(pktMgr[p], buf, m_MsgNo[p] + 1) :
          IF out = Dropped
          THEN net' = rest
          ELSE net' = rest \cup
                   {[d EXCEPT !.from = p, !.num = m_MsgNo[p] + 1, !.bytes = out,
                              !.flips = @ + (IF out = buf THEN 0 ELSE 1)]}
    BY DEF sendto
  <1>2. CASE out = Dropped
    BY <1>1, <1>2
  <1>3. CASE out # Dropped
    <2>1. PICK more :
            /\ more = IF out = buf THEN 0 ELSE 1
            /\ net' = rest \cup {Leaving(d, p, m_MsgNo[p] + 1, out, more)}
      BY <1>1, <1>3 DEF Leaving
    <2>2. PICK f :
            /\ f = [client |-> d.client, from |-> p, to |-> d.to, num |-> m_MsgNo[p] + 1,
                    bytes |-> out, sent |-> d.sent, copy |-> d.copy, flips |-> d.flips + more]
            /\ net' = rest \cup {f}
      BY <2>1, SentFields
    <2>3. f.sent = d.sent /\ f.bytes = out /\ f.flips = d.flips + more
      BY <2>2
    <2>4. out = buf \/ \E i \in DOMAIN buf : out = Flipped(buf, i)
      BY <1>3, LeavesAs
    <2>5. Faithful(f)
      BY <2>1, <2>3, <2>4, StaysFaithful
    <2> QED
      BY <2>2, <2>5
  <1> QED
    BY <1>2, <1>3

\* Seven bytes go before the payload, whatever they are.
LEMMA CreatedLength ==
    ASSUME NEW seq, NEW data \in Seq(Bytes)
    PROVE  Len(createPDU(seq, data)) = 7 + Len(data)
  <1>1. PICK lo, hi : createPDU(seq, data) = <<0, 0, 0, seq, lo, hi, DataFlag>> \o data
    BY DEF createPDU
  <1>2. PICK h : h = <<0, 0, 0, seq, lo, hi, DataFlag>>
    OBVIOUS
  <1>3. PICK S : S = Bytes \cup {0, seq, lo, hi, DataFlag}
    OBVIOUS
  <1>4. h \in Seq(S) /\ Len(h) = 7
    BY <1>2, <1>3
  <1>5. data \in Seq(S)
    BY <1>3, SeqMonotonic
  <1>6. Len(h \o data) = Len(h) + Len(data)
    BY <1>4, <1>5, ConcatProperties
  <1> QED
    BY <1>1, <1>2, <1>4, <1>6

\* The PDU of a line whose number fits its byte is created with its checksum.
LEMMA SendLineFaithful ==
    ASSUME FInv, NEW c \in Clients, SendLine(c)
    PROVE  AllFaithful' /\ Numbered'
  <1>1. PICK line, pdu, d :
          /\ line \in Lines
          /\ pdu = createPDU(sequenceNum[c], payload(line))
          /\ d = [client |-> c, from |-> c, to |-> server_address[c], num |-> 0,
                  bytes |-> pdu, sent |-> pdu, flips |-> 0, copy |-> 0]
          /\ sendto(c, pdu, d, net)
    BY DEF SendLine
  <1>2. /\ IsDatagram(d) /\ d.bytes = pdu /\ d.sent = pdu /\ d.flips = 0
    BY <1>1 DEF IsDatagram
  <1>3. sequenceNum[c] \in Bytes
    <2>1. sequenceNum[c] \in Nat /\ sequenceNum[c] < MaxLines[c]
      BY DEF SendLine, FInv, Numbered
    <2>2. MaxLines[c] \in Nat /\ MaxLines[c] <= 255
      <3>1. MaxLines[c] \in Bytes
        BY EchoAssumption DEF Bytes
      <3> QED
        BY <3>1, BytesAre
    <2> QED
      BY <2>1, <2>2, BytesAre
  <1>4. payload(line) \in Seq(Bytes) /\ Len(line) \in Nat /\ Len(payload(line)) = Len(line) + 1
    <2>1. line \in Seq(1 .. Byte - 1)
      BY <1>1, EchoAssumption
    <2>2. 1 .. Byte - 1 \subseteq Bytes
      <3>1. Byte \in Nat
        BY DEF Byte
      <3> QED
        BY <3>1 DEF Bytes
    <2>3. line \in Seq(Bytes)
      BY <2>1, <2>2, SeqMonotonic
    <2>4. <<0>> \in Seq(Bytes) /\ Len(<<0>>) = 1
      BY BytesAre
    <2> QED
      BY <2>3, <2>4, ConcatProperties DEF payload
  <1>5. Faithful(d)
    <2> SUFFICES ASSUME Len(pdu) <= PAYLOAD_MAXBUF
                 PROVE  Faithful(d)
      BY <1>2 DEF Faithful
    <2>1. 7 + Len(payload(line)) <= Ones
      <3>1. Len(pdu) = 7 + Len(payload(line))
        BY <1>1, <1>4, CreatedLength
      <3>2. PAYLOAD_MAXBUF \in Nat /\ PAYLOAD_MAXBUF <= Ones
        BY EchoAssumption, SMT DEF Ones, Word16
      <3>3. Len(pdu) <= PAYLOAD_MAXBUF /\ Len(pdu) \in Nat
        BY <1>4, <3>1
      <3>4. Len(pdu) <= Ones /\ Ones \in Nat
        BY <3>2, <3>3, SMT DEF Ones
      <3> QED
        BY <3>1, <3>4
    <2>2. pdu \in Seq(Bytes) /\ Balanced(pdu)
      BY <1>1, <1>3, <1>4, <2>1, CreatedIs
    <2> QED
      BY <1>2, <2>2 DEF Faithful
  <1>6. AllFaithful'
    <2>1. \A e \in net' : Faithful(e)
      BY <1>1, <1>2, <1>5, SendsFaithful DEF FInv, AllFaithful
    <2> QED
      BY <2>1 DEF AllFaithful, Faithful
  <1>7. Numbered'
    BY DEF SendLine, FInv, Numbered
  <1> QED
    BY <1>6, <1>7

\* Echo cuts nothing of a PDU that fits.
LEMMA EchoFaithful ==
    ASSUME FInv, Echo
    PROVE  AllFaithful'
  <1>1. PICK d, fits, buf, e :
          /\ d \in net
          /\ fits = IF Len(d.bytes) < PAYLOAD_MAXBUF THEN Len(d.bytes) ELSE PAYLOAD_MAXBUF
          /\ buf = SubSeq(d.bytes, 1, fits)
          /\ e = [d EXCEPT !.to = d.client]
          /\ sendto(Server, buf, e, net \ {d})
    BY DEF Echo
  <1>2. Faithful(d) /\ IsDatagram(d)
    BY <1>1 DEF FInv, AllFaithful, IInv, Flight, Recorded
  <1>3. IsDatagram(e) /\ e.sent = d.sent /\ e.bytes = d.bytes /\ e.flips = d.flips
    <2>1. e = [client |-> d.client, from |-> d.from, to |-> d.client, num |-> d.num,
               bytes |-> d.bytes, sent |-> d.sent, flips |-> d.flips, copy |-> d.copy]
      BY <1>1, <1>2 DEF IsDatagram
    <2> QED
      BY <2>1 DEF IsDatagram
  <1>4. Faithful(e)
    BY <1>2, <1>3 DEF Faithful
  <1>5. Len(e.sent) <= PAYLOAD_MAXBUF => buf = e.bytes
    <2> SUFFICES ASSUME Len(d.sent) <= PAYLOAD_MAXBUF
                 PROVE  buf = d.bytes
      BY <1>3
    <2>1. d.bytes \in Seq(Bytes) /\ Len(d.bytes) <= PAYLOAD_MAXBUF /\ Len(d.bytes) \in Nat
      BY <1>2 DEF Faithful
    <2>2. fits = Len(d.bytes)
      BY <1>1, <2>1, EchoAssumption
    <2> QED
      BY <1>1, <2>1, <2>2
  <1>6. \A f \in net' : Faithful(f)
    <2>1. \A f \in net \ {d} : Faithful(f)
      BY DEF FInv, AllFaithful
    <2> QED
      BY <1>1, <1>3, <1>4, <1>5, <2>1, SendsFaithful
  <1> QED
    BY <1>6 DEF AllFaithful, Faithful

\* A copy is as its original.
LEMMA FaultFaithful ==
    ASSUME FInv, Fault
    PROVE  AllFaithful'
  <1>1. PICK d \in net : \/ net' = net \ {d}
                         \/ net' = net \cup {[d EXCEPT !.copy = faults + 1]}
    BY DEF Fault
  <1>2. PICK e : e = [d EXCEPT !.copy = faults + 1]
    OBVIOUS
  <1>3. Faithful(d) /\ IsDatagram(d)
    BY DEF FInv, AllFaithful, IInv, Flight, Recorded
  <1>4. e.sent = d.sent /\ e.bytes = d.bytes /\ e.flips = d.flips
    <2>1. e = [client |-> d.client, from |-> d.from, to |-> d.to, num |-> d.num,
               bytes |-> d.bytes, sent |-> d.sent, flips |-> d.flips, copy |-> faults + 1]
      BY <1>2, <1>3 DEF IsDatagram
    <2> QED
      BY <2>1
  <1>5. Faithful(e)
    BY <1>3, <1>4 DEF Faithful
  <1>6. \A f \in net' : Faithful(f)
    BY <1>1, <1>2, <1>5 DEF FInv, AllFaithful
  <1> QED
    BY <1>6 DEF AllFaithful, Faithful

LEMMA InitFInv == Init => FInv
  BY InitIInv DEF Init, FInv, AllFaithful, Numbered

LEMMA NextFInv == FInv /\ [Next]_vars => FInv'
  <1> SUFFICES ASSUME FInv, [Next]_vars
               PROVE  AllFaithful' /\ Numbered'
    BY NextKeeps DEF FInv
  <1>1. ASSUME net' \subseteq net, UNCHANGED sequenceNum
        PROVE  AllFaithful' /\ Numbered'
    BY <1>1 DEF FInv, AllFaithful, Faithful, Numbered
  <1>2. CASE StartServer \/ UNCHANGED vars
    <2>1. UNCHANGED <<net, sequenceNum>>
      BY <1>2 DEF StartServer, vars, clientvars
    <2> QED
      BY <1>1, <2>1
  <1>3. CASE Echo
    BY <1>3, EchoFaithful DEF Echo, clientvars, FInv, Numbered
  <1>4. CASE Unreachable
    <2>1. net' \subseteq net /\ UNCHANGED sequenceNum
      BY <1>4 DEF Unreachable, clientvars
    <2> QED
      BY <1>1, <2>1
  <1>5. CASE Fault
    BY <1>5, FaultFaithful DEF Fault, clientvars, FInv, Numbered
  <1>6. ASSUME NEW c \in Clients, SendLine(c)
        PROVE  AllFaithful' /\ Numbered'
    BY <1>6, SendLineFaithful
  <1>7. ASSUME NEW c \in Clients, StartClient(c) \/ ReceiveEcho(c)
        PROVE  AllFaithful' /\ Numbered'
    <2>1. net' \subseteq net /\ UNCHANGED sequenceNum
      BY <1>7 DEF StartClient, ReceiveEcho
    <2> QED
      BY <1>1, <2>1
  <1> QED
    BY <1>2, <1>3, <1>4, <1>5, <1>6, <1>7 DEF Next

\* What the invariant says of the checksum that outputPDU prints.
LEMMA FaithfulShows == FInv => FlipsShow
  <1> SUFFICES ASSUME FInv, NEW d \in net, d.flips <= 1, Len(d.sent) <= PAYLOAD_MAXBUF
               PROVE  in_cksum(d.bytes) = 0 <=> d.bytes = d.sent
    BY DEF FlipsShow, outputPDU
  <1>1. /\ d.flips \in Nat /\ d.sent \in Seq(Bytes) /\ Balanced(d.sent)
        /\ d.bytes \in Seq(Bytes) /\ Len(d.bytes) = Len(d.sent)
        /\ d.flips = 0 => d.bytes = d.sent
        /\ d.flips = 1 => \E i \in 1 .. Len(d.sent) : d.bytes = Flipped(d.sent, i)
    BY DEF FInv, AllFaithful, Faithful
  <1>2. Len(d.bytes) <= Ones
    BY <1>1, EchoAssumption, SMT DEF Ones, Word16
  <1>3. in_cksum(d.bytes) = 0 <=> Balanced(d.bytes)
    BY <1>1, <1>2, ZeroIfBalanced
  <1>4. CASE d.flips = 0
    BY <1>1, <1>3, <1>4
  <1>5. CASE d.flips = 1
    <2>1. PICK i \in 1 .. Len(d.sent) : d.bytes = Flipped(d.sent, i)
      BY <1>1, <1>5
    <2>2. d.bytes # d.sent /\ ~Balanced(d.bytes)
      BY <1>1, <2>1, FlippedIs, FlipUnbalances
    <2> QED
      BY <1>3, <2>2
  <1> QED
    BY <1>1, <1>4, <1>5

-----------------------------------------------------------------------------
\* Whatever a process is started with, no message its environment lists to be
\* dropped is ever in flight: the random events run only where the listed one let
\* the message pass, and the options that main gives sendErr_init take nothing off the
\* list (PacketManager.cpp:144-187, SettingsManager.cpp).
THEOREM NeverLeave == Spec => []ListedNeverLeave
  <1>1. IInv => ListedNeverLeave
    BY DEF IInv
  <1> QED
    BY <1>1, Invariance, PTL

\* rcopy's talkToServer and the server's processClient keep the exchange of each of
\* any number of clients to one datagram: what is in flight beyond it was duplicated,
\* and what is missing was lost or dropped (rcopy.c:75-92, server.c:57-67).
THEOREM OneInFlight == Spec => []StopAndWait
  <1>1. IInv => StopAndWait
    BY DEF IInv
  <1> QED
    BY <1>1, Invariance, PTL

\* outputPDU prints the checksum 0 for a PDU that arrives as its client created it and
\* never for one with a byte flipped, whatever the line, the number and the place, if
\* the PDU is not too long for the server's buffer: a flip changes the sum, and by less
\* than 65535 (pdu.c:21-23,41, checksum.c).
THEOREM FlipsSeen == Spec => []FlipsShow
  <1> QED
    BY InitFInv, NextFInv, FaithfulShows, PTL DEF Spec
===============================================================================
