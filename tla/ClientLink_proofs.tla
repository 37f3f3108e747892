------------------------- MODULE ClientLink_proofs -------------------------
(***************************************************************************)
(* For every number of connections, faults, heartbeats and every buffer    *)
(* size: the two ends of a connection never disagree about the key, and a  *)
(* client trusts only what the server has granted.                         *)
(***************************************************************************)
EXTENDS ClientLink, TLAPS

(* What Elems says of the sequence operators the channels are built with. *)
LEMMA ElemsEmpty == Elems(<<>>) = {} /\ Len(<<>>) = 0
  BY DEF Elems

LEMMA ElemsHead ==
  ASSUME NEW S, NEW s \in Seq(S), s # <<>>
  PROVE  /\ Head(s) \in S
         /\ Head(s) \in Elems(s)
         /\ Tail(s) \in Seq(S)
         /\ Len(Tail(s)) = Len(s) - 1
         /\ Elems(Tail(s)) \subseteq Elems(s)
         /\ Len(s) >= 1
<1>1. /\ Head(s) = s[1] /\ 1 \in DOMAIN s /\ Len(s) >= 1
      /\ Tail(s) \in Seq(S) /\ Len(Tail(s)) = Len(s) - 1
      /\ \A i \in 1 .. Len(s) - 1 : Tail(s)[i] = s[i + 1]
  OBVIOUS
<1>2. s[1] \in S
  BY <1>1
<1>3. Elems(Tail(s)) \subseteq Elems(s)
  <2>1. ASSUME NEW i \in DOMAIN Tail(s) PROVE Tail(s)[i] \in Elems(s)
    <3>1. i \in 1 .. Len(s) - 1
      BY <1>1, <2>1
    <3>2. Tail(s)[i] = s[i + 1] /\ i + 1 \in DOMAIN s
      BY <1>1, <3>1
    <3> QED
      BY <3>2 DEF Elems
  <2> QED
    BY <2>1 DEF Elems
<1> QED
  BY <1>1, <1>2, <1>3 DEF Elems

LEMMA ElemsAppend ==
  ASSUME NEW S, NEW s \in Seq(S), NEW x \in S
  PROVE  /\ Append(s, x) \in Seq(S)
         /\ Len(Append(s, x)) = Len(s) + 1
         /\ Elems(Append(s, x)) = Elems(s) \cup {x}
         /\ Append(s, x) # <<>>
         /\ s # <<>> => Head(Append(s, x)) = Head(s)
<1>1. /\ Append(s, x) \in Seq(S) /\ Len(Append(s, x)) = Len(s) + 1
      /\ DOMAIN Append(s, x) = 1 .. Len(s) + 1 /\ DOMAIN s = 1 .. Len(s)
      /\ Append(s, x)[Len(s) + 1] = x
      /\ \A i \in 1 .. Len(s) : Append(s, x)[i] = s[i]
      /\ Len(s) \in Nat
      /\ Append(s, x) # <<>>
  OBVIOUS
<1>2. Elems(Append(s, x)) \subseteq Elems(s) \cup {x}
  BY <1>1 DEF Elems
<1>3. Elems(s) \cup {x} \subseteq Elems(Append(s, x))
  BY <1>1 DEF Elems
<1>4. s # <<>> => Head(Append(s, x)) = Head(s)
  BY <1>1
<1> QED
  BY <1>1, <1>2, <1>3, <1>4

LEMMA ElemsPrefix ==
  ASSUME NEW S, NEW s \in Seq(S), NEW n \in 0 .. Len(s)
  PROVE  /\ SubSeq(s, 1, n) \in Seq(S)
         /\ Len(SubSeq(s, 1, n)) = n
         /\ Elems(SubSeq(s, 1, n)) \subseteq Elems(s)
<1>1. /\ SubSeq(s, 1, n) \in Seq(S) /\ Len(SubSeq(s, 1, n)) = n
      /\ DOMAIN SubSeq(s, 1, n) = 1 .. n
      /\ \A i \in 1 .. n : SubSeq(s, 1, n)[i] = s[i]
      /\ 1 .. n \subseteq DOMAIN s
  OBVIOUS
<1> QED
  BY <1>1 DEF Elems

LEMMA SeqEmpty ==
  ASSUME NEW S, NEW s \in Seq(S)
  PROVE  /\ Len(s) \in Nat
         /\ s = <<>> <=> Len(s) = 0
         /\ s = <<>> <=> Elems(s) = {}
<1>1. Len(s) \in Nat /\ (s = <<>> <=> Len(s) = 0) /\ DOMAIN s = 1 .. Len(s)
  OBVIOUS
<1>2. s # <<>> => s[1] \in Elems(s)
  BY <1>1 DEF Elems
<1> QED
  BY <1>1, <1>2, ElemsEmpty

LEMMA LinkInit == Init => LinkInv
<1> SUFFICES ASSUME Init PROVE LinkInv
  OBVIOUS
<1> USE LinkOK DEF Init, Conns, NoConn, NoKey
<1>1. TypeOK
  BY DEF TypeOK, Frames, NoFrame, Frame
<1>2. InOrderMade /\ ThreadsShare
  BY DEF InOrderMade, ThreadsShare
<1>3. ServerKeys
  BY ElemsEmpty DEF ServerKeys, Open
<1>4. Unlearned /\ Learned /\ Trusting
  BY DEF Unlearned, Learned, Trusting
<1> QED
  BY <1>1, <1>2, <1>3, <1>4 DEF LinkInv

(* disconnectServer keeps it, whichever thread calls it. *)
LEMMA DisconnectInv ==
  ASSUME LinkInv, Disconnect,
         \/ /\ tpc' = "top" /\ tpc = "drop"
            /\ UNCHANGED <<mpc, mframe>>
         \/ /\ mpc' = "idle" /\ mframe' = NoFrame
            /\ UNCHANGED tpc,
         UNCHANGED <<sVars, up, lost, made, faults, thold, hearts, agree>>
  PROVE  LinkInv'
<1> USE LinkOK DEF LinkInv, Disconnect, ResetData, Conns, NoConn, NoKey, sVars
<1>1. TypeOK'
  <2>1. <<>> \in Seq(Frames) /\ NoFrame \in Frames
    BY DEF Frames, NoFrame, Frame
  <2> QED
    BY <2>1 DEF TypeOK
<1>2. InOrderMade' /\ ThreadsShare'
  BY DEF InOrderMade, ThreadsShare, TypeOK
<1>3. ServerKeys'
  BY DEF ServerKeys, Open
<1>4. Unlearned' /\ Learned' /\ Trusting'
  BY DEF Unlearned, Learned, Trusting
<1> QED
  BY <1>1, <1>2, <1>3, <1>4

(* Thread T keeps the invariant. *)
LEMMA TInv ==
  ASSUME LinkInv, TStep \/ TConnectFails
  PROVE  LinkInv'
<1> USE LinkOK DEF LinkInv, Conns, NoConn, NoKey, sVars, nVars, dVars, tVars,
      mVars
<1>1. CASE TStart
  <2>1. TypeOK'
    BY <1>1 DEF TStart, ResetData, TypeOK
  <2>2. InOrderMade' /\ ThreadsShare'
    BY <1>1 DEF TStart, ResetData, InOrderMade, ThreadsShare, TypeOK
  <2>3. ServerKeys'
    BY <1>1 DEF TStart, ResetData, ServerKeys, Open
  <2>4. Unlearned' /\ Learned' /\ Trusting'
    BY <1>1 DEF TStart, ResetData, Unlearned, Learned, Trusting
  <2> QED
    BY <2>1, <2>2, <2>3, <2>4
<1>2. CASE TConnected
  <2>1. TypeOK'
    BY <1>2 DEF TConnected, TypeOK
  <2>10. made \in Nat /\ made' = made + 1 /\ csock' = made + 1
    BY <1>2 DEF TConnected, TypeOK
  <2>11. UNCHANGED <<sstate, learned, down, greeting, closing>>
    BY <1>2 DEF TConnected
  <2>2. InOrderMade'
    <3>1. \A c \in Conns : c > made + 1 => c > made
      BY <2>10
    <3> QED
      BY <2>10, <2>11, <3>1 DEF InOrderMade
  <2>5. ThreadsShare'
    BY <1>2 DEF TConnected, ThreadsShare, TypeOK
  <2>3. ServerKeys'
    BY <1>2 DEF TConnected, ServerKeys, Open
  <2>6. made + 1 \in Conns /\ made + 1 > made
    BY <1>2 DEF TConnected, TypeOK
  <2>7. /\ sstate[made + 1] = "none" /\ up[made + 1] = <<>>
        /\ down[made + 1] = <<>>
    BY <2>6 DEF InOrderMade, ServerKeys
  <2>8. cin = <<>> /\ cout = <<>> /\ tpc = "top" /\ ckey = NoKey
    BY <1>2 DEF TConnected, ThreadsShare
  <2>9. Unlearned'
    BY <1>2, <2>7, <2>8, ElemsEmpty DEF TConnected, Unlearned, Arriving, Held
  <2>4. Learned' /\ Trusting'
    BY <1>2, <2>8 DEF TConnected, Learned, Trusting
  <2> QED
    BY <2>1, <2>2, <2>3, <2>4, <2>5, <2>9
<1>3. CASE TConnectFails
  <2>1. TypeOK'
    BY <1>3 DEF TConnectFails, Fault, Disconnect, ResetData, TypeOK
  <2>2. InOrderMade' /\ ThreadsShare'
    BY <1>3 DEF TConnectFails, Fault, Disconnect, ResetData, InOrderMade,
      ThreadsShare, TypeOK
  <2>3. ServerKeys'
    BY <1>3 DEF TConnectFails, Fault, Disconnect, ResetData, ServerKeys, Open
  <2>4. Unlearned' /\ Learned' /\ Trusting'
    BY <1>3 DEF TConnectFails, Disconnect, ResetData, Unlearned, Learned,
      Trusting
  <2> QED
    BY <2>1, <2>2, <2>3, <2>4
<1>4. CASE TRecv
  <2> DEFINE c == csock
  <2>1. /\ c \in Conns /\ down[c] \in Seq(Frames) /\ down[c] # <<>>
        /\ tpc = "top"
    BY <1>4 DEF TRecv, TypeOK
  <2>2. /\ Head(down[c]) \in Frames /\ Tail(down[c]) \in Seq(Frames)
        /\ Head(down[c]) \in Elems(down[c])
        /\ Elems(Tail(down[c])) \subseteq Elems(down[c])
        /\ Len(Tail(down[c])) = Len(down[c]) - 1
    BY <2>1, ElemsHead
  <2>3. /\ down' \in [Conns -> Seq(Frames)] /\ down'[c] = Tail(down[c])
        /\ \A d \in Conns : d # c => down'[d] = down[d]
    BY <1>4, <2>1, <2>2 DEF TRecv, TypeOK
  <2>4. TypeOK'
    BY <1>4, <2>2, <2>3 DEF TRecv, TypeOK
  <2>5. InOrderMade'
    BY <1>4, <2>1, <2>3 DEF TRecv, InOrderMade
  <2>6. ThreadsShare' /\ Trusting'
    BY <1>4 DEF TRecv, ThreadsShare, Trusting, Connected
  <2>7. ServerKeys'
    BY <1>4 DEF TRecv, ServerKeys, Open
  <2>8. Arriving(c)' \subseteq Arriving(c)
    BY <1>4, <2>2, <2>3 DEF TRecv, Arriving, Held
  <2>9. Len(down'[c]) + 1 = Len(down[c]) /\ Len(cin) \in Nat
    BY <2>2, <2>3, <2>1, SeqEmpty DEF TypeOK
  <2>10. Unlearned'
    BY <1>4, <2>1, <2>8, <2>9 DEF TRecv, Unlearned
  <2>11. Learned'
    BY <1>4, <2>8 DEF TRecv, Learned
  <2> QED
    BY <2>4, <2>5, <2>6, <2>7, <2>10, <2>11
<1>5. CASE TSave
  <2>1. /\ thold \in Frames /\ cin \in Seq(Frames) /\ NoFrame \in Frames
    BY DEF TypeOK, Frames, NoFrame, Frame
  <2>2. /\ Append(cin, thold) \in Seq(Frames)
        /\ Elems(Append(cin, thold)) = Elems(cin) \cup {thold}
        /\ Len(Append(cin, thold)) = Len(cin) + 1
        /\ Append(cin, thold) # <<>>
        /\ cin # <<>> => Head(Append(cin, thold)) = Head(cin)
    BY <2>1, ElemsAppend
  <2>3. /\ tpc = "save" /\ tpc' \in {"top", "drop"} /\ thold' = NoFrame
        /\ \/ cin' = cin
           \/ cin' = Append(cin, thold) /\ tpc' = "top"
    BY <1>5 DEF TSave
  <2>4. TypeOK'
    BY <1>5, <2>1, <2>2, <2>3 DEF TSave, TypeOK
  <2>5. InOrderMade' /\ ServerKeys' /\ Trusting'
    BY <1>5 DEF TSave, InOrderMade, ServerKeys, Open, Trusting
  <2>6. ThreadsShare'
    BY <1>5, <2>2, <2>3 DEF TSave, ThreadsShare
  <2>7. \A c \in Conns : Arriving(c)' \subseteq Arriving(c)
    BY <1>5, <2>2, <2>3 DEF TSave, Arriving, Held
  <2>8. \A c \in Conns : Len(down[c]) \in Nat
    BY SeqEmpty DEF TypeOK
  <2>9. /\ Len(cin) \in Nat /\ Len(cin') \in Nat
        /\ Len(cin') <= Len(cin) + 1
    BY <2>1, <2>2, <2>3, SeqEmpty
  <2>12. tpc' # "save" /\ UNCHANGED <<cstate, ckey, csock, cout, up, down, sstate>>
    BY <1>5, <2>3 DEF TSave
  <2>13. csock # NoConn => csock \in Conns
    BY DEF TypeOK
  <2>10. Unlearned'
    <3>1. ASSUME csock # NoConn, ckey = NoKey
          PROVE  /\ Arriving(csock)' \subseteq Arriving(csock)
                 /\ Len(cin') + Len(down[csock]) <= 1
      <4>1. csock \in Conns /\ Len(down[csock]) \in Nat
        BY <3>1, <2>8, <2>13
      <4>2. Len(cin) + Len(down[csock]) + 1 <= 1
        BY <3>1, <2>3 DEF Unlearned
      <4> QED
        BY <4>1, <4>2, <2>7, <2>9, <2>12
    <3> QED
      BY <2>12, <3>1 DEF Unlearned
  <2>11. Learned'
    BY <1>5, <2>7 DEF TSave, Learned, TypeOK
  <2> QED
    BY <2>4, <2>5, <2>6, <2>10, <2>11
<1>6. CASE TFails
  <2>1. TypeOK' /\ InOrderMade' /\ ServerKeys' /\ Trusting'
    BY <1>6 DEF TFails, TypeOK, InOrderMade, ServerKeys, Open, Trusting
  <2>2. ThreadsShare'
    BY <1>6 DEF TFails, ThreadsShare, Connected
  <2>3. Unlearned' /\ Learned'
    BY <1>6 DEF TFails, Unlearned, Learned, Arriving, Held
  <2> QED
    BY <2>1, <2>2, <2>3
<1>7. CASE TDrop
  BY <1>7, DisconnectInv DEF TDrop
<1> QED
  BY <1>1, <1>2, <1>3, <1>4, <1>5, <1>6, <1>7 DEF TStep

(* A frame is queued, or the client disconnects. *)
LEMMA EnqueueFacts ==
  ASSUME TypeOK, NEW f \in Frames, NEW st, Enqueue(f, st, "idle")
  PROVE  /\ cout' \in Seq(Frames)
         /\ Elems(cout') \subseteq Elems(cout) \cup {f}
         /\ mpc' \in {"idle", "drop"}
<1>1. cout \in Seq(Frames)
  BY DEF TypeOK
<1>2. /\ Append(cout, f) \in Seq(Frames)
      /\ Elems(Append(cout, f)) = Elems(cout) \cup {f}
  BY <1>1, ElemsAppend
<1>3. /\ cout' = Append(cout, f) \/ cout' = cout
      /\ mpc' \in {"idle", "drop"}
  BY DEF Enqueue
<1> QED
  BY <1>1, <1>2, <1>3

LEMMA ConsumeFacts ==
  ASSUME TypeOK, Consume
  PROVE  /\ cin' \in Seq(Frames)
         /\ Elems(cin') \subseteq Elems(cin)
         /\ cin = <<>> => cin' = <<>>
         /\ cstate' \in {"Connect", "Secure"} /\ cin # <<>> =>
              Len(cin') = Len(cin) - 1
<1>1. cin \in Seq(Frames)
  BY DEF TypeOK
<1>2. CASE cin = <<>>
  BY <1>1, <1>2 DEF Consume
<1>3. CASE cin # <<>>
  <2>1. /\ Tail(cin) \in Seq(Frames) /\ Elems(Tail(cin)) \subseteq Elems(cin)
        /\ Len(Tail(cin)) = Len(cin) - 1
    BY <1>1, <1>3, ElemsHead
  <2> QED
    BY <1>1, <1>3, <2>1 DEF Consume
<1> QED
  BY <1>2, <1>3

(* The main thread keeps the invariant. *)
LEMMA MInv ==
  ASSUME LinkInv, MStep
  PROVE  LinkInv'
<1> USE LinkOK DEF LinkInv, Conns, NoConn, NoKey, sVars, nVars, dVars, tVars,
      mVars
<1>0. /\ cin \in Seq(Frames) /\ cout \in Seq(Frames) /\ mframe \in Frames
      /\ NoFrame \in Frames
  BY DEF TypeOK, NoFrame, Frame, Frames
<1>1. CASE MHeart
  <2> DEFINE f == Frame("heart", ckey, 0)
  <2>1. f \in Frames /\ f.key = ckey /\ f.cmd = "heart"
    BY DEF TypeOK, Frames, Frame
  <2>2. Enqueue(f, cstate, "idle")
    BY <1>1 DEF MHeart
  <2> HIDE DEF f
  <2>3. /\ cout' \in Seq(Frames) /\ Elems(cout') \subseteq Elems(cout) \cup {f}
        /\ mpc' \in {"idle", "drop"}
    BY <2>1, <2>2, EnqueueFacts
  <2>4. cstate = "Secure" /\ mpc = "idle"
    BY <1>1 DEF MHeart
  <2>5. hearts' \in 0 .. HeartMax
    BY <1>1 DEF MHeart, TypeOK
  <2>6. UNCHANGED <<sVars, nVars, cstate, ckey, csock, cin, learned, tVars,
                    mframe, agree>>
    BY <1>1 DEF MHeart
  <2>7. TypeOK'
    BY <2>3, <2>5, <2>6 DEF TypeOK
  <2>8. InOrderMade' /\ ServerKeys' /\ Trusting' /\ ThreadsShare'
    BY <2>3, <2>4, <2>6 DEF InOrderMade, ServerKeys, Open, Trusting,
      ThreadsShare
  <2>9. Unlearned'
    BY <2>4, <2>6 DEF Unlearned
  <2>10. Learned'
    BY <2>1, <2>3, <2>6 DEF Learned, Arriving, Held
  <2> QED
    BY <2>7, <2>8, <2>9, <2>10
<1>2. CASE MTake
  <2>1. cin # <<>> /\ Head(cin) \in Frames /\ Head(cin) \in Elems(cin)
    BY <1>0, <1>2, ElemsHead DEF MTake
  <2>2. TypeOK' /\ InOrderMade' /\ ServerKeys' /\ Trusting'
    BY <1>2, <2>1 DEF MTake, TypeOK, InOrderMade, ServerKeys, Open, Trusting
  <2>3. Unlearned' /\ Learned'
    BY <1>2 DEF MTake, Unlearned, Learned, Arriving, Held
  <2>4. csock # NoConn
    BY <1>2, <2>1 DEF MTake, Connected, ThreadsShare
  <2>5. Head(cin) \in Arriving(csock)
    BY <2>1 DEF Arriving
  <2>6. Head(cin).cmd = "rcode" => Head(cin).arg \in 1 .. made
    <3>1. CASE ckey = NoKey
      <4>1. Head(cin) = Frame("rcode", NoKey, csock)
        BY <2>4, <2>5, <3>1 DEF Unlearned
      <4>2. csock = made /\ made \in Nat
        BY <2>4 DEF InOrderMade, TypeOK
      <4> QED
        BY <2>4, <4>1, <4>2 DEF Frame
    <3>2. CASE ckey # NoKey
      BY <2>4, <2>5, <3>2 DEF Learned
    <3> QED
      BY <3>1, <3>2
  <2>7. ThreadsShare'
    BY <1>2, <2>1, <2>4, <2>6 DEF MTake, ThreadsShare, Connected
  <2> QED
    BY <2>2, <2>3, <2>7
<1>3. CASE MRcode
  <2> DEFINE f == Frame("security", mframe.arg, mframe.arg)
  <2>1. mframe.arg \in Conns /\ mframe.arg <= made /\ mframe.arg # NoKey
    <3>1. mframe.arg \in 1 .. made
      BY <1>3 DEF MRcode, ThreadsShare
    <3>2. made \in 0 .. MaxConn
      BY DEF TypeOK
    <3> HIDE DEF LinkInv
    <3> QED
      BY <3>1, <3>2
  <2>2. f \in Frames /\ f.key = mframe.arg /\ f.cmd = "security"
    BY <2>1 DEF Frames, Frame
  <2>3. Enqueue(f, cstate, "idle")
    BY <1>3 DEF MRcode
  <2> HIDE DEF f
  <2>4. /\ cout' \in Seq(Frames) /\ Elems(cout') \subseteq Elems(cout) \cup {f}
        /\ mpc' \in {"idle", "drop"}
    BY <2>2, <2>3, EnqueueFacts
  <2>5. /\ cin' \in Seq(Frames) /\ Elems(cin') \subseteq Elems(cin)
        /\ cin = <<>> => cin' = <<>>
        /\ cstate' \in {"Connect", "Secure"} /\ cin # <<>> =>
             Len(cin') = Len(cin) - 1
    BY <1>3, ConsumeFacts DEF MRcode
  <2>6. /\ mpc = "handle" /\ mframe.cmd = "rcode" /\ mframe' = NoFrame
        /\ ckey' = mframe.arg /\ learned' = learned \cup {mframe.arg}
        /\ UNCHANGED <<sVars, nVars, cstate, csock, tVars, hearts, agree>>
    BY <1>3 DEF MRcode
  <2>7. TypeOK'
    BY <1>0, <2>1, <2>4, <2>5, <2>6 DEF TypeOK
  <2>8. InOrderMade'
    <3>1. \A c \in Conns : c > made => c # mframe.arg
      BY <2>1 DEF TypeOK
    <3> QED
      BY <2>6, <3>1 DEF InOrderMade
  <2>9. ServerKeys' /\ ThreadsShare'
    BY <2>4, <2>5, <2>6 DEF ServerKeys, Open, ThreadsShare
  <2>10. Unlearned'
    BY <2>1, <2>6 DEF Unlearned
  <2>11. ASSUME csock # NoConn
         PROVE  /\ mframe.arg = csock /\ cstate = "Connect" /\ cout = <<>>
                /\ sstate[csock] # "none"
                /\ Arriving(csock)' = {}
    <3>1. cin # <<>> /\ Head(cin) = mframe /\ mframe \in Arriving(csock)
      BY <1>0, <2>6, <2>11, ElemsHead DEF ThreadsShare, Arriving
    <3>2. ckey = NoKey
      BY <2>6, <2>11, <3>1 DEF Learned
    <3>3. /\ mframe = Frame("rcode", NoKey, csock) /\ cstate = "Connect"
          /\ cout = <<>> /\ sstate[csock] # "none"
      BY <2>11, <3>1, <3>2 DEF Unlearned
    <3>4. /\ Len(cin) \in Nat /\ Len(cin) # 0 /\ Len(down[csock]) \in Nat
          /\ Len(cin') \in Nat
      <4>1. csock \in Conns
        BY <2>11 DEF TypeOK
      <4>2. down[csock] \in Seq(Frames)
        BY <4>1 DEF TypeOK
      <4> QED
        BY <1>0, <2>5, <3>1, <4>2, SeqEmpty
    <3>5. Len(cin) + Len(down[csock]) + (IF tpc = "save" THEN 1 ELSE 0) <= 1
      BY <2>11, <3>2 DEF Unlearned
    <3>6. Len(cin) = 1 /\ Len(down[csock]) = 0 /\ tpc # "save"
      <4> DEFINE a == Len(cin)  b == Len(down[csock])
      <4>1. a \in Nat /\ a # 0 /\ b \in Nat
        BY <3>4
      <4>2. tpc = "save" => a + b + 1 <= 1
        BY <3>5
      <4>3. tpc # "save" => a + b + 0 <= 1
        BY <3>5
      <4> HIDE DEF a, b, LinkInv
      <4>4. tpc # "save"
        BY <4>1, <4>2
      <4>5. a = 1 /\ b = 0
        BY <4>1, <4>3, <4>4
      <4> QED
        BY <4>4, <4>5 DEF a, b
    <3>7. Len(cin') = 0
      BY <2>5, <2>6, <3>1, <3>3, <3>6
    <3>8. Elems(cin') = {} /\ Elems(down[csock]) = {}
      <4>1. csock \in Conns
        BY <2>11 DEF TypeOK
      <4>2. down[csock] \in Seq(Frames)
        BY <4>1 DEF TypeOK
      <4> QED
        BY <2>5, <3>6, <3>7, <4>2, SeqEmpty
    <3>9. Arriving(csock)' = {}
      BY <2>6, <3>6, <3>8 DEF Arriving, Held
    <3> QED
      BY <3>3, <3>9 DEF Frame
  <2>12. Learned' /\ Trusting'
    <3>1. CASE csock = NoConn
      BY <2>6, <3>1 DEF Learned, Trusting
    <3>2. CASE csock # NoConn
      <4>1. \A g \in Elems(cout') : g = f
        BY <2>4, <2>11, <3>2, ElemsEmpty
      <4>2. f.key = csock /\ f.cmd # "rcode"
        BY <2>2, <2>11, <3>2
      <4> QED
        BY <2>6, <2>11, <3>2, <4>1, <4>2 DEF Learned, Trusting
    <3> QED
      BY <3>1, <3>2
  <2> QED
    BY <2>7, <2>8, <2>9, <2>10, <2>12
<1>4. CASE MSecurity \/ MOther
  <2>1. /\ cin' \in Seq(Frames) /\ Elems(cin') \subseteq Elems(cin)
        /\ cin = <<>> => cin' = <<>>
    BY <1>4, ConsumeFacts DEF MSecurity, MOther
  <2>2. /\ mpc = "handle" /\ mpc' = "idle" /\ mframe' = NoFrame
        /\ mframe.cmd # "rcode"
        /\ UNCHANGED <<sVars, nVars, ckey, csock, cout, learned, tVars, hearts,
                       agree>>
        /\ \/ cstate' = cstate
           \/ cstate' = "Secure" /\ mframe.cmd = "security" /\ mframe.arg = 0
    BY <1>4 DEF MSecurity, MOther
  <2>3. TypeOK'
    BY <1>0, <2>1, <2>2 DEF TypeOK
  <2>4. InOrderMade' /\ ServerKeys'
    BY <2>2 DEF InOrderMade, ServerKeys, Open
  <2>5. ThreadsShare'
    BY <2>1, <2>2 DEF ThreadsShare
  <2>6. csock # NoConn =>
          /\ cin # <<>> /\ Head(cin) = mframe /\ mframe \in Arriving(csock)
    BY <1>0, <2>2, ElemsHead DEF ThreadsShare, Arriving
  <2>7. csock # NoConn => ckey # NoKey
    <3>1. SUFFICES ASSUME csock # NoConn, ckey = NoKey PROVE FALSE
      OBVIOUS
    <3>2. mframe = Frame("rcode", NoKey, csock)
      BY <2>6, <3>1 DEF Unlearned
    <3> QED
      BY <2>2, <3>2 DEF Frame
  <2>8. Unlearned'
    BY <2>2, <2>7 DEF Unlearned
  <2>9. Trusting'
    BY <2>2, <2>6, <2>7 DEF Trusting, Learned
  <2>10. Arriving(csock)' \subseteq Arriving(csock)
    BY <2>1, <2>2 DEF Arriving, Held
  <2>11. Learned'
    BY <2>2, <2>10 DEF Learned
  <2> QED
    BY <2>3, <2>4, <2>5, <2>8, <2>9, <2>11
<1>5. CASE MSend
  <2> DEFINE c == csock  f == Head(cout)
  <2>1. c \in Conns /\ c # NoConn /\ up[c] \in Seq(Frames) /\ cout # <<>>
    BY <1>5 DEF MSend, TypeOK
  <2>2. /\ f \in Frames /\ f \in Elems(cout)
        /\ Tail(cout) \in Seq(Frames) /\ Elems(Tail(cout)) \subseteq Elems(cout)
    BY <1>0, <2>1, ElemsHead
  <2> HIDE DEF f
  <2>3. /\ Append(up[c], f) \in Seq(Frames)
        /\ Elems(Append(up[c], f)) = Elems(up[c]) \cup {f}
    BY <2>1, <2>2, ElemsAppend
  <2>4. /\ up' = [up EXCEPT ![c] = Append(up[c], f)] /\ cout' = Tail(cout)
        /\ UNCHANGED <<sVars, down, lost, made, faults, cstate, ckey, csock, cin,
                       learned, tVars, mVars, agree>>
    BY <1>5 DEF MSend, f
  <2>5. /\ up' \in [Conns -> Seq(Frames)]
        /\ up'[c] = Append(up[c], f)
        /\ \A d \in Conns : d # c => up'[d] = up[d]
    BY <2>1, <2>3, <2>4 DEF TypeOK
  <2>6. ckey # NoKey
    BY <2>1 DEF Unlearned
  <2>7. c \in learned /\ f.key = c /\ f.cmd # "rcode"
    BY <2>1, <2>2, <2>6 DEF Learned
  <2>8. TypeOK'
    BY <2>2, <2>4, <2>5 DEF TypeOK
  <2>9. InOrderMade' /\ ThreadsShare' /\ Trusting'
    BY <1>5, <2>4 DEF MSend, Connected, InOrderMade, ThreadsShare, Trusting
  <2>10. ServerKeys'
    BY <2>3, <2>4, <2>5, <2>7 DEF ServerKeys, Open
  <2>11. Unlearned' /\ Learned'
    BY <2>2, <2>4, <2>6 DEF Unlearned, Learned, Arriving, Held
  <2> QED
    BY <2>8, <2>9, <2>10, <2>11
<1>6. CASE MSendFails
  <2>1. TypeOK' /\ InOrderMade' /\ ServerKeys' /\ Trusting'
    BY <1>6 DEF MSendFails, TypeOK, InOrderMade, ServerKeys, Open, Trusting
  <2>2. ThreadsShare'
    BY <1>6 DEF MSendFails, ThreadsShare, Connected
  <2>3. Unlearned' /\ Learned'
    BY <1>6 DEF MSendFails, Unlearned, Learned, Arriving, Held
  <2> QED
    BY <2>1, <2>2, <2>3
<1>7. CASE MDrop
  BY <1>7, DisconnectInv DEF MDrop
<1> QED
  BY <1>1, <1>2, <1>3, <1>4, <1>5, <1>6, <1>7 DEF MStep

(* What a server step may do to connections it has accepted: cut what is   *)
(* on its way, close them, or answer one whose client has the key.         *)
LEMMA ServerStepInv ==
  ASSUME LinkInv, TypeOK',
         UNCHANGED <<greeting, made, dVars, tVars, mVars>>,
         granted \subseteq granted',
         granted' \subseteq granted \cup learned,
         \A d \in Conns :
           \/ sstate'[d] = sstate[d]
           \/ d <= made /\ sstate'[d] # "none",
         \A d \in Conns : sstate'[d] = "none" => closing'[d] = closing[d],
         \A d \in Conns : Open(d)' => Open(d) /\ skey'[d] = skey[d],
         \A d \in Conns : Elems(up'[d]) \subseteq Elems(up[d]),
         \A d \in Conns :
           \/ /\ Len(down'[d]) <= Len(down[d])
              /\ Elems(down'[d]) \subseteq Elems(down[d])
           \/ /\ sstate[d] # "none" /\ up[d] # <<>>
              /\ \A g \in Elems(down'[d]) \ Elems(down[d]) :
                   /\ g.key = d /\ g.cmd # "rcode"
                   /\ g.cmd = "security" /\ g.arg = 0 => d \in granted'
  PROVE  LinkInv'
<1> USE LinkOK DEF LinkInv, Conns, NoConn, NoKey, dVars, tVars, mVars
<1>1. \A d \in Conns : up'[d] # <<>> => up[d] # <<>>
  <2>1. ASSUME NEW d \in Conns, up[d] = <<>> PROVE up'[d] = <<>>
    <3>1. up[d] \in Seq(Frames) /\ up'[d] \in Seq(Frames)
      BY <2>1 DEF TypeOK
    <3>2. Elems(up'[d]) = {}
      BY <2>1, ElemsEmpty
    <3> QED
      BY <3>1, <3>2, SeqEmpty
  <2> QED
    BY <2>1
<1>2. \A d \in Conns : sstate[d] = "none" /\ down[d] = <<>> => down'[d] = <<>>
  <2>1. ASSUME NEW d \in Conns, sstate[d] = "none", down[d] = <<>>
        PROVE  down'[d] = <<>>
    <3>1. down'[d] \in Seq(Frames)
      BY <2>1 DEF TypeOK
    <3>2. Elems(down'[d]) = {}
      BY <2>1, ElemsEmpty
    <3> QED
      BY <3>1, <3>2, SeqEmpty
  <2> QED
    BY <2>1
<1>3. made \in Nat
  BY DEF TypeOK
<1>4. InOrderMade'
  <2>1. ASSUME NEW d \in Conns, d > made PROVE sstate'[d] = "none"
    <3>1. ~(d <= made)
      BY <1>3, <2>1
    <3> QED
      BY <2>1, <3>1 DEF InOrderMade
  <2> QED
    BY <1>2, <2>1 DEF InOrderMade
<1>5. ThreadsShare'
  BY DEF ThreadsShare
<1>6. ServerKeys'
  BY <1>1 DEF ServerKeys
<1>7. ASSUME csock # NoConn
      PROVE  csock \in Conns
  BY <1>7 DEF TypeOK
<1>8. Unlearned'
  <2>1. SUFFICES ASSUME csock # NoConn, ckey = NoKey
                 PROVE  /\ cstate = "Connect" /\ cout = <<>>
                        /\ up'[csock] = <<>>
                        /\ Arriving(csock)' \subseteq
                             {Frame("rcode", NoKey, csock)}
                        /\ Len(cin) + Len(down'[csock])
                             + (IF tpc = "save" THEN 1 ELSE 0) <= 1
                        /\ sstate'[csock] = "none" => Arriving(csock)' = {}
    BY DEF Unlearned
  <2>2. csock \in Conns /\ up[csock] = <<>> /\ cstate = "Connect" /\ cout = <<>>
    BY <1>7, <2>1 DEF Unlearned
  <2>3. /\ Len(down'[csock]) <= Len(down[csock])
        /\ Elems(down'[csock]) \subseteq Elems(down[csock])
    BY <2>2
  <2>4. Arriving(csock)' \subseteq Arriving(csock)
    BY <2>3 DEF Arriving, Held
  <2>5. Len(cin) + Len(down'[csock]) + (IF tpc = "save" THEN 1 ELSE 0) <= 1
    <3> DEFINE a == Len(cin)  b == Len(down[csock])  d == Len(down'[csock])
               e == IF tpc = "save" THEN 1 ELSE 0
    <3>1. down[csock] \in Seq(Frames) /\ down'[csock] \in Seq(Frames)
      BY <2>2 DEF TypeOK
    <3>2. a \in Nat /\ b \in Nat /\ d \in Nat /\ e \in Nat
      BY <3>1, SeqEmpty DEF TypeOK
    <3>3. a + b + e <= 1 /\ d <= b
      BY <2>1, <2>3 DEF Unlearned
    <3> HIDE DEF a, b, d, e
    <3>4. a + d + e <= 1
      BY <3>2, <3>3
    <3> QED
      BY <3>4 DEF a, d, e
  <2>6. sstate'[csock] = "none" => sstate[csock] = "none"
    <3>1. csock = made
      BY <2>1 DEF InOrderMade
    <3> QED
      BY <2>2
  <2> QED
    BY <1>1, <2>1, <2>2, <2>4, <2>5, <2>6 DEF Unlearned
<1>9. Learned'
  <2>1. SUFFICES ASSUME csock # NoConn, ckey # NoKey
                 PROVE  /\ sstate'[csock] # "none"
                        /\ \A g \in Arriving(csock)' :
                             /\ g.key = csock /\ g.cmd # "rcode"
                             /\ g.cmd = "security" /\ g.arg = 0 =>
                                  csock \in granted'
    BY DEF Learned
  <2>2. csock \in Conns
    BY <1>7, <2>1
  <2>3. ASSUME NEW g \in Arriving(csock)'
        PROVE  /\ g.key = csock /\ g.cmd # "rcode"
               /\ g.cmd = "security" /\ g.arg = 0 => csock \in granted'
    <3>1. CASE g \in Arriving(csock)
      BY <2>1, <3>1 DEF Learned
    <3>2. CASE g \notin Arriving(csock)
      <4>1. g \in Elems(down'[csock]) \ Elems(down[csock])
        BY <2>3, <3>2 DEF Arriving, Held
      <4> QED
        BY <2>2, <4>1
    <3> QED
      BY <3>1, <3>2
  <2> QED
    BY <2>1, <2>2, <2>3 DEF Learned
<1>10. Trusting'
  BY DEF Trusting
<1> QED
  BY <1>4, <1>5, <1>6, <1>8, <1>9, <1>10

(* Cutting a direction of a connection off after n frames *)
LEMMA CutFacts ==
  ASSUME NEW q \in [Conns -> Seq(Frames)], NEW c \in Conns,
         NEW n \in 0 .. Len(q[c])
  PROVE  /\ [q EXCEPT ![c] = SubSeq(@, 1, n)] \in [Conns -> Seq(Frames)]
         /\ \A d \in Conns :
              /\ Len([q EXCEPT ![c] = SubSeq(@, 1, n)][d]) <= Len(q[d])
              /\ Elems([q EXCEPT ![c] = SubSeq(@, 1, n)][d]) \subseteq Elems(q[d])
<1> DEFINE s == q[c]  cut == SubSeq(s, 1, n)
<1>1. s \in Seq(Frames)
  OBVIOUS
<1>2. Len(s) \in Nat
  BY <1>1, SeqEmpty
<1>3. cut \in Seq(Frames) /\ Len(cut) = n /\ Elems(cut) \subseteq Elems(s)
  <2>1. n \in 0 .. Len(s)
    OBVIOUS
  <2> HIDE DEF s
  <2> QED
    BY <1>1, <2>1, ElemsPrefix
<1>4. [q EXCEPT ![c] = SubSeq(@, 1, n)] = [q EXCEPT ![c] = cut]
  OBVIOUS
<1>5. n <= Len(q[c])
  BY <1>2
<1> HIDE DEF cut
<1>6. ASSUME NEW d \in Conns
      PROVE  /\ Len([q EXCEPT ![c] = cut][d]) <= Len(q[d])
             /\ Elems([q EXCEPT ![c] = cut][d]) \subseteq Elems(q[d])
  <2>1. CASE d = c
    BY <1>3, <1>5, <2>1
  <2>2. CASE d # c
    <3>1. Len(q[d]) \in Nat
      BY SeqEmpty
    <3> QED
      BY <2>2, <3>1
  <2> QED
    BY <2>1, <2>2
<1> QED
  BY <1>3, <1>4, <1>6

LEMMA ShutDownFacts ==
  ASSUME TypeOK, NEW c \in Conns, NEW key \in Conns \cup {NoKey},
         ShutDown(c, key)
  PROVE  /\ closing' = [closing EXCEPT ![c] = TRUE]
         /\ closing' \in [Conns -> BOOLEAN]
         /\ skey' = [skey EXCEPT ![c] = key]
         /\ skey' \in [Conns -> Conns \cup {NoKey}]
         /\ down' \in [Conns -> Seq(Frames)]
         /\ \A d \in Conns : /\ Len(down'[d]) <= Len(down[d])
                             /\ Elems(down'[d]) \subseteq Elems(down[d])
<1>1. PICK n \in 0 .. Len(down[c]) : down' = [down EXCEPT ![c] = SubSeq(@, 1, n)]
  BY DEF ShutDown
<1>2. /\ down' \in [Conns -> Seq(Frames)]
      /\ \A d \in Conns : /\ Len(down'[d]) <= Len(down[d])
                          /\ Elems(down'[d]) \subseteq Elems(down[d])
  BY <1>1, CutFacts DEF TypeOK
<1> QED
  BY <1>2 DEF ShutDown, TypeOK

(* The worker's greeting and the key it stores after it keep the invariant. *)
LEMMA SWorkerInv ==
  ASSUME LinkInv, NEW c \in Conns, SWorker(c)
  PROVE  LinkInv'
<1> USE LinkOK DEF LinkInv, Conns, NoConn, NoKey, nVars, dVars, tVars, mVars
<1>1. CASE SGreet(c)
  <2> DEFINE f == Frame("rcode", NoKey, c)
  <2>1. f \in Frames /\ f.key = NoKey
    BY DEF Frames, Frame
  <2>2. /\ greeting = NoConn /\ c <= made /\ sstate[c] = "none"
        /\ greeting' = c
        /\ sstate' = [sstate EXCEPT ![c] = "Connect"]
        /\ down' = [down EXCEPT ![c] = Append(down[c], f)]
        /\ UNCHANGED <<skey, closing, granted, up, lost, made, faults, dVars,
                       tVars, mVars, agree>>
    BY <1>1 DEF SGreet
  <2>3. down[c] = <<>>
    BY <2>2 DEF InOrderMade
  <2>13. down[c] \in Seq(Frames)
    BY DEF TypeOK
  <2> HIDE DEF f
  <2>4. /\ Append(down[c], f) \in Seq(Frames)
        /\ Len(Append(down[c], f)) = 1
        /\ Elems(Append(down[c], f)) = {f}
    <3>1. Elems(down[c]) = {} /\ Len(down[c]) = 0
      BY <2>3, ElemsEmpty
    <3>2. /\ Append(down[c], f) \in Seq(Frames)
          /\ Len(Append(down[c], f)) = Len(down[c]) + 1
          /\ Elems(Append(down[c], f)) = Elems(down[c]) \cup {f}
      BY <2>1, <2>13, ElemsAppend
    <3> QED
      BY <3>1, <3>2
  <2>5. /\ down' \in [Conns -> Seq(Frames)]
        /\ Len(down'[c]) = 1 /\ Elems(down'[c]) = {f}
        /\ \A d \in Conns : d # c => down'[d] = down[d]
    BY <2>2, <2>4 DEF TypeOK
  <2>6. /\ sstate' \in [Conns -> {"none", "Connect", "Secure", "Closed"}]
        /\ sstate'[c] = "Connect"
        /\ \A d \in Conns : d # c => sstate'[d] = sstate[d]
    BY <2>2 DEF TypeOK
  <2>7. TypeOK'
    BY <2>2, <2>5, <2>6 DEF TypeOK
  <2>8. InOrderMade'
    <3>1. \A d \in Conns : d > made => d # c
      BY <2>2 DEF TypeOK
    <3> QED
      BY <2>2, <2>5, <2>6, <3>1 DEF InOrderMade
  <2>9. ThreadsShare' /\ Trusting'
    BY <2>2 DEF ThreadsShare, Trusting
  <2>10. ServerKeys'
    BY <2>2, <2>6 DEF ServerKeys, Open
  <2>11. CASE csock # c
    <3>1. Unlearned' /\ Learned'
      BY <2>2, <2>5, <2>6, <2>11 DEF Unlearned, Learned, Arriving, Held, TypeOK
    <3> QED
      BY <2>7, <2>8, <2>9, <2>10, <3>1
  <2>12. CASE csock = c
    <3>1. ckey = NoKey /\ csock # NoConn
      BY <2>2, <2>12 DEF Learned
    <3>2. /\ Arriving(c) = {} /\ cstate = "Connect" /\ cout = <<>>
          /\ up[c] = <<>>
      BY <2>2, <2>12, <3>1 DEF Unlearned
    <3>3. Elems(cin) = {} /\ tpc # "save"
      BY <3>2 DEF Arriving, Held
    <3>4. Len(cin) = 0
      BY <3>3, SeqEmpty DEF TypeOK
    <3>5. Arriving(csock)' = {f}
      BY <2>2, <2>5, <2>12, <3>3 DEF Arriving, Held
    <3>6. Len(cin') + Len(down'[csock]) + (IF tpc' = "save" THEN 1 ELSE 0) <= 1
      BY <2>2, <2>5, <2>12, <3>3, <3>4
    <3>7. Unlearned'
      BY <2>2, <2>6, <2>12, <3>2, <3>5, <3>6 DEF Unlearned, f
    <3>8. Learned'
      BY <2>2, <3>1 DEF Learned
    <3> QED
      BY <2>7, <2>8, <2>9, <2>10, <3>7, <3>8
  <2> QED
    BY <2>11, <2>12
<1>2. CASE SKey(c)
  <2>1. /\ greeting = c /\ greeting' = NoConn /\ skey' = [skey EXCEPT ![c] = c]
        /\ UNCHANGED <<sstate, closing, granted, nVars, dVars, tVars, mVars,
                       agree>>
    BY <1>2 DEF SKey
  <2>2. TypeOK'
    BY <2>1 DEF TypeOK
  <2>5. InOrderMade'
    <3>1. UNCHANGED <<csock, made, sstate, learned, down>>
      BY <2>1
    <3> QED
      BY <2>1, <3>1 DEF InOrderMade
  <2>6. ThreadsShare' /\ Trusting'
    BY <2>1 DEF ThreadsShare, Trusting
  <2>3. ServerKeys'
    <3>1. skey'[c] = c /\ \A d \in Conns : d # c => skey'[d] = skey[d]
      BY <2>1 DEF TypeOK
    <3> QED
      BY <2>1, <3>1 DEF ServerKeys, Open
  <2>4. Unlearned' /\ Learned'
    BY <2>1 DEF Unlearned, Learned, Arriving, Held
  <2> QED
    BY <2>2, <2>3, <2>4, <2>5, <2>6
<1> QED
  BY <1>1, <1>2 DEF SWorker

(* A step that shuts a connection down *)
LEMMA ShutDownInv ==
  ASSUME LinkInv, NEW c \in Conns, NEW key \in Conns \cup {NoKey},
         ShutDown(c, key),
         UNCHANGED <<greeting, made, dVars, tVars, mVars, lost, agree>>,
         faults' \in 0 .. MaxFaults,
         granted \subseteq granted', granted' \subseteq granted \cup learned,
         sstate' \in [Conns -> {"none", "Connect", "Secure", "Closed"}],
         sstate[c] # "none", sstate'[c] # "none",
         \A d \in Conns : d # c => sstate'[d] = sstate[d],
         up' \in [Conns -> Seq(Frames)],
         \A d \in Conns : Elems(up'[d]) \subseteq Elems(up[d])
  PROVE  LinkInv'
<1> USE DEF dVars, tVars, mVars
<1>1. TypeOK
  BY DEF LinkInv
<1>2. /\ closing' = [closing EXCEPT ![c] = TRUE]
      /\ closing' \in [Conns -> BOOLEAN]
      /\ skey' = [skey EXCEPT ![c] = key]
      /\ skey' \in [Conns -> Conns \cup {NoKey}]
      /\ down' \in [Conns -> Seq(Frames)]
      /\ \A d \in Conns : /\ Len(down'[d]) <= Len(down[d])
                          /\ Elems(down'[d]) \subseteq Elems(down[d])
  BY <1>1, ShutDownFacts
<1>3. granted' \subseteq Conns
  BY <1>1 DEF TypeOK
<1>4. TypeOK'
  BY <1>1, <1>2, <1>3 DEF TypeOK
<1>5. c <= made
  <2>1. made \in Nat /\ c \in Nat
    BY <1>1, LinkOK DEF TypeOK, Conns
  <2>2. ~(c > made)
    BY DEF LinkInv, InOrderMade
  <2> QED
    BY <2>1, <2>2
<1>6. \A d \in Conns : sstate'[d] = sstate[d] \/ (d <= made /\ sstate'[d] # "none")
  BY <1>5
<1>7. \A d \in Conns : Open(d)' => Open(d) /\ skey'[d] = skey[d]
  BY <1>1, <1>2 DEF Open, TypeOK
<1>8. \A d \in Conns : sstate'[d] = "none" => closing'[d] = closing[d]
  BY <1>1, <1>2 DEF TypeOK
<1> QED
  BY <1>2, <1>4, <1>6, <1>7, <1>8, ServerStepInv

(* The main loop's steps, and the faults, keep it as well. *)
LEMMA SMainInv ==
  ASSUME LinkInv, NEW c \in Conns, SMain(c) \/ SFault(c)
  PROVE  LinkInv'
<1> USE DEF dVars, tVars, mVars
<1>1. TypeOK /\ made \in Nat /\ c \in Nat /\ MaxFaults \in Nat
  BY LinkOK DEF LinkInv, TypeOK, Conns
<1>2. \A d \in Conns : Len(down[d]) \in Nat /\ up[d] \in Seq(Frames)
  BY <1>1, SeqEmpty DEF TypeOK
<1>3. skey[c] \in Conns \cup {NoKey} /\ NoKey \in Conns \cup {NoKey}
  BY <1>1 DEF TypeOK
<1>4. Fault => faults' \in 0 .. MaxFaults
  BY <1>1 DEF Fault, TypeOK
<1>5. CASE SParse(c)
  <2>1. /\ Open(c) /\ greeting # c /\ up[c] # <<>>
        /\ UNCHANGED <<greeting, lost, made, faults, dVars, tVars, mVars, agree>>
    BY <1>5 DEF SParse, Received
  <2>2. skey[c] = c /\ c \in learned /\ sstate[c] # "none" /\ sstate[c] # "Closed"
    BY <2>1 DEF LinkInv, ServerKeys, Open
  <2>3. faults' \in 0 .. MaxFaults
    BY <1>1, <2>1 DEF TypeOK
  <2>4. CASE Head(up[c]).key # skey[c]
    <3>1. ShutDown(c, NoKey) /\ UNCHANGED <<sstate, granted, up>>
      BY <1>5, <2>4 DEF SParse
    <3> QED
      BY <1>1, <1>3, <2>1, <2>2, <2>3, <3>1, ShutDownInv DEF TypeOK
  <2>5. CASE Head(up[c]).key = skey[c]
    <3> DEFINE f == Head(up[c])
               ok == f.cmd = "security" /\ f.arg = skey[c] /\ agree
               secure == ok \/ sstate[c] = "Secure"
               arg == IF f.cmd = "security" /\ ~ok THEN 1 ELSE 0
               g == Frame(f.cmd, skey[c], arg)
    <3>1. /\ f \in Frames /\ f \in Elems(up[c])
          /\ Tail(up[c]) \in Seq(Frames)
          /\ Elems(Tail(up[c])) \subseteq Elems(up[c])
      BY <1>2, <2>1, ElemsHead
    <3>2. /\ sstate' = [sstate EXCEPT ![c] = IF secure THEN "Secure" ELSE "Connect"]
          /\ granted' = IF ok THEN granted \cup {c} ELSE granted
          /\ up' = IF secure THEN [up EXCEPT ![c] = Tail(@)] ELSE up
          /\ Answer(c, f.cmd, arg)
      BY <1>5, <2>5 DEF SParse, SHandle
    <3>3. f.cmd # "rcode"
      BY <3>1 DEF LinkInv, ServerKeys
    <3>4. /\ g \in Frames /\ g.key = c /\ g.cmd # "rcode"
          /\ g.cmd = "security" /\ g.arg = 0 => ok
      BY <2>2, <3>1, <3>3 DEF Frame, Frames
    <3>5. /\ granted \subseteq granted' /\ granted' \subseteq granted \cup learned
          /\ ok => c \in granted'
      BY <2>2, <3>2
    <3>6. /\ sstate' \in [Conns -> {"none", "Connect", "Secure", "Closed"}]
          /\ sstate'[c] # "none" /\ sstate'[c] \in {"Connect", "Secure"}
          /\ \A d \in Conns : d # c => sstate'[d] = sstate[d]
      BY <1>1, <3>2 DEF TypeOK
    <3>7. /\ up' \in [Conns -> Seq(Frames)]
          /\ \A d \in Conns : Elems(up'[d]) \subseteq Elems(up[d])
      BY <1>1, <3>1, <3>2 DEF TypeOK
    <3>8. CASE ~(Len(down[c]) < RoomMax)
      <4>1. ShutDown(c, NoKey)
        BY <3>2, <3>8 DEF Answer
      <4> QED
        BY <1>3, <2>1, <2>2, <2>3, <3>5, <3>6, <3>7, <4>1, ShutDownInv
    <3>9. CASE Len(down[c]) < RoomMax
      <4>1. /\ down' = [down EXCEPT ![c] = Append(down[c], g)]
            /\ UNCHANGED <<closing, skey>>
        BY <3>2, <3>9 DEF Answer
      <4>2. down[c] \in Seq(Frames)
        BY <1>1 DEF TypeOK
      <4> HIDE DEF g, f, ok
      <4>3. /\ Append(down[c], g) \in Seq(Frames)
            /\ Elems(Append(down[c], g)) = Elems(down[c]) \cup {g}
        BY <3>4, <4>2, ElemsAppend
      <4>4. /\ down' \in [Conns -> Seq(Frames)]
            /\ Elems(down'[c]) = Elems(down[c]) \cup {g}
            /\ \A d \in Conns : d # c => down'[d] = down[d]
        BY <1>1, <4>1, <4>3 DEF TypeOK
      <4>5. granted' \subseteq Conns
        BY <1>1, <3>5 DEF TypeOK
      <4>6. TypeOK'
        BY <1>1, <2>1, <2>3, <3>6, <3>7, <4>1, <4>4, <4>5 DEF TypeOK
      <4>7. c <= made
        BY <1>1, <2>2 DEF LinkInv, InOrderMade
      <4>8. \A d \in Conns :
              sstate'[d] = sstate[d] \/ (d <= made /\ sstate'[d] # "none")
        BY <3>6, <4>7
      <4>9. \A d \in Conns : Open(d)' => Open(d) /\ skey'[d] = skey[d]
        BY <2>1, <3>6, <4>1 DEF Open
      <4>10. ASSUME NEW d \in Conns
             PROVE  \/ /\ Len(down'[d]) <= Len(down[d])
                       /\ Elems(down'[d]) \subseteq Elems(down[d])
                    \/ /\ sstate[d] # "none" /\ up[d] # <<>>
                       /\ \A h \in Elems(down'[d]) \ Elems(down[d]) :
                            /\ h.key = d /\ h.cmd # "rcode"
                            /\ h.cmd = "security" /\ h.arg = 0 => d \in granted'
        <5>1. CASE d = c
          BY <2>1, <2>2, <3>4, <3>5, <4>4, <5>1
        <5>2. CASE d # c
          BY <1>2, <4>4, <5>2
        <5> QED
          BY <5>1, <5>2
      <4> QED
        BY <2>1, <3>5, <3>7, <4>1, <4>6, <4>8, <4>9, <4>10, ServerStepInv
    <3> QED
      BY <3>8, <3>9
  <2> QED
    BY <2>4, <2>5
<1>6. CASE STimeout(c)
  <2>1. /\ Open(c) /\ Fault /\ ShutDown(c, NoKey)
        /\ UNCHANGED <<sstate, greeting, granted, up, lost, made, dVars, tVars,
                       mVars, agree>>
    BY <1>6 DEF STimeout
  <2>2. sstate[c] # "none"
    BY <2>1 DEF Open
  <2> QED
    BY <1>1, <1>3, <1>4, <2>1, <2>2, ShutDownInv DEF TypeOK
<1>7. CASE SLost(c)
  <2>1. PICK key \in {skey[c], NoKey} : ShutDown(c, key)
    BY <1>7 DEF SLost
  <2>2. /\ Open(c)
        /\ UNCHANGED <<sstate, greeting, granted, up, lost, made, faults, dVars,
                       tVars, mVars, agree>>
    BY <1>7 DEF SLost
  <2>3. sstate[c] # "none" /\ key \in Conns \cup {NoKey}
    BY <1>3, <2>1, <2>2 DEF Open
  <2> QED
    BY <1>1, <2>1, <2>2, <2>3, ShutDownInv DEF TypeOK
<1>8. CASE SClose(c)
  <2>1. /\ closing[c]
        /\ sstate' = [sstate EXCEPT ![c] = "Closed"]
        /\ skey' = [skey EXCEPT ![c] = NoKey]
        /\ up' = [up EXCEPT ![c] = <<>>]
        /\ UNCHANGED <<greeting, closing, granted, down, lost, made, faults,
                       dVars, tVars, mVars, agree>>
    BY <1>8 DEF SClose
  <2>6. c <= made /\ <<>> \in Seq(Frames)
    BY <1>1, <2>1 DEF LinkInv, InOrderMade
  <2>2. TypeOK'
    <3>1. /\ sstate' \in [Conns -> {"none", "Connect", "Secure", "Closed"}]
          /\ skey' \in [Conns -> Conns \cup {NoKey}]
      BY <1>1, <1>3, <2>1 DEF TypeOK
    <3>2. up' \in [Conns -> Seq(Frames)]
      BY <1>1, <2>1, <2>6 DEF TypeOK
    <3> QED
      BY <1>1, <2>1, <3>1, <3>2 DEF TypeOK
  <2>3. \A d \in Conns : Open(d)' => Open(d) /\ skey'[d] = skey[d]
    BY <1>1, <2>1 DEF Open, TypeOK
  <2>4. \A d \in Conns : Elems(up'[d]) \subseteq Elems(up[d])
    BY <1>1, <2>1, ElemsEmpty DEF TypeOK
  <2>5. \A d \in Conns :
          sstate'[d] = sstate[d] \/ (d <= made /\ sstate'[d] # "none")
    BY <1>1, <2>1, <2>6 DEF TypeOK
  <2> QED
    BY <1>2, <2>1, <2>2, <2>3, <2>4, <2>5, ServerStepInv
<1>9. CASE SRefuse(c)
  <2>1. /\ c <= made /\ Fault
        /\ sstate' = [sstate EXCEPT ![c] = "Closed"]
        /\ UNCHANGED <<skey, greeting, closing, granted, up, down, lost, made,
                       dVars, tVars, mVars, agree>>
    BY <1>9 DEF SRefuse
  <2>2. TypeOK'
    BY <1>1, <1>4, <2>1 DEF TypeOK
  <2>3. \A d \in Conns : Open(d)' => Open(d) /\ skey'[d] = skey[d]
    BY <1>1, <2>1 DEF Open, TypeOK
  <2>5. \A d \in Conns :
          sstate'[d] = sstate[d] \/ (d <= made /\ sstate'[d] # "none")
    BY <1>1, <2>1 DEF TypeOK
  <2> QED
    BY <1>2, <2>1, <2>2, <2>3, <2>5, ServerStepInv
<1>10. CASE Break(c)
  <2>1. PICK m \in 0 .. Len(up[c]) : up' = [up EXCEPT ![c] = SubSeq(@, 1, m)]
    BY <1>10 DEF Break
  <2>2. PICK n \in 0 .. Len(down[c]) :
          down' = [down EXCEPT ![c] = SubSeq(@, 1, n)]
    BY <1>10 DEF Break
  <2>3. /\ Fault /\ lost' = [lost EXCEPT ![c] = TRUE]
        /\ UNCHANGED <<sVars, made, dVars, tVars, mVars, agree>>
    BY <1>10 DEF Break
  <2>4. /\ up' \in [Conns -> Seq(Frames)]
        /\ \A d \in Conns : Elems(up'[d]) \subseteq Elems(up[d])
    BY <1>1, <2>1, CutFacts DEF TypeOK
  <2>5. /\ down' \in [Conns -> Seq(Frames)]
        /\ \A d \in Conns : /\ Len(down'[d]) <= Len(down[d])
                            /\ Elems(down'[d]) \subseteq Elems(down[d])
    BY <1>1, <2>2, CutFacts DEF TypeOK
  <2>6. TypeOK'
    BY <1>1, <1>4, <2>3, <2>4, <2>5 DEF TypeOK, sVars
  <2>7. \A d \in Conns : /\ Open(d)' => Open(d) /\ skey'[d] = skey[d]
                        /\ sstate'[d] = sstate[d]
    BY <2>3 DEF Open, sVars
  <2> QED
    BY <2>3, <2>4, <2>5, <2>6, <2>7, ServerStepInv DEF sVars
<1> QED
  BY <1>5, <1>6, <1>7, <1>8, <1>9, <1>10 DEF SMain, SFault

(* The two threads of the client and the server share the invariant. *)
LEMMA LinkNext == LinkInv /\ [Next]_vars => LinkInv'
<1> SUFFICES ASSUME LinkInv, [Next]_vars PROVE LinkInv'
  OBVIOUS
<1>1. CASE UNCHANGED vars
  <2> USE <1>1 DEF vars, sVars, nVars, dVars, tVars, mVars
  <2>1. TypeOK' /\ InOrderMade' /\ Trusting'
    BY DEF LinkInv, TypeOK, InOrderMade, Trusting
  <2>2. ThreadsShare'
    BY DEF LinkInv, ThreadsShare
  <2>3. ServerKeys'
    BY DEF LinkInv, ServerKeys, Open
  <2>4. Unlearned' /\ Learned'
    BY DEF LinkInv, Unlearned, Learned, Arriving, Held
  <2> QED
    BY <2>1, <2>2, <2>3, <2>4 DEF LinkInv
<1>2. CASE Next
  BY <1>2, TInv, MInv, SWorkerInv, SMainInv DEF Next
<1> QED
  BY <1>1, <1>2

(* The inductive invariant of the link, type correctness included: onRecv, *)
(* parseCommand and disconnectServer of TcpClient against onAccpet and     *)
(* parseCommand of TcpServer.                                              *)
THEOREM LinkSafe == Spec => []LinkInv
<1> QED
  BY LinkInit, LinkNext, PTL DEF Spec

LEMMA InvNoBadHead == LinkInv => NoBadHead
<1> SUFFICES ASSUME LinkInv PROVE NoBadHead
  OBVIOUS
<1>1. ASSUME NEW c \in Conns, Received(c) PROVE Head(up[c]).key = skey[c]
  <2>1. up[c] \in Seq(Frames) /\ up[c] # <<>>
    BY <1>1 DEF LinkInv, TypeOK, Received
  <2>2. Head(up[c]) \in Elems(up[c])
    BY <2>1, ElemsHead
  <2> QED
    BY <1>1, <2>2 DEF LinkInv, ServerKeys, Received
<1>2. ASSUME Connected, cin # <<>> PROVE Head(cin).key = ckey
  <2>1. csock # NoConn
    BY <1>2 DEF LinkInv, ThreadsShare, Connected
  <2>2. cin \in Seq(Frames)
    BY DEF LinkInv, TypeOK
  <2>3. Head(cin) \in Arriving(csock)
    BY <1>2, <2>2, ElemsHead DEF Arriving
  <2>4. CASE ckey = NoKey
    <3>1. Head(cin) = Frame("rcode", NoKey, csock)
      BY <2>1, <2>3, <2>4 DEF LinkInv, Unlearned
    <3> QED
      BY <2>4, <3>1 DEF Frame
  <2>5. CASE ckey # NoKey
    BY <2>1, <2>3, <2>5 DEF LinkInv, Learned
  <2> QED
    BY <2>4, <2>5
<1> QED
  BY <1>1, <1>2 DEF NoBadHead

(* Neither parseCommand meets a bad head (2001) in a frame of its peer,    *)
(* although the server stores rCode after the greeting that carries it.    *)
THEOREM HeadsMatch == Spec => []NoBadHead
<1> QED
  BY LinkSafe, InvNoBadHead, PTL

LEMMA LinkInitMaps == Init => SL!Init
  BY DEF Init, SL!Init

LEMMA LinkStepMaps ==
  LinkInv /\ LinkInv' /\ [Next]_vars =>
    [SL!Next]_<<learned, granted, IF cstate = "Secure" THEN csock ELSE NoConn>>
<1> DEFINE trusted == IF cstate = "Secure" THEN csock ELSE NoConn
<1> SUFFICES ASSUME LinkInv, LinkInv', [Next]_vars
             PROVE  [SL!Next]_<<learned, granted, trusted>>
  OBVIOUS
<1> USE DEF sVars, nVars, dVars, tVars, mVars
<1>1. CASE UNCHANGED vars
  BY <1>1 DEF vars
<1>2. CASE TStart \/ TConnected
  BY <1>2 DEF TStart, TConnected, ResetData
<1>3. CASE TConnectFails \/ TDrop \/ MDrop
  <2>1. trusted' = NoConn /\ UNCHANGED <<learned, granted>>
    BY <1>3 DEF TConnectFails, TDrop, MDrop, Disconnect, ResetData
  <2> QED
    BY <2>1 DEF SL!Next, SL!Leave
<1>4. CASE TRecv \/ TSave \/ TFails
  BY <1>4 DEF TRecv, TSave, TFails
<1>5. CASE MHeart \/ MTake \/ MSend \/ MSendFails \/ MOther
  BY <1>5 DEF MHeart, MTake, MSend, MSendFails, MOther
<1>6. CASE MRcode
  <2>1. mframe.arg \in Conns
    <3>1. mframe.arg \in 1 .. made /\ made \in 0 .. MaxConn
      BY <1>6 DEF MRcode, LinkInv, ThreadsShare, TypeOK
    <3> QED
      BY <3>1, LinkOK DEF Conns
  <2>2. SL!Learn(mframe.arg)
    BY <1>6 DEF MRcode, SL!Learn
  <2> QED
    BY <2>1, <2>2 DEF SL!Next
<1>7. CASE MSecurity
  <2>1. UNCHANGED <<learned, granted, csock>>
    BY <1>7 DEF MSecurity
  <2>2. CASE cstate' = cstate
    BY <2>1, <2>2
  <2>3. CASE cstate' = "Secure" /\ csock = NoConn
    <3>1. trusted' = NoConn
      BY <2>1, <2>3
    <3> QED
      BY <2>1, <3>1 DEF SL!Next, SL!Leave
  <2>4. CASE cstate' = "Secure" /\ csock # NoConn
    <3>1. csock \in Conns /\ csock \in granted /\ trusted' = csock
      BY <2>1, <2>4 DEF LinkInv, Trusting, TypeOK
    <3>2. SL!Trust(csock)
      BY <2>1, <3>1 DEF SL!Trust
    <3> QED
      BY <3>1, <3>2 DEF SL!Next
  <2> QED
    BY <1>7, <2>2, <2>3, <2>4 DEF MSecurity
<1>8. ASSUME NEW c \in Conns, SParse(c)
      PROVE  [SL!Next]_<<learned, granted, trusted>>
  <2>1. UNCHANGED <<learned, cstate, csock>> /\ up[c] # <<>>
    BY <1>8 DEF SParse, Received
  <2>2. granted' = granted \/ granted' = granted \cup {c}
    BY <1>8 DEF SParse, SHandle
  <2>3. CASE granted' = granted
    BY <2>1, <2>3
  <2>4. CASE granted' = granted \cup {c}
    <3>1. c \in learned
      BY <2>1 DEF LinkInv, ServerKeys
    <3>2. SL!Grant(c)
      BY <2>1, <2>4, <3>1 DEF SL!Grant
    <3> QED
      BY <3>2 DEF SL!Next
  <2> QED
    BY <2>2, <2>3, <2>4
<1>9. ASSUME NEW c \in Conns,
             SWorker(c) \/ SLost(c) \/ SClose(c) \/ SFault(c)
      PROVE  UNCHANGED <<learned, granted, cstate, csock>>
  BY <1>9 DEF SWorker, SGreet, SKey, SLost, SClose, SFault, SRefuse, STimeout,
    Break
<1>10. CASE \E c \in Conns : SWorker(c) \/ SMain(c) \/ SFault(c)
  BY <1>8, <1>9, <1>10 DEF SMain
<1>11. CASE TStep \/ TConnectFails \/ MStep
  BY <1>2, <1>3, <1>4, <1>5, <1>6, <1>7, <1>11 DEF TStep, MStep
<1> QED
  BY <1>1, <1>10, <1>11 DEF Next

(* The link implements the secure link: whatever the two client threads do *)
(* to each other, and over any number of broken connections, the client    *)
(* trusts only a connection the server has granted, and the server grants  *)
(* only to a client that has its key.                                      *)
THEOREM LinkImplements == Spec => Agrees
<1> QED
  BY LinkSafe, LinkInitMaps, LinkStepMaps, PTL DEF Spec, Agrees, SL!Spec
=============================================================================
