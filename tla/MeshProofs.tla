----------------------------- MODULE MeshProofs -----------------------------
(***************************************************************************)
(* What PeerMesh promises for any number of nodes, codes and calls: a code *)
(* enrolls one node, a node is never its own peer, and gossip adds nobody  *)
(* who is not connected to the node by pairings.  The last one is stated   *)
(* without a path: whatever set of nodes no pairing leaves, no peer list   *)
(* leaves either.                                                          *)
(***************************************************************************)
EXTENDS PeerMesh, FiniteSetTheorems, TLAPS

Pairs == UNION {admitted[c] : c \in Code}

(* A set of nodes that neither the first mesh nor a pairing leaves.        *)
Closed(S) ==
    /\ S \subseteq Node
    /\ Mesh \subseteq S \/ Mesh \cap S = {}
    /\ \A p \in Pairs : p[1] \in S <=> p[2] \in S

(* Nobody becomes a peer but by pairings: a node knows only nodes that the *)
(* first mesh and the pairings made since connect it with - however old    *)
(* the list is that a gossiper, a retried Join or a stale answer brings.   *)
NoStrangers == \A S \in SUBSET Node : Closed(S) => \A n \in S : DOMAIN peers[n] \subseteq S

(* A node is never its own peer (adoptPeer passes it over).                *)
NoSelfPeer == \A n \in Node : ~Knows(n, n)
-----------------------------------------------------------------------------
(* The variables are functions of the nodes, and what is on its way names  *)
(* nodes and codes.                                                        *)
Shapes ==
    /\ DOMAIN peers = Node /\ DOMAIN codes = Node /\ DOMAIN join = Node
    /\ DOMAIN pass = Node /\ DOMAIN answer = Node /\ DOMAIN admitted = Code
    /\ minted \in 0..MaxCodes
    /\ \A m \in pairings : m.from \in Node /\ m.to \in Node /\ m.from # m.to /\ m.code \in Code

(* A live code was minted by one node and has not been used.               *)
FreshCodes ==
    /\ \A n \in Node : \A c \in codes[n] : c \in Code /\ c <= minted /\ admitted[c] = {}
    /\ \A n, p \in Node : n # p => codes[n] \cap codes[p] = {}
    /\ \A c \in Code : c > minted => admitted[c] = {}

OneUse == \A c \in Code : \A x, y \in admitted[c] : x = y

(* Whom a node has heard of: on file, in the answer to its Join, on the    *)
(* list of this pass, in the answer it is about to use.                    *)
Heard(n) ==
    DOMAIN peers[n]
    \cup (IF join[n].st = "paired" THEN {join[n].to} \cup DOMAIN join[n].gossip ELSE {})
    \cup {e.id : e \in pass[n]}
    \cup (IF answer[n] # NoAnswer THEN {answer[n].from} \cup DOMAIN answer[n].gossip ELSE {})

(* ... and whom of them it takes to be another node.                       *)
NotItself ==
    \A n \in Node :
        /\ n \notin DOMAIN peers[n]
        /\ join[n].st # "none" => join[n].to # n
        /\ \A e \in pass[n] : e.id # n
        /\ answer[n] # NoAnswer => answer[n].from # n

Acquainted == \A S \in SUBSET Node : Closed(S) => \A n \in S : Heard(n) \subseteq S

(* The inductive invariant.                                                *)
IInv == Shapes /\ FreshCodes /\ OneUse /\ NotItself /\ Acquainted
-----------------------------------------------------------------------------
(* Whom the lists name.                                                    *)
LEMMA Upserted == \A list, p, nm, a : DOMAIN Upsert(list, p, nm, a) = DOMAIN list \cup {p}
  BY DEF Upsert

(* Without takes the one peer out.                                         *)
LEMMA Removed == \A list, p : DOMAIN Without(list, p) = DOMAIN list \ {p}
  BY DEF Without

(* Adopting a gossiped list adds whom it names, but for the node itself.   *)
LEMMA Gossiped ==
    \A n, list, gossip : /\ DOMAIN AdoptAll(n, list, gossip) = DOMAIN list \cup (DOMAIN gossip \ {n})
                         /\ DOMAIN Adopted(n, list, gossip) = DOMAIN list \cup (DOMAIN gossip \ {n})
<1>1. \A n, list, gossip : DOMAIN AdoptAll(n, list, gossip) = DOMAIN list \cup (DOMAIN gossip \ {n})
  BY DEF AdoptAll
<1>2. SUFFICES ASSUME NEW n, NEW list, NEW gossip
             PROVE  /\ DOMAIN AdoptAll(n, list, gossip) = DOMAIN list \cup (DOMAIN gossip \ {n})
                    /\ DOMAIN Adopted(n, list, gossip) = DOMAIN list \cup (DOMAIN gossip \ {n})
  OBVIOUS
<1>3. PICK new : new = [q \in DOMAIN gossip \ DOMAIN list |-> gossip[q]]
  OBVIOUS
<1>4. DOMAIN new = DOMAIN gossip \ DOMAIN list /\ Adopted(n, list, gossip) = AdoptAll(n, list, new)
  BY <1>3, Zenon DEF Adopted
<1>5. DOMAIN AdoptAll(n, list, new) = DOMAIN list \cup (DOMAIN new \ {n})
  BY <1>1, Zenon
<1>6. DOMAIN AdoptAll(n, list, gossip) = DOMAIN list \cup (DOMAIN gossip \ {n})
  BY <1>1, Zenon
<1> QED BY <1>4, <1>5, <1>6

(* A step after which no node has heard of more.                           *)
LEMMA HearsNoMore ==
    ASSUME Acquainted, UNCHANGED admitted, \A n \in Node : Heard(n)' \subseteq Heard(n)
    PROVE  Acquainted'
<1>1. \A S : Closed(S)' <=> Closed(S)
  BY DEF Closed, Pairs
<1> QED BY <1>1 DEF Acquainted, Closed
-----------------------------------------------------------------------------
(* Codes, joins and restarts.                                              *)
LEMMA MintInv ==
    ASSUME IInv, NEW n \in Node, MintCode(n)
    PROVE  IInv'
<1>1. /\ minted' = minted + 1 /\ minted' \in Code /\ minted' \in 0..MaxCodes /\ minted \in Nat
      /\ DOMAIN codes' = Node /\ codes'[n] = codes[n] \cup {minted'}
      /\ \A p \in Node : p # n => codes'[p] = codes[p]
      /\ UNCHANGED <<peers, join, pairings, pass, answer, admitted>>
  BY MeshAssumption DEF MintCode, IInv, Shapes, Code
<1>2. Shapes'
  BY <1>1 DEF IInv, Shapes
<1>3. FreshCodes'
  <2>1. \A p \in Node : \A c \in codes[p] : c \in Code /\ c <= minted /\ c # minted' /\ admitted[c] = {}
    BY <1>1 DEF IInv, FreshCodes, Code
  <2>2. admitted[minted'] = {} /\ \A c \in Code : c <= minted => c <= minted'
    BY <1>1 DEF IInv, FreshCodes, Code
  <2>3. ASSUME NEW p \in Node, NEW c \in codes'[p] PROVE c \in Code /\ c <= minted' /\ admitted'[c] = {}
    <3>1. CASE c \in codes[p]
      BY <1>1, <2>1, <2>2, <3>1
    <3>2. CASE c = minted'
      BY <1>1, <2>2, <3>2
    <3> QED BY <1>1, <2>3, <3>1, <3>2
  <2>4. \A p, q \in Node : p # q => codes'[p] \cap codes'[q] = {}
    BY <1>1, <2>1 DEF IInv, FreshCodes
  <2>5. \A c \in Code : c > minted' => admitted'[c] = {}
    BY <1>1 DEF IInv, FreshCodes, Code
  <2> QED BY <2>3, <2>4, <2>5 DEF FreshCodes
<1>4. OneUse' /\ NotItself'
  BY <1>1 DEF IInv, OneUse, NotItself
<1>5. Acquainted'
  BY <1>1, HearsNoMore DEF IInv, Heard
<1> QED BY <1>2, <1>3, <1>4, <1>5 DEF IInv

(* Codes only go.                                                          *)
LEMMA CodesGo ==
    ASSUME IInv, DOMAIN codes' = Node, \A n \in Node : codes'[n] \subseteq codes[n],
           UNCHANGED <<minted, admitted>>
    PROVE  FreshCodes' /\ OneUse'
BY DEF IInv, FreshCodes, OneUse

(* A code that has expired is dropped.                                     *)
LEMMA ExpiresInv ==
    ASSUME IInv, NEW n \in Node, NEW c \in Code, CodeExpires(n, c)
    PROVE  IInv'
<1>1. /\ DOMAIN codes' = Node /\ \A p \in Node : codes'[p] \subseteq codes[p]
      /\ UNCHANGED <<peers, minted, join, pairings, pass, answer, admitted>>
  BY DEF CodeExpires, IInv, Shapes
<1>2. Shapes' /\ NotItself'
  BY <1>1 DEF IInv, Shapes, NotItself
<1>3. Acquainted'
  BY <1>1, HearsNoMore DEF IInv, Heard
<1> QED BY <1>1, <1>2, <1>3, CodesGo DEF IInv

(* The steps that change one node's Join, and no peer list.                *)
LEMMA JoinStep ==
    ASSUME IInv, NEW j \in Node, NEW r, join' = [join EXCEPT ![j] = r], r.st # "paired",
           r.st # "none" => r.to # j,
           \A m \in pairings' : m.from \in Node /\ m.to \in Node /\ m.from # m.to /\ m.code \in Code,
           UNCHANGED <<peers, codes, minted, pass, answer, admitted>>
    PROVE  IInv'
<1>1. /\ DOMAIN join' = Node /\ join'[j] = r /\ \A n \in Node : n # j => join'[n] = join[n]
  BY DEF IInv, Shapes
<1>2. Shapes' /\ NotItself'
  BY <1>1 DEF IInv, Shapes, NotItself
<1>3. FreshCodes' /\ OneUse'
  BY DEF IInv, FreshCodes, OneUse
<1>4. \A n \in Node : Heard(n)' \subseteq Heard(n)
  BY <1>1 DEF Heard
<1> QED BY <1>2, <1>3, <1>4, HearsNoMore DEF IInv

(* Join: a node that has no join under way presents a code.                *)
LEMMA JoinInv ==
    ASSUME IInv, NEW j \in Node, NEW n \in Node, NEW c \in Code, Join(j, n, c)
    PROVE  IInv'
<1>1. PICK r : r = [st |-> "asked", to |-> n, k |-> joins']
  OBVIOUS
<1>2. r.st = "asked" /\ r.to = n /\ j # n /\ join' = [join EXCEPT ![j] = r]
  BY <1>1 DEF Join
<1>3. PICK m : m = [from |-> j, to |-> n, code |-> c, k |-> joins']
  OBVIOUS
<1>4. m.from = j /\ m.to = n /\ m.code = c /\ pairings' = pairings \cup {m}
      /\ UNCHANGED <<peers, codes, minted, pass, answer, admitted>>
  BY <1>3 DEF Join
<1>5. \A x \in pairings' : x.from \in Node /\ x.to \in Node /\ x.from # x.to /\ x.code \in Code
  BY <1>2, <1>4 DEF IInv, Shapes
<1> QED BY <1>2, <1>4, <1>5, JoinStep

(* A refusal, whatever its ground, enrolls nobody and uses no code up.     *)
LEMMA RefusedInv ==
    ASSUME IInv, NEW m \in pairings, PairRefused(m)
    PROVE  IInv'
<1>1. NoJoin.st = "none" /\ m.from \in Node
  BY DEF NoJoin, IInv, Shapes
<1>2. /\ \A x \in pairings' : x.from \in Node /\ x.to \in Node /\ x.from # x.to /\ x.code \in Code
      /\ UNCHANGED <<peers, codes, minted, pass, answer, admitted>>
  BY DEF PairRefused, IInv, Shapes
<1>3. CASE join' = [join EXCEPT ![m.from] = NoJoin]
  BY <1>1, <1>2, <1>3, JoinStep
<1>4. CASE join' = join
  <2>1. Shapes' /\ NotItself' /\ FreshCodes' /\ OneUse'
    BY <1>2, <1>4 DEF IInv, Shapes, NotItself, FreshCodes, OneUse
  <2> QED BY <1>2, <1>4, <2>1, HearsNoMore DEF IInv, Heard
<1> QED BY <1>3, <1>4 DEF PairRefused, Reply

(* The join ends without an answer: nothing was stored at the joiner.      *)
LEMMA FailsInv ==
    ASSUME IInv, NEW j \in Node, JoinFails(j)
    PROVE  IInv'
<1>1. NoJoin.st = "none"
  BY DEF NoJoin
<1>2. /\ join' = [join EXCEPT ![j] = NoJoin]
      /\ UNCHANGED <<peers, codes, minted, pass, answer, admitted, pairings>>
  BY DEF JoinFails
<1> QED BY <1>1, <1>2, JoinStep DEF IInv, Shapes

(* A restart drops the codes and the requests in memory; the lists stay.   *)
LEMMA RestartInv ==
    ASSUME IInv, NEW n \in Node, NEW nm \in 1..2, Restart(n, nm)
    PROVE  IInv'
<1>1. /\ DOMAIN codes' = Node /\ \A p \in Node : codes'[p] \subseteq codes[p]
      /\ DOMAIN join' = Node /\ DOMAIN pass' = Node /\ DOMAIN answer' = Node
      /\ join'[n] = NoJoin /\ pass'[n] = {} /\ answer'[n] = NoAnswer
      /\ \A p \in Node : p # n => join'[p] = join[p] /\ pass'[p] = pass[p] /\ answer'[p] = answer[p]
      /\ UNCHANGED <<peers, minted, pairings, admitted>>
  BY DEF Restart, IInv, Shapes
<1>2. NoJoin.st = "none"
  BY DEF NoJoin
<1>3. Shapes' /\ NotItself'
  BY <1>1, <1>2 DEF IInv, Shapes, NotItself
<1>4. \A p \in Node : Heard(p)' \subseteq Heard(p)
  BY <1>1, <1>2 DEF Heard
<1> QED BY <1>1, <1>3, <1>4, CodesGo, HearsNoMore DEF IInv
-----------------------------------------------------------------------------
(* Pairing.  The code is spent: it is live at one node only and has not    *)
(* been used.                                                              *)
LEMMA PairInv ==
    ASSUME IInv, NEW m \in pairings, HandlePair(m)
    PROVE  IInv'
<1>1. PICK j, n, c : j = m.from /\ n = m.to /\ c = m.code
  OBVIOUS
<1>2. PICK u : u = Upsert(peers[n], j, name[j], TRUE)
  OBVIOUS
<1>3. PICK r : r = [st |-> "paired", to |-> n, name |-> name[n], gossip |-> peers'[n]]
  OBVIOUS
<1>4. /\ j \in Node /\ n \in Node /\ j # n /\ c \in Code /\ c \in codes[n]
      /\ peers' = [peers EXCEPT ![n] = u] /\ codes' = [codes EXCEPT ![n] = @ \ {c}]
      /\ join' \in {[join EXCEPT ![j] = r], join}
      /\ admitted' = [admitted EXCEPT ![c] = @ \cup {<<j, n>>}]
      /\ pairings' \subseteq pairings /\ UNCHANGED <<minted, pass, answer>>
  BY <1>1, <1>2, <1>3 DEF HandlePair, Reply, IInv, Shapes
<1>5. /\ DOMAIN peers' = Node /\ peers'[n] = u /\ DOMAIN u = DOMAIN peers[n] \cup {j}
      /\ \A p \in Node : p # n => peers'[p] = peers[p]
      /\ DOMAIN join' = Node /\ \A p \in Node : p # j => join'[p] = join[p]
      /\ join'[j] \in {r, join[j]}
      /\ r.st = "paired" /\ r.to = n /\ r.gossip = u
  <2>1. peers'[n] = u /\ DOMAIN peers' = Node /\ \A p \in Node : p # n => peers'[p] = peers[p]
    BY <1>4 DEF IInv, Shapes
  <2>2. DOMAIN u = DOMAIN peers[n] \cup {j}
    BY <1>2, Upserted, Zenon
  <2>3. DOMAIN join' = Node /\ (\A p \in Node : p # j => join'[p] = join[p]) /\ join'[j] \in {r, join[j]}
    BY <1>4 DEF IInv, Shapes
  <2>4. r.st = "paired" /\ r.to = n /\ r.gossip = u
    BY <1>3, <2>1
  <2> QED BY <2>1, <2>2, <2>3, <2>4
<1>6. /\ DOMAIN codes' = Node /\ codes'[n] = codes[n] \ {c}
      /\ \A p \in Node : p # n => codes'[p] = codes[p]
      /\ DOMAIN admitted' = Code /\ admitted[c] = {} /\ admitted'[c] = {<<j, n>>}
      /\ \A d \in Code : d # c => admitted'[d] = admitted[d]
  BY <1>4 DEF IInv, Shapes, FreshCodes
<1>7. Shapes'
  BY <1>4, <1>5, <1>6 DEF IInv, Shapes
<1>8. FreshCodes'
  <2>1. \A p \in Node : c \notin codes'[p]
    BY <1>4, <1>6 DEF IInv, FreshCodes
  <2>2. \A p \in Node : \A d \in codes'[p] : d \in Code /\ d <= minted /\ admitted'[d] = {}
    BY <1>6, <2>1 DEF IInv, FreshCodes
  <2>3. \A p, q \in Node : p # q => codes'[p] \cap codes'[q] = {}
    BY <1>6 DEF IInv, FreshCodes
  <2>4. \A d \in Code : d > minted => admitted'[d] = {}
    <3>1. c <= minted /\ minted \in Nat /\ c \in Nat
      BY <1>4 DEF IInv, FreshCodes, Shapes, Code
    <3>2. ~(c > minted)
      BY <3>1
    <3> QED BY <1>6, <3>2 DEF IInv, FreshCodes
  <2> QED BY <1>4, <2>2, <2>3, <2>4 DEF FreshCodes
<1>9. OneUse'
  BY <1>6 DEF IInv, OneUse
<1>10. NotItself'
  BY <1>4, <1>5 DEF IInv, NotItself
<1>11. Acquainted'
  <2> SUFFICES ASSUME NEW S \in SUBSET Node, Closed(S)', NEW p \in S PROVE Heard(p)' \subseteq S
    BY DEF Acquainted
  <2>1. <<j, n>> \in Pairs' /\ Pairs \subseteq Pairs'
    BY <1>4, <1>6 DEF Pairs
  <2>2. Closed(S) /\ (j \in S <=> n \in S)
    BY <2>1 DEF Closed
  <2>3. \A q \in S : Heard(q) \subseteq S
    BY <2>2 DEF IInv, Acquainted
  <2>4. j \in S => DOMAIN u \subseteq S /\ n \in S
    BY <1>5, <2>2, <2>3 DEF Heard
  <2>5. p \in Node /\ DOMAIN peers'[p] \subseteq S
    BY <1>5, <2>2, <2>3, <2>4 DEF Heard
  <2>6. join'[p].st = "paired" => join'[p].to \in S /\ DOMAIN join'[p].gossip \subseteq S
    BY <1>5, <2>3, <2>4, <2>5 DEF Heard
  <2>7. /\ \A e \in pass'[p] : e.id \in S
        /\ answer'[p] # NoAnswer => answer'[p].from \in S /\ DOMAIN answer'[p].gossip \subseteq S
    BY <1>4, <2>3 DEF Heard
  <2> QED BY <2>5, <2>6, <2>7 DEF Heard
<1> QED BY <1>7, <1>8, <1>9, <1>10, <1>11 DEF IInv

(* A step that may change the peer lists, and what is heard only by less.  *)
LEMMA PeersStep ==
    ASSUME IInv, DOMAIN peers' = Node, DOMAIN join' = Node, DOMAIN pass' = Node, DOMAIN answer' = Node,
           \A n \in Node : Heard(n)' \subseteq Heard(n), NotItself', pairings' \subseteq pairings,
           UNCHANGED <<codes, minted, admitted>>
    PROVE  IInv'
<1>1. Shapes' /\ FreshCodes' /\ OneUse'
  BY DEF IInv, Shapes, FreshCodes, OneUse
<1> QED BY <1>1, HearsNoMore DEF IInv

(* The joiner adopts the list it was sent; it leads back to pairings.      *)
LEMMA DoneInv ==
    ASSUME IInv, NEW j \in Node, JoinDone(j)
    PROVE  IInv'
<1>0. PICK l : l = Upsert(peers[j], join[j].to, join[j].name, TRUE)
  OBVIOUS
<1>1. PICK u : u = AdoptAll(j, l, join[j].gossip)
  OBVIOUS
<1>2. DOMAIN u = DOMAIN peers[j] \cup {join[j].to} \cup (DOMAIN join[j].gossip \ {j})
  <2>1. DOMAIN l = DOMAIN peers[j] \cup {join[j].to}
    BY <1>0, Upserted, Zenon
  <2>2. DOMAIN u = DOMAIN l \cup (DOMAIN join[j].gossip \ {j})
    BY <1>1, Gossiped, Zenon
  <2> QED BY <2>1, <2>2
<1>3. /\ join[j].st = "paired" /\ peers' = [peers EXCEPT ![j] = u] /\ join' = [join EXCEPT ![j] = NoJoin]
      /\ UNCHANGED <<codes, minted, admitted, pairings, pass, answer>>
  BY <1>0, <1>1 DEF JoinDone, IInv, Shapes
<1>4. /\ DOMAIN peers' = Node /\ peers'[j] = u /\ \A p \in Node : p # j => peers'[p] = peers[p]
      /\ DOMAIN join' = Node /\ join'[j] = NoJoin /\ \A p \in Node : p # j => join'[p] = join[p]
      /\ NoJoin.st = "none"
  BY <1>3 DEF IInv, Shapes, NoJoin
<1>5. NotItself'
  BY <1>2, <1>3, <1>4 DEF IInv, NotItself
<1>6. \A n \in Node : Heard(n)' \subseteq Heard(n)
  BY <1>2, <1>3, <1>4 DEF Heard
<1> QED BY <1>3, <1>4, <1>5, <1>6, PeersStep DEF IInv, Shapes
-----------------------------------------------------------------------------
(* Leaving.                                                                *)
LEMMA LeaveInv ==
    ASSUME IInv, NEW n \in Node, NEW p \in Node, Leave(n, p) \/ LeaveDone(n, p)
    PROVE  IInv'
<1> DEFINE Fewer == /\ DOMAIN peers' = Node /\ \A q \in Node : DOMAIN peers'[q] \subseteq DOMAIN peers[q]
                    /\ UNCHANGED <<codes, minted, admitted, pairings, join, pass, answer>>
<1>1. Fewer
  <2>1. CASE peers' = peers
    BY <2>1 DEF Leave, LeaveDone, IInv, Shapes
  <2>2. ASSUME NEW q \in Node, NEW w, peers' = [peers EXCEPT ![q] = Without(@, w)] PROVE Fewer
    <3>1. PICK l : l = Without(peers[q], w)
      OBVIOUS
    <3>2. DOMAIN l \subseteq DOMAIN peers[q]
      <4>1. DOMAIN l = DOMAIN peers[q] \ {w}
        BY <3>1, Removed, Zenon
      <4> QED BY <4>1
    <3>3. peers' = [peers EXCEPT ![q] = l]
      BY <2>2, <3>1
    <3>4. UNCHANGED <<codes, minted, admitted, pairings, join, pass, answer>>
      BY DEF Leave, LeaveDone
    <3> QED BY <3>2, <3>3, <3>4 DEF IInv, Shapes
  <2> QED BY <2>1, <2>2 DEF Leave, LeaveDone
<1>2. NotItself' /\ \A q \in Node : Heard(q)' \subseteq Heard(q)
  BY <1>1 DEF IInv, NotItself, Heard
<1> QED BY <1>1, <1>2, PeersStep DEF IInv, Shapes
-----------------------------------------------------------------------------
(* Gossip.                                                                 *)
LEMMA PassInv ==
    ASSUME IInv, NEW n \in Node, StartPass(n)
    PROVE  IInv'
<1>1. PICK s : s = {[id |-> p, name |-> peers[n][p].name, addr |-> peers[n][p].addr] : p \in DOMAIN peers[n]}
  OBVIOUS
<1>2. \A e \in s : e.id \in DOMAIN peers[n]
  BY <1>1
<1>3. /\ DOMAIN pass' = Node /\ pass'[n] = s /\ \A p \in Node : p # n => pass'[p] = pass[p]
      /\ UNCHANGED <<peers, codes, minted, admitted, pairings, join, answer>>
  BY <1>1 DEF StartPass, IInv, Shapes
<1>4. NotItself' /\ \A q \in Node : Heard(q)' \subseteq Heard(q)
  BY <1>2, <1>3 DEF IInv, NotItself, Heard
<1> QED BY <1>3, <1>4, PeersStep DEF IInv, Shapes

(* The one who is asked is known, and so is everyone it knows, to any set  *)
(* of nodes that no pairing leaves.                                        *)
LEMMA AskInv ==
    ASSUME IInv, NEW n \in Node, NEW e \in pass[n], Ask(n, e)
    PROVE  IInv'
<1>1. PICK a : a = [from |-> e.id, old |-> e.name, name |-> name[e.id], gossip |-> peers[e.id]]
  OBVIOUS
<1>2. a.from = e.id /\ a.gossip = peers[e.id]
  BY <1>1
<1>3. /\ DOMAIN pass' = Node /\ DOMAIN answer' = Node
      /\ \A p \in Node : pass'[p] \subseteq pass[p] /\ (p # n => answer'[p] = answer[p])
      /\ answer'[n] \in {a, answer[n]}
      /\ UNCHANGED <<peers, codes, minted, admitted, pairings, join>>
  BY <1>1 DEF Ask, IInv, Shapes
<1>4. Shapes' /\ FreshCodes' /\ OneUse'
  BY <1>3 DEF IInv, Shapes, FreshCodes, OneUse
<1>5. NotItself'
  BY <1>2, <1>3 DEF IInv, NotItself
<1>6. Acquainted'
  <2> SUFFICES ASSUME NEW S \in SUBSET Node, Closed(S)', NEW p \in S PROVE Heard(p)' \subseteq S
    BY DEF Acquainted
  <2>1. \A q \in S : Heard(q) \subseteq S
    BY <1>3 DEF IInv, Acquainted, Closed, Pairs
  <2>2. n \in S => e.id \in S /\ DOMAIN peers[e.id] \subseteq S
    BY <2>1 DEF Heard
  <2>3. answer'[p] # NoAnswer => answer'[p].from \in S /\ DOMAIN answer'[p].gossip \subseteq S
    BY <1>2, <1>3, <2>1, <2>2 DEF Heard
  <2>4. /\ DOMAIN peers'[p] \subseteq S /\ \A f \in pass'[p] : f.id \in S
        /\ join'[p].st = "paired" => join'[p].to \in S /\ DOMAIN join'[p].gossip \subseteq S
    BY <1>3, <2>1 DEF Heard
  <2> QED BY <2>3, <2>4 DEF Heard
<1> QED BY <1>4, <1>5, <1>6 DEF IInv

(* The answer is merged: it names only whom the asked one knew.            *)
LEMMA AnswerInv ==
    ASSUME IInv, NEW n \in Node, UseAnswer(n)
    PROVE  IInv'
<1>1. PICK a : a = answer[n]
  OBVIOUS
<1>2. PICK l : l = IF a.name # a.old THEN Upsert(peers[n], a.from, a.name, FALSE) ELSE peers[n]
  OBVIOUS
<1>3. PICK u : u = Adopted(n, l, a.gossip)
  OBVIOUS
<1>4. /\ a # NoAnswer /\ peers' = [peers EXCEPT ![n] = u] /\ answer' = [answer EXCEPT ![n] = NoAnswer]
      /\ UNCHANGED <<codes, minted, admitted, pairings, join, pass>>
  BY <1>1, <1>2, <1>3 DEF UseAnswer
<1>5. DOMAIN u \subseteq DOMAIN peers[n] \cup {a.from} \cup (DOMAIN a.gossip \ {n})
  <2>1. DOMAIN l \subseteq DOMAIN peers[n] \cup {a.from}
    <3>1. DOMAIN Upsert(peers[n], a.from, a.name, FALSE) = DOMAIN peers[n] \cup {a.from}
      BY Upserted, Zenon
    <3> QED BY <1>2, <3>1
  <2>2. DOMAIN u = DOMAIN l \cup (DOMAIN a.gossip \ {n})
    BY <1>3, Gossiped, Zenon
  <2> QED BY <2>1, <2>2
<1>6. /\ DOMAIN peers' = Node /\ peers'[n] = u /\ \A p \in Node : p # n => peers'[p] = peers[p]
      /\ DOMAIN answer' = Node /\ answer'[n] = NoAnswer /\ \A p \in Node : p # n => answer'[p] = answer[p]
  BY <1>4 DEF IInv, Shapes
<1>7. NotItself'
  BY <1>1, <1>4, <1>5, <1>6 DEF IInv, NotItself
<1>8. \A q \in Node : Heard(q)' \subseteq Heard(q)
  BY <1>1, <1>4, <1>5, <1>6 DEF Heard
<1> QED BY <1>4, <1>6, <1>7, <1>8, PeersStep DEF IInv, Shapes
-----------------------------------------------------------------------------
(* The invariant holds at the start ...                                    *)
LEMMA InitInv == Init => IInv
<1> SUFFICES ASSUME Init PROVE IInv
  OBVIOUS
<1>1. /\ DOMAIN peers = Node /\ \A n \in Node : DOMAIN peers[n] = IF n \in Mesh THEN Mesh \ {n} ELSE {}
      /\ DOMAIN codes = Node /\ \A n \in Node : codes[n] = {}
      /\ DOMAIN join = Node /\ \A n \in Node : join[n].st = "none"
      /\ DOMAIN pass = Node /\ \A n \in Node : pass[n] = {}
      /\ DOMAIN answer = Node /\ \A n \in Node : answer[n] = NoAnswer
      /\ DOMAIN admitted = Code /\ \A c \in Code : admitted[c] = {}
      /\ minted = 0 /\ pairings = {}
  BY DEF Init, NoJoin
<1>2. Shapes /\ FreshCodes /\ OneUse /\ NotItself
  <2>1. 0 \in 0..MaxCodes
    BY MeshAssumption
  <2>2. Shapes /\ FreshCodes /\ OneUse
    BY <1>1, <2>1 DEF Shapes, FreshCodes, OneUse
  <2> QED BY <1>1, <2>2 DEF NotItself
<1>3. Acquainted
  BY <1>1 DEF Acquainted, Closed, Heard
<1> QED BY <1>2, <1>3 DEF IInv

(* ... and every step keeps it.                                            *)
LEMMA NextInv == IInv /\ [Next]_vars => IInv'
<1> SUFFICES ASSUME IInv, [Next]_vars PROVE IInv'
  OBVIOUS
<1>1. ASSUME NEW n \in Node, MintCode(n) \/ Loop(n) \/ JoinDone(n) \/ JoinFails(n) PROVE IInv'
  BY <1>1, MintInv, PassInv, AskInv, AnswerInv, DoneInv, FailsInv DEF Loop
<1>2. ASSUME NEW n \in Node, NEW c \in Code, CodeExpires(n, c) PROVE IInv'
  BY <1>2, ExpiresInv
<1>3. ASSUME NEW j \in Node, NEW n \in Node, NEW c \in Code, Join(j, n, c) PROVE IInv'
  BY <1>3, JoinInv
<1>4. ASSUME NEW m \in pairings, HandlePair(m) \/ PairRefused(m) PROVE IInv'
  BY <1>4, PairInv, RefusedInv
<1>5. ASSUME NEW n \in Node, NEW p \in Node, Leave(n, p) \/ LeaveDone(n, p) PROVE IInv'
  BY <1>5, LeaveInv
<1>6. ASSUME NEW n \in Node, NEW nm \in 1..2, Restart(n, nm) PROVE IInv'
  BY <1>6, RestartInv
<1>7. CASE UNCHANGED vars
  <2>1. UNCHANGED <<peers, codes, minted, join, pairings, pass, answer, admitted>>
    BY <1>7 DEF vars
  <2>2. \A n \in Node : Heard(n)' \subseteq Heard(n)
    BY <2>1 DEF Heard
  <2>3. NotItself'
    BY <2>1 DEF IInv, NotItself
  <2> QED BY <2>1, <2>2, <2>3, PeersStep DEF IInv, Shapes
<1> QED BY <1>1, <1>2, <1>3, <1>4, <1>5, <1>6, <1>7 DEF Next

(* The inductive invariant holds in every state.                           *)
THEOREM Inductive == Spec => []IInv
BY InitInv, NextInv, PTL DEF Spec

(* A join code enrolls one node at most, however often it is presented     *)
(* (checkCode, "single use").                                              *)
THEOREM CodesAreSingleUse == Spec => []OneNodePerCode
<1>1. IInv => OneNodePerCode
  <2> SUFFICES ASSUME IInv, NEW c \in Code PROVE Cardinality(admitted[c]) <= 1
    BY DEF OneNodePerCode
  <2>1. CASE admitted[c] = {}
    BY <2>1, FS_EmptySet
  <2>2. CASE \E x : x \in admitted[c]
    <3>1. PICK x : x \in admitted[c]
      BY <2>2
    <3>2. admitted[c] = {x}
      BY <3>1 DEF IInv, OneUse
    <3> QED BY <3>2, FS_Singleton
  <2> QED BY <2>1, <2>2
<1> QED BY <1>1, Inductive, PTL

(* Nobody becomes a peer but by pairings.                                  *)
THEOREM PeersArePaired == Spec => []NoStrangers
<1>1. IInv => NoStrangers
  BY DEF IInv, Acquainted, NoStrangers, Heard
<1> QED BY <1>1, Inductive, PTL

(* A node is never its own peer.                                           *)
THEOREM NeverOwnPeer == Spec => []NoSelfPeer
<1>1. IInv => NoSelfPeer
  BY DEF IInv, NotItself, NoSelfPeer, Knows
<1> QED BY <1>1, Inductive, PTL
=============================================================================
