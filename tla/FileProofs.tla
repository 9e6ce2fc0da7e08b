----------------------------- MODULE FileProofs -----------------------------
(***************************************************************************)
(* Proofs about FileParts: the tokens of a connector, the configuration    *)
(* and its reload, the receipts' anchors, the hook's entry in a settings   *)
(* file. Each is an instance whose variables have names of their own.      *)
(*                                                                         *)
(* A token can be renewed because who has the mutex is alone between the   *)
(* provider's answer and the file. A run finds what the check found as its *)
(* snapshots are of a checked pair, unless the directory changed between   *)
(* two reads. A verified anchor tells the truth because links of different *)
(* histories differ from the first receipt in which they do. An install    *)
(* changes draftcat's entry and nothing else because every operator on the *)
(* list is one walk, which joins as its sequences do (Gather); that it is  *)
(* a fold is shown by the sizes of its sequences (Sizes, Longer).          *)
(***************************************************************************)
EXTENDS FileParts, Integers, FiniteSets, FiniteSetTheorems, SequenceTheorems, WellFoundedInduction, TLAPS

\* What holds of each size whose predecessors it holds of holds of every size.
LEMMA Sizes ==
    ASSUME NEW T, T \subseteq Nat,
           \A n \in Nat : (\A m \in Nat : m < n => m \notin T) => n \notin T
    PROVE  T = {}
  <1>1. SUFFICES ASSUME T # {} PROVE FALSE
    OBVIOUS
  <1>2. PICK n \in T : \A m \in T : ~(<<m, n>> \in OpToRel(<, Nat))
    BY <1>1, NatLessThanWellFounded, WFMin, Zenon
  <1>3. \A m \in Nat : m < n => m \notin T
    BY <1>2 DEF OpToRel
  <1> QED
    BY <1>2, <1>3
-----------------------------------------------------------------------------
Places == {"idle", "wants", "asks", "exchanges", "answered", "marshals", "writes"}

TokensTyped ==
    /\ vendor \in {"ghl", "gmail"} /\ connected \in BOOLEAN /\ slipped \in BOOLEAN
    /\ hand \in [TokenCallers -> [pc : Places, refresh : Nat, access : Nat, grant : Nat]]
    /\ good \subseteq Nat /\ {issued, refresh, stored} \subseteq Nat

\* GoHighLevel: who has a renewal under way has the mutex, and the token that
\* came is good; so is the one in memory once it was taken.
OneRenews ==
    vendor = "ghl" => \A c \in TokenCallers :
        /\ hand[c].pc \in {"asks", "exchanges", "answered", "marshals", "writes"} => mu = c
        /\ hand[c].pc \notin {"exchanges", "marshals"}
        /\ hand[c].pc = "answered" => hand[c].refresh \in good
        /\ hand[c].pc = "writes" => hand[c].refresh \in good /\ refresh \in good

\* Google: no token goes bad, and only good ones, or none, come.
AllStayGood ==
    vendor = "gmail" =>
        /\ connected => refresh \in good
        /\ \A c \in TokenCallers :
              /\ hand[c].pc \in {"asks", "writes"} => hand[c].refresh \in good
              /\ hand[c].pc = "answered" => hand[c].refresh \in good \cup {Renewal!Empty}

TokenInv ==
    /\ TokensTyped /\ OneRenews /\ AllStayGood /\ Renewal!CanRenew
    /\ \A c \in TokenCallers : hand[c].pc # "idle" => connected

\* One caller's hand changes.
LEMMA OneHandMoves ==
    ASSUME TokensTyped, NEW c \in TokenCallers, NEW h, Renewal!Becomes(c, h),
           h \in [pc : Places, refresh : Nat, access : Nat, grant : Nat]
    PROVE  /\ hand' \in [TokenCallers -> [pc : Places, refresh : Nat, access : Nat, grant : Nat]]
           /\ hand'[c] = h /\ \A d \in TokenCallers : d # c => hand'[d] = hand[d]
  BY DEF TokensTyped, Renewal!Becomes

\* A hand is a record of a place and three tokens.
LEMMA HandIs ==
    ASSUME NEW pc \in Places, NEW r \in Nat, NEW a \in Nat, NEW g \in Nat
    PROVE  /\ Renewal!Hand(pc, r, a, g) \in [pc : Places, refresh : Nat, access : Nat, grant : Nat]
           /\ Renewal!Hand(pc, r, a, g).pc = pc /\ Renewal!Hand(pc, r, a, g).refresh = r
           /\ Renewal!Hand(pc, r, a, g).access = a /\ Renewal!Hand(pc, r, a, g).grant = g
  BY DEF Renewal!Hand

\* Nobody renews while nobody has the mutex.
LEMMA NoneBetween ==
    ASSUME Renewal!ConnectorsAssumption, TokenInv, vendor = "ghl", mu = Renewal!Nobody
    PROVE  /\ ~Renewal!Between
           /\ \A c \in TokenCallers : hand[c].pc \in {"idle", "wants"}
<1>1. \A c \in TokenCallers : mu # c
  BY DEF Renewal!ConnectorsAssumption
<1>2. \A c \in TokenCallers : hand[c].pc \in {"idle", "wants"}
  BY <1>1 DEF TokenInv, OneRenews, TokensTyped, Places
<1> QED BY <1>2 DEF Renewal!Between

\* Who renews is alone.
LEMMA OthersWait ==
    ASSUME TokenInv, vendor = "ghl", NEW c \in TokenCallers, hand[c].pc \notin {"idle", "wants"}
    PROVE  /\ mu = c
           /\ \A d \in TokenCallers : d # c => hand[d].pc \in {"idle", "wants"}
<1>1. \A d \in TokenCallers : hand[d].pc \in {"idle", "wants"} \/ mu = d
  BY DEF TokenInv, OneRenews, TokensTyped, Places
<1> QED BY <1>1

\* The callers of the connector and what their hands hold.
LEMMA HandsAre ==
    ASSUME TokenInv, NEW c \in TokenCallers
    PROVE  /\ hand[c] \in [pc : Places, refresh : Nat, access : Nat, grant : Nat]
           /\ hand[c].pc \in Places /\ hand[c].refresh \in Nat /\ hand[c].access \in Nat
           /\ hand[c].grant \in Nat
  BY DEF TokenInv, TokensTyped

\* An idle hand.
LEMMA IdleHand ==
    /\ Renewal!Idle \in [pc : Places, refresh : Nat, access : Nat, grant : Nat]
    /\ Renewal!Idle.pc = "idle"
  BY HandIs DEF Renewal!Idle, Renewal!Empty, Places

\* At the first boot everyone has the first token.
LEMMA TokenInit == ASSUME Renewal!ConnectorsAssumption, Renewal!Init PROVE TokenInv
<1>1. \A c \in TokenCallers : hand[c] = Renewal!Idle
  BY DEF Renewal!Init
<1>2. hand = [c \in TokenCallers |-> Renewal!Idle] /\ connected = TRUE /\ good = {1} /\ refresh = 1 /\ stored = 1
      /\ issued = 1 /\ slipped = FALSE /\ vendor \in {"ghl", "gmail"}
  BY DEF Renewal!Init, Renewal!First
<1>3. TokensTyped
  <2>1. hand \in [TokenCallers -> [pc : Places, refresh : Nat, access : Nat, grant : Nat]]
    BY <1>2, IdleHand
  <2>2. good \subseteq Nat /\ {issued, refresh, stored} \subseteq Nat
    BY <1>2
  <2> QED BY <1>2, <2>1, <2>2, Zenon DEF TokensTyped
<1>4. OneRenews /\ AllStayGood
  BY <1>1, <1>2, IdleHand DEF OneRenews, AllStayGood
<1>5. Renewal!CanRenew
  BY <1>1, <1>2, IdleHand DEF Renewal!CanRenew, Renewal!At
<1> QED BY <1>1, <1>2, <1>3, <1>4, <1>5, IdleHand DEF TokenInv

\* A step that changes one hand: what has to be seen of the others.
LEMMA HandStep ==
    ASSUME TokenInv, NEW c \in TokenCallers, NEW h, Renewal!Becomes(c, h),
           h \in [pc : Places, refresh : Nat, access : Nat, grant : Nat],
           vendor' = vendor, connected' = connected, slipped' \in BOOLEAN,
           good' \subseteq Nat, {issued', refresh', stored'} \subseteq Nat,
           h.pc # "idle" => connected
    PROVE  /\ TokensTyped' /\ \A d \in TokenCallers : hand'[d].pc # "idle" => connected'
           /\ hand'[c] = h /\ \A d \in TokenCallers : d # c => hand'[d] = hand[d]
<1>1. TokensTyped
  BY DEF TokenInv
<1>2. /\ hand' \in [TokenCallers -> [pc : Places, refresh : Nat, access : Nat, grant : Nat]]
      /\ hand'[c] = h /\ \A d \in TokenCallers : d # c => hand'[d] = hand[d]
  BY <1>1, OneHandMoves
<1>3. TokensTyped'
  BY <1>1, <1>2 DEF TokensTyped
<1>4. \A d \in TokenCallers : hand[d].pc # "idle" => connected
  BY DEF TokenInv
<1> QED BY <1>2, <1>3, <1>4

\* The hands that a step of one caller leaves alone, under the mutex.
LEMMA AloneStep ==
    ASSUME TokenInv, vendor = "ghl", NEW c \in TokenCallers,
           hand[c].pc \notin {"idle", "wants"},
           vendor' = vendor,
           \A d \in TokenCallers : d # c => hand'[d] = hand[d],
           hand'[c].pc \notin {"exchanges", "marshals"},
           hand'[c].pc = "idle" \/ mu' = c,
           hand'[c].pc = "answered" => hand'[c].refresh \in good',
           hand'[c].pc = "writes" => hand'[c].refresh \in good' /\ refresh' \in good'
    PROVE  OneRenews' /\ AllStayGood'
<1>1. \A d \in TokenCallers : d # c => hand'[d].pc \in {"idle", "wants"}
  BY OthersWait
<1>2. OneRenews'
  BY <1>1 DEF OneRenews
<1>3. AllStayGood'
  BY DEF AllStayGood
<1> QED BY <1>2, <1>3

\* Google's tokens: what a caller's step has to keep.
LEMMA GoodStep ==
    ASSUME TokenInv, vendor = "gmail", NEW c \in TokenCallers,
           vendor' = vendor, connected' = connected, good \subseteq good',
           \A d \in TokenCallers : d # c => hand'[d] = hand[d],
           connected => refresh' \in good',
           hand'[c].pc \in {"asks", "writes"} => hand'[c].refresh \in good',
           hand'[c].pc = "answered" => hand'[c].refresh \in good' \cup {Renewal!Empty}
    PROVE  OneRenews' /\ AllStayGood'
<1>1. OneRenews'
  BY DEF OneRenews
<1>2. AllStayGood
  BY DEF TokenInv
<1>3. \A d \in TokenCallers :
          /\ hand'[d].pc \in {"asks", "writes"} => hand'[d].refresh \in good'
          /\ hand'[d].pc = "answered" => hand'[d].refresh \in good' \cup {Renewal!Empty}
  <2> SUFFICES ASSUME NEW d \in TokenCallers
               PROVE  /\ hand'[d].pc \in {"asks", "writes"} => hand'[d].refresh \in good'
                      /\ hand'[d].pc = "answered" => hand'[d].refresh \in good' \cup {Renewal!Empty}
    OBVIOUS
  <2>1. CASE d = c
    BY <2>1
  <2>2. CASE d # c
    <3>1. hand'[d] = hand[d]
      BY <2>2
    <3> QED BY <3>1, <1>2 DEF AllStayGood
  <2> QED BY <2>1, <2>2
<1>4. AllStayGood'
  BY <1>3 DEF AllStayGood, Renewal!Empty
<1> QED BY <1>1, <1>4

\* The connector comes up with the stored token.
LEMMA BootStep == ASSUME TokenInv, Renewal!Boot PROVE TokenInv'
<1>1. hand' = hand /\ connected' = TRUE /\ refresh' = stored /\ vendor' = vendor /\ mu' = mu /\ good' = good
      /\ stored' = stored /\ issued' = issued /\ slipped' = slipped
      /\ (vendor = "gmail" => stored \in good) /\ ~connected
  BY DEF Renewal!Boot
<1>2. \A c \in TokenCallers : hand[c].pc = "idle"
  BY <1>1 DEF TokenInv
<1>3. TokensTyped'
  BY <1>1 DEF TokenInv, TokensTyped
<1>4. OneRenews' /\ AllStayGood'
  BY <1>1, <1>2 DEF OneRenews, AllStayGood
<1>5. Renewal!CanRenew'
  BY <1>1, <1>2 DEF TokenInv, Renewal!CanRenew, Renewal!At, Renewal!Between
<1> QED BY <1>1, <1>3, <1>4, <1>5 DEF TokenInv

\* The access token's hour is over.
LEMMA ExpireStep == ASSUME TokenInv, Renewal!Expire PROVE TokenInv'
<1>1. UNCHANGED <<hand, connected, refresh, vendor, mu, good, stored, issued, slipped>>
  BY DEF Renewal!Expire
<1> QED BY <1>1 DEF TokenInv, TokensTyped, OneRenews, AllStayGood, Renewal!CanRenew, Renewal!At, Renewal!Between

\* A hand that renews nothing and has nothing of a renewal.
LEMMA QuietHand ==
    ASSUME TokenInv, NEW c \in TokenCallers, hand[c].pc \in {"idle", "wants"},
           hand'[c].pc \in {"idle", "wants", "exchanges"},
           \A d \in TokenCallers : d # c => hand'[d] = hand[d],
           UNCHANGED <<vendor, connected, refresh, good, stored, slipped>>
    PROVE  Renewal!CanRenew'
<1>1. Renewal!CanRenew
  BY DEF TokenInv
<1>2. Renewal!Between' => Renewal!Between
  BY DEF Renewal!Between
<1>3. Renewal!Between => Renewal!Between'
  BY DEF Renewal!Between
<1> QED BY <1>1, <1>2, <1>3 DEF Renewal!CanRenew, Renewal!At

\* A run or a command asks for a token.
LEMMA RequestStep ==
    ASSUME Renewal!ConnectorsAssumption, TokenInv, NEW c \in TokenCallers, Renewal!Request(c)
    PROVE  TokenInv'
<1> DEFINE h == Renewal!Hand("wants", 0, 0, 0)
<1>1. /\ connected /\ hand[c].pc = "idle" /\ Renewal!Becomes(c, h)
      /\ UNCHANGED <<vendor, connected, refresh, mu, good, stored, issued, slipped>>
  BY DEF Renewal!Request, Renewal!At, Renewal!Empty
<1>2. h \in [pc : Places, refresh : Nat, access : Nat, grant : Nat] /\ h.pc = "wants"
  BY HandIs DEF Places
<1> HIDE DEF h
<1>3. slipped' \in BOOLEAN /\ good' \subseteq Nat /\ {issued', refresh', stored'} \subseteq Nat
  BY <1>1 DEF TokenInv, TokensTyped
<1>4. /\ TokensTyped' /\ \A d \in TokenCallers : hand'[d].pc # "idle" => connected'
      /\ hand'[c] = h /\ \A d \in TokenCallers : d # c => hand'[d] = hand[d]
  BY <1>1, <1>2, <1>3, HandStep
<1>5. Renewal!CanRenew'
  BY <1>1, <1>2, <1>4, QuietHand
<1>6. OneRenews' /\ AllStayGood'
  <2>1. OneRenews /\ AllStayGood
    BY DEF TokenInv
  <2>2. OneRenews'
    BY <1>1, <1>2, <1>4, <2>1 DEF OneRenews
  <2>3. AllStayGood'
    BY <1>1, <1>2, <1>4, <2>1 DEF AllStayGood
  <2> QED BY <2>2, <2>3
<1> QED BY <1>4, <1>5, <1>6 DEF TokenInv

\* The operator's consent is exchanged: Google's alone.
LEMMA AuthCodeStep ==
    ASSUME Renewal!ConnectorsAssumption, TokenInv, Renewal!AuthCode
    PROVE  TokenInv'
<1> DEFINE h == Renewal!Hand("exchanges", 0, 0, 0)
<1>1. /\ connected /\ hand[MainCaller].pc = "idle" /\ Renewal!Becomes(MainCaller, h) /\ vendor = "gmail"
      /\ UNCHANGED <<vendor, connected, refresh, mu, good, stored, issued, slipped>>
  BY DEF Renewal!AuthCode, Renewal!At, Renewal!Empty
<1>0. MainCaller \in TokenCallers
  BY DEF Renewal!ConnectorsAssumption
<1>2. h \in [pc : Places, refresh : Nat, access : Nat, grant : Nat] /\ h.pc = "exchanges"
  BY HandIs DEF Places
<1> HIDE DEF h
<1>3. slipped' \in BOOLEAN /\ good' \subseteq Nat /\ {issued', refresh', stored'} \subseteq Nat
  BY <1>1 DEF TokenInv, TokensTyped
<1>4. /\ TokensTyped' /\ \A d \in TokenCallers : hand'[d].pc # "idle" => connected'
      /\ hand'[MainCaller] = h /\ \A d \in TokenCallers : d # MainCaller => hand'[d] = hand[d]
  BY <1>0, <1>1, <1>2, <1>3, HandStep
<1>5. Renewal!CanRenew'
  BY <1>0, <1>1, <1>2, <1>4, QuietHand
<1>6. connected => refresh' \in good'
  BY <1>1 DEF TokenInv, AllStayGood
<1>7. OneRenews' /\ AllStayGood'
  BY <1>0, <1>1, <1>2, <1>4, <1>6, GoodStep
<1> QED BY <1>4, <1>5, <1>7 DEF TokenInv

\* A caller looks at the token: a fresh one will do, else it asks with the one in memory.
LEMMA EnsureStep ==
    ASSUME Renewal!ConnectorsAssumption, TokenInv, NEW c \in TokenCallers, Renewal!EnsureToken(c)
    PROVE  TokenInv'
<1>1. /\ hand[c].pc = "wants" /\ (vendor = "ghl" => mu = Renewal!Nobody)
      /\ UNCHANGED <<vendor, connected, refresh, good, stored, issued, slipped>>
  BY DEF Renewal!EnsureToken, Renewal!At, Renewal!MayLook
<1>2. connected /\ refresh \in Nat
  BY <1>1 DEF TokenInv, TokensTyped
<1>3. slipped' \in BOOLEAN /\ good' \subseteq Nat /\ {issued', refresh', stored'} \subseteq Nat
  BY <1>1 DEF TokenInv, TokensTyped
<1>4. vendor \in {"ghl", "gmail"} /\ (vendor = "gmail" => refresh \in good)
  BY <1>2 DEF TokenInv, TokensTyped, AllStayGood
<1>5. ASSUME Renewal!Ends(c)
      PROVE  TokenInv'
  <2>1. Renewal!Becomes(c, Renewal!Idle)
    BY <1>5 DEF Renewal!Ends
  <2>2. /\ TokensTyped' /\ \A d \in TokenCallers : hand'[d].pc # "idle" => connected'
        /\ hand'[c] = Renewal!Idle /\ \A d \in TokenCallers : d # c => hand'[d] = hand[d]
    BY <1>1, <1>3, <2>1, IdleHand, HandStep
  <2>3. Renewal!CanRenew'
    BY <1>1, <2>2, IdleHand, QuietHand
  <2>4. OneRenews'
    <3> SUFFICES ASSUME vendor = "ghl"
                 PROVE  OneRenews'
      BY <1>1 DEF OneRenews
    <3>1. \A d \in TokenCallers : hand[d].pc \in {"idle", "wants"}
      BY <1>1, NoneBetween
    <3>2. \A d \in TokenCallers : hand'[d].pc \in {"idle", "wants"}
      BY <2>2, <3>1, IdleHand
    <3> QED BY <3>2 DEF OneRenews
  <2>5. AllStayGood'
    BY <1>1, <2>2, IdleHand DEF TokenInv, AllStayGood
  <2> QED BY <2>2, <2>3, <2>4, <2>5 DEF TokenInv
<1>6. ASSUME Renewal!Becomes(c, Renewal!Hand("asks", refresh, 0, 0)),
             mu' = IF vendor = "ghl" THEN c ELSE mu
      PROVE  TokenInv'
  <2> DEFINE h == Renewal!Hand("asks", refresh, 0, 0)
  <2>1. /\ h \in [pc : Places, refresh : Nat, access : Nat, grant : Nat]
        /\ h.pc = "asks" /\ h.refresh = refresh
    BY <1>2, HandIs DEF Places
  <2>2. Renewal!Becomes(c, h)
    BY <1>6
  <2> HIDE DEF h
  <2>3. /\ TokensTyped' /\ \A d \in TokenCallers : hand'[d].pc # "idle" => connected'
        /\ hand'[c] = h /\ \A d \in TokenCallers : d # c => hand'[d] = hand[d]
    BY <1>1, <1>2, <1>3, <2>1, <2>2, HandStep
  <2>4. CASE vendor = "ghl"
    <3>1. ~Renewal!Between /\ \A d \in TokenCallers : hand[d].pc \in {"idle", "wants"}
      BY <1>1, <2>4, NoneBetween
    <3>2. OneRenews' /\ AllStayGood'
      BY <1>1, <1>6, <2>1, <2>3, <2>4, <3>1 DEF OneRenews, AllStayGood
    <3>3. slipped \/ (stored \in good /\ refresh \in good)
      BY <1>2, <3>1 DEF TokenInv, Renewal!CanRenew
    <3>4. \A d \in TokenCallers : d # c => hand'[d].pc # "asks"
      BY <2>3, <3>1
    <3>5. slipped \/ \A d \in TokenCallers : hand'[d].pc = "asks" => hand'[d].refresh \in good
      BY <2>1, <2>3, <3>3, <3>4
    <3>6. Renewal!CanRenew'
      BY <1>1, <3>3, <3>5 DEF Renewal!CanRenew, Renewal!At
    <3> QED BY <2>3, <3>2, <3>6 DEF TokenInv
  <2>5. CASE vendor = "gmail"
    <3>1. OneRenews' /\ AllStayGood'
      BY <1>1, <1>4, <2>1, <2>3, <2>5, GoodStep
    <3>2. slipped \/ stored \in good
      BY <2>5 DEF TokenInv, Renewal!CanRenew, Renewal!Between
    <3>3. Renewal!CanRenew'
      BY <1>1, <1>4, <2>5, <3>1, <3>2 DEF AllStayGood, Renewal!CanRenew, Renewal!At
    <3> QED BY <2>3, <3>1, <3>3 DEF TokenInv
  <2> QED BY <1>4, <2>4, <2>5
<1> QED BY <1>5, <1>6 DEF Renewal!EnsureToken, Renewal!Empty

\* A hand of a GoHighLevel renewal under way keeps the next token good, or
\* there is none under way any more: what CanRenew asks of the step.
LEMMA AloneRenews ==
    ASSUME TokenInv, vendor = "ghl", NEW c \in TokenCallers,
           hand[c].pc \notin {"idle", "wants"},
           vendor' = vendor, connected' = connected,
           \A d \in TokenCallers : d # c => hand'[d] = hand[d],
           hand'[c].pc # "asks",
           \/ slipped'
           \/ hand'[c].pc \in {"answered", "writes"}
           \/ stored' \in good' /\ (connected => refresh' \in good')
    PROVE  Renewal!CanRenew'
<1>1. \A d \in TokenCallers : d # c => hand'[d].pc \in {"idle", "wants"}
  BY OthersWait
<1>2. \A d \in TokenCallers : hand'[d].pc # "asks"
  BY <1>1
<1>3. CASE hand'[c].pc \in {"answered", "writes"}
  BY <1>2, <1>3 DEF Renewal!CanRenew, Renewal!At, Renewal!Between
<1>4. CASE slipped'
  BY <1>4 DEF Renewal!CanRenew
<1>5. CASE stored' \in good' /\ (connected => refresh' \in good')
  BY <1>2, <1>5 DEF Renewal!CanRenew, Renewal!At
<1> QED BY <1>3, <1>4, <1>5

\* Before the answer is out, the tokens of memory and file are the ones of before the call.
LEMMA AsksAreBefore ==
    ASSUME TokenInv, vendor = "ghl", NEW c \in TokenCallers, hand[c].pc = "asks"
    PROVE  slipped \/ (stored \in good /\ (connected => refresh \in good))
<1>1. \A d \in TokenCallers : d # c => hand[d].pc \in {"idle", "wants"}
  BY OthersWait
<1>2. ~Renewal!Between
  BY <1>1 DEF Renewal!Between
<1> QED BY <1>2 DEF TokenInv, Renewal!CanRenew

\* Google's tokens: what CanRenew asks of the step.
LEMMA GoodRenews ==
    ASSUME TokenInv, vendor = "gmail", vendor' = vendor, connected' = connected,
           AllStayGood', good \subseteq good',
           slipped' \/ stored' \in good' \/ (stored' = stored /\ slipped' = slipped)
    PROVE  Renewal!CanRenew'
<1>1. slipped \/ stored \in good
  BY DEF TokenInv, Renewal!CanRenew, Renewal!Between
<1>2. slipped' \/ stored' \in good'
  BY <1>1
<1>3. vendor' = "gmail"
  OBVIOUS
<1> QED BY <1>2, <1>3 DEF AllStayGood, Renewal!CanRenew, Renewal!At

\* The provider answers a renewal.
LEMMA RenewStep ==
    ASSUME Renewal!ConnectorsAssumption, TokenInv, NEW c \in TokenCallers, Renewal!Renew(c)
    PROVE  TokenInv'
<1>1. /\ hand[c].pc = "asks" /\ hand[c].refresh \in good
      /\ UNCHANGED <<vendor, connected, mu, refresh, stored, slipped>>
  BY DEF Renewal!Renew, Renewal!At
<1>2. connected
  BY <1>1 DEF TokenInv
<1>3. slipped \in BOOLEAN /\ {issued, refresh, stored} \subseteq Nat /\ good \subseteq Nat /\ hand[c].refresh \in Nat
  BY HandsAre DEF TokenInv, TokensTyped
<1>4. ASSUME vendor = "ghl", issued' = issued + 1, good' = (good \ {hand[c].refresh}) \cup {issued'},
             Renewal!Becomes(c, Renewal!Hand("answered", issued', issued', 0))
      PROVE  TokenInv'
  <2>0. PICK n \in Nat : n = issued'
    BY <1>3, <1>4
  <2> DEFINE h == Renewal!Hand("answered", n, n, 0)
  <2>1. /\ h \in [pc : Places, refresh : Nat, access : Nat, grant : Nat]
        /\ h.pc = "answered" /\ h.refresh = n
    BY HandIs DEF Places
  <2>2. Renewal!Becomes(c, h)
    BY <1>4, <2>0
  <2> HIDE DEF h
  <2>3. good' \subseteq Nat /\ {issued', refresh', stored'} \subseteq Nat /\ slipped' \in BOOLEAN
    BY <1>1, <1>3, <1>4, <2>0
  <2>4. /\ TokensTyped' /\ \A d \in TokenCallers : hand'[d].pc # "idle" => connected'
        /\ hand'[c] = h /\ \A d \in TokenCallers : d # c => hand'[d] = hand[d]
    BY <1>1, <1>2, <2>1, <2>2, <2>3, HandStep
  <2>5. mu = c
    BY <1>1, <1>4, OthersWait
  <2>6. hand'[c].refresh \in good'
    BY <1>4, <2>0, <2>1, <2>4
  <2>7. OneRenews' /\ AllStayGood'
    BY <1>1, <1>4, <2>1, <2>4, <2>5, <2>6, AloneStep
  <2>8. Renewal!CanRenew'
    BY <1>1, <1>4, <2>1, <2>4, AloneRenews
  <2> QED BY <2>4, <2>7, <2>8 DEF TokenInv
<1>5. ASSUME vendor = "gmail", UNCHANGED <<good, issued>>,
             Renewal!Becomes(c, Renewal!Hand("answered", 0, hand[c].refresh, 0))
      PROVE  TokenInv'
  <2> DEFINE h == Renewal!Hand("answered", 0, hand[c].refresh, 0)
  <2>1. /\ h \in [pc : Places, refresh : Nat, access : Nat, grant : Nat]
        /\ h.pc = "answered" /\ h.refresh = 0
    <3>1. "answered" \in Places /\ 0 \in Nat
      BY DEF Places
    <3>2. PICK a \in Nat : a = hand[c].refresh
      BY <1>3
    <3>3. h = Renewal!Hand("answered", 0, a, 0)
      BY <3>2
    <3> HIDE DEF h
    <3> QED BY <3>1, <3>3, HandIs
  <2>2. Renewal!Becomes(c, h)
    BY <1>5
  <2> HIDE DEF h
  <2>3. good' \subseteq Nat /\ {issued', refresh', stored'} \subseteq Nat /\ slipped' \in BOOLEAN
    BY <1>1, <1>3, <1>5
  <2>4. /\ TokensTyped' /\ \A d \in TokenCallers : hand'[d].pc # "idle" => connected'
        /\ hand'[c] = h /\ \A d \in TokenCallers : d # c => hand'[d] = hand[d]
    BY <1>1, <1>2, <2>1, <2>2, <2>3, HandStep
  <2>5. connected => refresh' \in good'
    BY <1>1, <1>5 DEF TokenInv, AllStayGood
  <2>6. hand'[c].pc = "answered" /\ hand'[c].refresh = Renewal!Empty /\ good \subseteq good'
    BY <1>5, <2>1, <2>4 DEF Renewal!Empty
  <2>7. OneRenews' /\ AllStayGood'
    BY <1>1, <1>5, <2>4, <2>5, <2>6, GoodStep
  <2>8. Renewal!CanRenew'
    BY <1>1, <1>3, <1>5, <2>6, <2>7, GoodRenews
  <2> QED BY <2>4, <2>7, <2>8 DEF TokenInv
<1> QED BY <1>4, <1>5 DEF Renewal!Renew, Renewal!Issue, Renewal!Rotated, Renewal!Empty

\* Google answers a consent, with a refresh token or without.
LEMMA GrantStep ==
    ASSUME Renewal!ConnectorsAssumption, TokenInv, NEW c \in TokenCallers, Renewal!Grant(c)
    PROVE  TokenInv'
<1>1. /\ hand[c].pc = "exchanges" /\ issued' = issued + 1
      /\ UNCHANGED <<vendor, connected, mu, refresh, stored, slipped>>
  BY DEF Renewal!Grant, Renewal!At, Renewal!Issue
<1>2. connected /\ vendor = "gmail"
  BY <1>1 DEF TokenInv, OneRenews, TokensTyped
<1>3. slipped \in BOOLEAN /\ {issued, refresh, stored} \subseteq Nat /\ good \subseteq Nat
  BY DEF TokenInv, TokensTyped
<1>4. PICK n \in Nat : n = issued'
  BY <1>1, <1>3
<1>5. PICK r \in {0, n}, g \in {0, n} :
          /\ Renewal!Becomes(c, Renewal!Hand("answered", r, n, g))
          /\ good \subseteq good' /\ good' \subseteq good \cup {n} /\ r \in good' \cup {0}
  <2>1. CASE good' = good \cup {issued'} /\ Renewal!Becomes(c, Renewal!Hand("answered", issued', issued', issued'))
    BY <1>4, <2>1
  <2>2. CASE good' = good /\ Renewal!Becomes(c, Renewal!Hand("answered", 0, issued', 0))
    BY <1>4, <2>2
  <2> QED BY <2>1, <2>2 DEF Renewal!Grant, Renewal!Empty
<1> DEFINE h == Renewal!Hand("answered", r, n, g)
<1>6. /\ h \in [pc : Places, refresh : Nat, access : Nat, grant : Nat]
      /\ h.pc = "answered" /\ h.refresh = r
  <2>1. r \in Nat /\ g \in Nat /\ "answered" \in Places
    BY DEF Places
  <2> QED BY <2>1, HandIs
<1>7. Renewal!Becomes(c, h)
  BY <1>5
<1> HIDE DEF h
<1>8. good' \subseteq Nat /\ {issued', refresh', stored'} \subseteq Nat /\ slipped' \in BOOLEAN
  BY <1>1, <1>3, <1>4, <1>5
<1>9. /\ TokensTyped' /\ \A d \in TokenCallers : hand'[d].pc # "idle" => connected'
      /\ hand'[c] = h /\ \A d \in TokenCallers : d # c => hand'[d] = hand[d]
  BY <1>1, <1>2, <1>6, <1>7, <1>8, HandStep
<1>10. connected => refresh' \in good'
  BY <1>1, <1>2, <1>5 DEF TokenInv, AllStayGood
<1>11. hand'[c].pc = "answered" /\ hand'[c].refresh \in good' \cup {Renewal!Empty}
  BY <1>5, <1>6, <1>9 DEF Renewal!Empty
<1>12. OneRenews' /\ AllStayGood'
  BY <1>1, <1>2, <1>5, <1>9, <1>10, <1>11, GoodStep
<1>13. Renewal!CanRenew'
  BY <1>1, <1>2, <1>3, <1>5, <1>12, GoodRenews
<1> QED BY <1>9, <1>12, <1>13 DEF TokenInv

\* A caller's renewal ends, and no token has changed: nothing is under way at
\* its place any more, or it is known that the next token slipped.
LEMMA EndStep ==
    ASSUME Renewal!ConnectorsAssumption, TokenInv, NEW c \in TokenCallers, Renewal!Ends(c),
           hand[c].pc \in {"asks", "exchanges", "answered"},
           UNCHANGED <<vendor, connected, refresh, stored, good, issued>>,
           slipped' = (slipped \/ (vendor = "ghl" /\ hand[c].pc = "answered"))
    PROVE  TokenInv'
<1>1. Renewal!Becomes(c, Renewal!Idle)
  BY DEF Renewal!Ends
<1>2. good' \subseteq Nat /\ {issued', refresh', stored'} \subseteq Nat /\ slipped' \in BOOLEAN /\ connected
      /\ vendor \in {"ghl", "gmail"}
  BY DEF TokenInv, TokensTyped
<1>3. /\ TokensTyped' /\ \A d \in TokenCallers : hand'[d].pc # "idle" => connected'
      /\ hand'[c] = Renewal!Idle /\ \A d \in TokenCallers : d # c => hand'[d] = hand[d]
  BY <1>1, <1>2, IdleHand, HandStep
<1>4. CASE vendor = "ghl"
  <2>1. OneRenews' /\ AllStayGood'
    BY <1>3, <1>4, IdleHand, AloneStep
  <2>2. CASE hand[c].pc = "answered"
    BY <1>3, <1>4, <2>1, <2>2 DEF TokenInv, Renewal!CanRenew
  <2>3. CASE hand[c].pc = "asks"
    <3>1. slipped \/ (stored \in good /\ (connected => refresh \in good))
      BY <1>4, <2>3, AsksAreBefore
    <3>2. slipped' \/ (stored' \in good' /\ (connected => refresh' \in good'))
      BY <3>1
    <3>3. hand'[c].pc # "asks" /\ hand[c].pc \notin {"idle", "wants"}
      BY <1>3, IdleHand
    <3>4. Renewal!CanRenew'
      BY <1>3, <1>4, <3>2, <3>3, AloneRenews
    <3> QED BY <1>3, <2>1, <3>4 DEF TokenInv
  <2>4. hand[c].pc # "exchanges"
    BY <1>4 DEF TokenInv, OneRenews
  <2> QED BY <2>2, <2>3, <2>4
<1>5. CASE vendor = "gmail"
  <2>1. connected => refresh' \in good'
    BY <1>2, <1>5 DEF TokenInv, AllStayGood
  <2>2. OneRenews' /\ AllStayGood'
    BY <1>3, <1>5, <2>1, IdleHand, GoodStep
  <2>3. slipped' = slipped
    BY <1>5 DEF TokenInv, TokensTyped
  <2>4. Renewal!CanRenew'
    BY <1>5, <2>2, <2>3, GoodRenews
  <2> QED BY <1>3, <2>2, <2>4 DEF TokenInv
<1> QED BY <1>2, <1>4, <1>5

\* A token or a code that is not taken.
LEMMA RefuseStep ==
    ASSUME Renewal!ConnectorsAssumption, TokenInv, NEW c \in TokenCallers, Renewal!Refuse(c)
    PROVE  TokenInv'
<1>1. hand[c].pc \in {"asks", "exchanges"} /\ Renewal!Ends(c)
      /\ UNCHANGED <<vendor, connected, refresh, stored, good, issued, slipped>>
  BY DEF Renewal!Refuse, Renewal!At
<1>2. slipped' = (slipped \/ (vendor = "ghl" /\ hand[c].pc = "answered"))
  BY <1>1 DEF TokenInv, TokensTyped
<1> QED BY <1>1, <1>2, EndStep

\* A call that is lost on its way.
LEMMA LoseStep ==
    ASSUME Renewal!ConnectorsAssumption, TokenInv, NEW c \in TokenCallers, Renewal!LoseCall(c)
    PROVE  TokenInv'
  BY EndStep DEF Renewal!LoseCall, Renewal!At

\* Google's answer comes out unreadable.
LEMMA GarbleStep ==
    ASSUME Renewal!ConnectorsAssumption, TokenInv, NEW c \in TokenCallers, Renewal!GarbleAnswer(c)
    PROVE  TokenInv'
<1>1. /\ vendor = "gmail" /\ hand[c].pc = "answered"
      /\ Renewal!Becomes(c, Renewal!Hand("answered", 0, 0, hand[c].grant))
      /\ UNCHANGED <<vendor, connected, mu, refresh, stored, good, issued, slipped>>
  BY DEF Renewal!GarbleAnswer, Renewal!At, Renewal!Empty
<1>2. connected
  BY <1>1 DEF TokenInv
<1>3. PICK g \in Nat : g = hand[c].grant
  BY HandsAre
<1> DEFINE h == Renewal!Hand("answered", 0, 0, g)
<1>4. /\ h \in [pc : Places, refresh : Nat, access : Nat, grant : Nat]
      /\ h.pc = "answered" /\ h.refresh = 0
  <2>1. "answered" \in Places /\ 0 \in Nat
    BY DEF Places
  <2> QED BY <2>1, HandIs
<1>5. Renewal!Becomes(c, h)
  BY <1>1, <1>3
<1> HIDE DEF h
<1>6. good' \subseteq Nat /\ {issued', refresh', stored'} \subseteq Nat /\ slipped' \in BOOLEAN
  BY <1>1 DEF TokenInv, TokensTyped
<1>7. /\ TokensTyped' /\ \A d \in TokenCallers : hand'[d].pc # "idle" => connected'
      /\ hand'[c] = h /\ \A d \in TokenCallers : d # c => hand'[d] = hand[d]
  BY <1>1, <1>2, <1>4, <1>5, <1>6, HandStep
<1>8. connected => refresh' \in good'
  BY <1>1 DEF TokenInv, AllStayGood
<1>9. hand'[c].pc = "answered" /\ hand'[c].refresh = Renewal!Empty
  BY <1>4, <1>7 DEF Renewal!Empty
<1>10. OneRenews' /\ AllStayGood'
  BY <1>1, <1>7, <1>8, <1>9, GoodStep
<1>11. Renewal!CanRenew'
  BY <1>1, <1>10, GoodRenews
<1> QED BY <1>7, <1>10, <1>11 DEF TokenInv

\* The tokens that came are taken into memory.
LEMMA TakeStep ==
    ASSUME Renewal!ConnectorsAssumption, TokenInv, NEW c \in TokenCallers, Renewal!TakeTokens(c)
    PROVE  TokenInv'
<1>1. /\ hand[c].pc = "answered"
      /\ Renewal!Becomes(c, [hand[c] EXCEPT !.pc = IF vendor = "ghl" THEN "writes" ELSE "marshals"])
      /\ refresh' = IF vendor = "gmail" /\ hand[c].refresh = 0 THEN refresh ELSE hand[c].refresh
      /\ UNCHANGED <<vendor, connected, mu, stored, good, issued, slipped>>
  BY DEF Renewal!TakeTokens, Renewal!At, Renewal!Empty
<1>2. connected /\ vendor \in {"ghl", "gmail"} /\ hand[c].refresh \in Nat
  BY <1>1, HandsAre DEF TokenInv, TokensTyped
<1>3. PICK h : h = [hand[c] EXCEPT !.pc = IF vendor = "ghl" THEN "writes" ELSE "marshals"]
  OBVIOUS
<1>4. /\ h \in [pc : Places, refresh : Nat, access : Nat, grant : Nat]
      /\ h.pc = IF vendor = "ghl" THEN "writes" ELSE "marshals"
      /\ h.refresh = hand[c].refresh
  <2>1. hand[c] \in [pc : Places, refresh : Nat, access : Nat, grant : Nat]
    BY HandsAre
  <2>2. {"writes", "marshals"} \subseteq Places
    BY DEF Places
  <2> QED BY <1>3, <2>1, <2>2
<1>5. Renewal!Becomes(c, h)
  BY <1>1, <1>3
<1>6. good' \subseteq Nat /\ {issued', refresh', stored'} \subseteq Nat /\ slipped' \in BOOLEAN
  BY <1>1, <1>2 DEF TokenInv, TokensTyped
<1>7. /\ TokensTyped' /\ \A d \in TokenCallers : hand'[d].pc # "idle" => connected'
      /\ hand'[c] = h /\ \A d \in TokenCallers : d # c => hand'[d] = hand[d]
  BY <1>1, <1>2, <1>4, <1>5, <1>6, HandStep
<1>8. CASE vendor = "ghl"
  <2>1. mu = c /\ hand[c].refresh \in good /\ hand'[c].pc = "writes" /\ hand'[c].refresh = hand[c].refresh
    BY <1>1, <1>4, <1>7, <1>8, OthersWait DEF TokenInv, OneRenews
  <2>2. refresh' = hand[c].refresh
    BY <1>1, <1>8
  <2>3. OneRenews' /\ AllStayGood'
    BY <1>1, <1>7, <1>8, <2>1, <2>2, AloneStep
  <2>4. Renewal!CanRenew'
    BY <1>1, <1>7, <1>8, <2>1, AloneRenews
  <2> QED BY <1>7, <2>3, <2>4 DEF TokenInv
<1>9. CASE vendor = "gmail"
  <2>1. connected => refresh' \in good'
    BY <1>1, <1>2, <1>9 DEF TokenInv, AllStayGood, Renewal!Empty
  <2>2. hand'[c].pc = "marshals"
    BY <1>4, <1>7, <1>9
  <2>3. OneRenews' /\ AllStayGood'
    BY <1>1, <1>7, <1>9, <2>1, <2>2, GoodStep
  <2>4. Renewal!CanRenew'
    BY <1>1, <1>9, <2>3, GoodRenews
  <2> QED BY <1>7, <2>3, <2>4 DEF TokenInv
<1> QED BY <1>2, <1>8, <1>9

\* What is written is what memory holds by then.
LEMMA MarshalStep ==
    ASSUME Renewal!ConnectorsAssumption, TokenInv, NEW c \in TokenCallers, Renewal!MarshalToken(c)
    PROVE  TokenInv'
<1>1. /\ hand[c].pc = "marshals"
      /\ Renewal!Becomes(c, [hand[c] EXCEPT !.pc = "writes", !.refresh = refresh])
      /\ UNCHANGED <<vendor, connected, mu, refresh, stored, good, issued, slipped>>
  BY DEF Renewal!MarshalToken, Renewal!At
<1>2. connected /\ vendor = "gmail"
  BY <1>1 DEF TokenInv, OneRenews, TokensTyped
<1>3. PICK h : h = [hand[c] EXCEPT !.pc = "writes", !.refresh = refresh]
  OBVIOUS
<1>4. /\ h \in [pc : Places, refresh : Nat, access : Nat, grant : Nat]
      /\ h.pc = "writes" /\ h.refresh = refresh
  <2>1. hand[c] \in [pc : Places, refresh : Nat, access : Nat, grant : Nat] /\ refresh \in Nat
    BY HandsAre DEF TokenInv, TokensTyped
  <2>2. "writes" \in Places
    BY DEF Places
  <2> QED BY <1>3, <2>1, <2>2
<1>5. Renewal!Becomes(c, h)
  BY <1>1, <1>3
<1>6. good' \subseteq Nat /\ {issued', refresh', stored'} \subseteq Nat /\ slipped' \in BOOLEAN
  BY <1>1 DEF TokenInv, TokensTyped
<1>7. /\ TokensTyped' /\ \A d \in TokenCallers : hand'[d].pc # "idle" => connected'
      /\ hand'[c] = h /\ \A d \in TokenCallers : d # c => hand'[d] = hand[d]
  BY <1>1, <1>2, <1>4, <1>5, <1>6, HandStep
<1>8. refresh \in good
  BY <1>2 DEF TokenInv, AllStayGood
<1>9. hand'[c].pc = "writes" /\ hand'[c].refresh \in good' /\ refresh' \in good'
  BY <1>1, <1>4, <1>7, <1>8
<1>10. OneRenews' /\ AllStayGood'
  BY <1>1, <1>2, <1>7, <1>9, GoodStep
<1>11. Renewal!CanRenew'
  BY <1>1, <1>2, <1>10, GoodRenews
<1> QED BY <1>7, <1>10, <1>11 DEF TokenInv

\* The file is written, or the write fails.
LEMMA WriteStep ==
    ASSUME Renewal!ConnectorsAssumption, TokenInv, NEW c \in TokenCallers, Renewal!WriteToken(c)
    PROVE  TokenInv'
<1>1. /\ hand[c].pc = "writes" /\ Renewal!Becomes(c, Renewal!Idle)
      /\ UNCHANGED <<vendor, connected, refresh, good, issued>>
      /\ \/ stored' = hand[c].refresh /\ slipped' = FALSE
         \/ stored' \in {stored, 0} /\ slipped' = TRUE
  BY DEF Renewal!WriteToken, Renewal!At, Renewal!Ends, Renewal!Empty
<1>2. connected /\ vendor \in {"ghl", "gmail"} /\ hand[c].refresh \in Nat
  BY <1>1, HandsAre DEF TokenInv, TokensTyped
<1>3. stored' \in Nat
  BY <1>1, <1>2 DEF TokenInv, TokensTyped
<1>4. good' \subseteq Nat /\ {issued', refresh', stored'} \subseteq Nat
  BY <1>1, <1>3 DEF TokenInv, TokensTyped
<1>5. slipped' \in BOOLEAN
  BY <1>1
<1>6. /\ TokensTyped' /\ \A d \in TokenCallers : hand'[d].pc # "idle" => connected'
      /\ hand'[c] = Renewal!Idle /\ \A d \in TokenCallers : d # c => hand'[d] = hand[d]
  BY <1>1, <1>2, <1>4, <1>5, IdleHand, HandStep
<1>7. hand[c].refresh \in good /\ refresh \in good
  BY <1>1, <1>2 DEF TokenInv, OneRenews, AllStayGood
<1>8. slipped' \/ (stored' \in good' /\ refresh' \in good')
  BY <1>1, <1>7
<1>9. CASE vendor = "ghl"
  <2>1. OneRenews' /\ AllStayGood'
    BY <1>1, <1>6, <1>9, IdleHand, AloneStep
  <2>2. Renewal!CanRenew'
    BY <1>1, <1>6, <1>8, <1>9, IdleHand, AloneRenews
  <2> QED BY <1>6, <2>1, <2>2 DEF TokenInv
<1>10. CASE vendor = "gmail"
  <2>1. OneRenews' /\ AllStayGood'
    BY <1>1, <1>6, <1>7, <1>10, IdleHand, GoodStep
  <2>2. Renewal!CanRenew'
    BY <1>1, <1>8, <1>10, <2>1, GoodRenews
  <2> QED BY <1>6, <2>1, <2>2 DEF TokenInv
<1> QED BY <1>2, <1>9, <1>10

\* The process dies.
LEMMA TokenCrash ==
    ASSUME Renewal!ConnectorsAssumption, TokenInv, Renewal!Crash
    PROVE  TokenInv'
<1>1. /\ connected' = FALSE /\ mu' = Renewal!Nobody /\ refresh' = 0 /\ vendor' = vendor
      /\ hand' = [c \in TokenCallers |-> Renewal!Idle]
      /\ stored' = stored \/ stored' = 0
      /\ slipped' = (slipped \/ Renewal!Between \/ stored' # stored \/ good' # good)
  BY DEF Renewal!Crash, Renewal!Empty
<1>2. good' \subseteq Nat /\ issued' \in Nat
  <2>1. issued \in Nat /\ good \subseteq Nat
    BY DEF TokenInv, TokensTyped
  <2>2. CASE UNCHANGED <<good, issued>>
    BY <2>1, <2>2
  <2>3. CASE Renewal!Issue /\ \E c \in TokenCallers : good' = Renewal!Rotated(hand[c].refresh)
    <3>1. issued' = issued + 1
      BY <2>3 DEF Renewal!Issue
    <3>2. issued' \in Nat
      BY <2>1, <3>1
    <3>3. good' \subseteq good \cup {issued'}
      BY <2>3 DEF Renewal!Rotated
    <3> QED BY <2>1, <3>2, <3>3
  <2> QED BY <2>2, <2>3 DEF Renewal!Crash
<1>3. \A c \in TokenCallers : hand'[c].pc = "idle"
  BY <1>1, IdleHand
<1>4. TokensTyped'
  <2>1. hand' \in [TokenCallers -> [pc : Places, refresh : Nat, access : Nat, grant : Nat]]
    BY <1>1, IdleHand
  <2>2. vendor' \in {"ghl", "gmail"} /\ {issued', refresh', stored'} \subseteq Nat
    BY <1>1, <1>2 DEF TokenInv, TokensTyped
  <2>3. connected' \in BOOLEAN
    BY <1>1
  <2>4. slipped' \in BOOLEAN
    BY <1>1
  <2> QED BY <1>2, <2>1, <2>2, <2>3, <2>4, Zenon DEF TokensTyped
<1>5. OneRenews' /\ AllStayGood'
  BY <1>1, <1>3 DEF OneRenews, AllStayGood
<1>6. Renewal!CanRenew'
  <2>1. CASE slipped'
    BY <2>1 DEF Renewal!CanRenew
  <2>2. CASE ~slipped'
    <3>1. stored \in good /\ stored' = stored /\ good' = good
      BY <1>1, <2>2 DEF TokenInv, Renewal!CanRenew
    <3> QED BY <1>1, <1>3, <3>1 DEF Renewal!CanRenew, Renewal!At
  <2> QED BY <2>1, <2>2
<1> QED BY <1>3, <1>4, <1>5, <1>6 DEF TokenInv

\* GHLConnector.ensureToken and refreshToken, GmailConnector.ExchangeCode: no
\* renewal presents a token that is used up, and memory and file hold one that
\* is good, unless an answer was lost, a write failed or the process died.
THEOREM RenewalGoesOn ==
    ASSUME Renewal!ConnectorsAssumption
    PROVE  Renewal!Spec => [](Renewal!CanRenew /\ CanRenew)
<1>1. Renewal!Init => TokenInv
  BY TokenInit
<1>2. TokenInv /\ [Renewal!Next]_(Renewal!vars) => TokenInv'
  <2> SUFFICES ASSUME TokenInv, [Renewal!Next]_(Renewal!vars)
               PROVE  TokenInv'
    OBVIOUS
  <2>1. CASE UNCHANGED Renewal!vars
    BY <2>1 DEF Renewal!vars, TokenInv, TokensTyped, OneRenews, AllStayGood, Renewal!CanRenew, Renewal!At,
                Renewal!Between
  <2>2. CASE Renewal!Next
    BY <2>2, BootStep, ExpireStep, AuthCodeStep, TokenCrash, RequestStep, EnsureStep, RenewStep, GrantStep,
       RefuseStep, LoseStep, GarbleStep, TakeStep, MarshalStep, WriteStep DEF Renewal!Next
  <2> QED BY <2>1, <2>2
<1>3. TokenInv => Renewal!CanRenew /\ CanRenew
  BY DEF TokenInv, CanRenew
<1> QED BY <1>1, <1>2, <1>3, PTL DEF Renewal!Spec

-----------------------------------------------------------------------------
\* A configuration takes its people from one file and its steps from another.
IsConfig(c) ==
    /\ DOMAIN c = {"relay", "allowed", "relayAllowed", "operators", "roles", "models", "steps"}
    /\ \E f \in ConfigFiles :
          /\ c.relay = f.relay /\ c.allowed = f.allowed
          /\ c.relayAllowed = f.relayAllowed /\ c.operators = f.operators
    /\ \E f \in ConfigFiles : c.steps = f.steps

\* A configuration that was checked with the skills in d.
Checked(c, d) == IsConfig(c) /\ d \in SkillDirs /\ Config!Accepted(c, d)

Snapshot == {"config", "skills", "checked"}
InProgress == {"skills", "running", "asking"}

\* What is in force was checked, and what a reload puts there from its check on.
ForceOK ==
    /\ file \in ConfigFiles /\ dir \in SkillDirs
    /\ DOMAIN inForce = Snapshot /\ DOMAIN next = Snapshot
    /\ process \in {"down", "booting", "up"} /\ (reload # "none" => process = "up")
    /\ process = "booting" \/ reload \in {"check", "load", "config"} => IsConfig(next.config)
    /\ reload \in {"load", "config"} => Checked(next.config, next.checked)
    /\ process = "up" => Checked(inForce.config, inForce.checked)

\* Enough people decide an approval step that asks.
Enough(c, st) == Cardinality(Config!Deciders(c, st)) >= Config!Need(st)

\* Why a run of a checked configuration may end at its step: the checks passed
\* over it, or its skills are others than were checked.
Explained(q, why) ==
    /\ why = "channel" => run[q].config.relay /\ Config!Step(q).channel = "telegram"
    /\ why = "unsatisfiable" => Config!PeopleOverlooked(run[q].config, Config!Step(q))
    /\ run[q].skills = Config!Registry(run[q].checked) =>
          /\ why \notin {"unknown skill", "unknown model"}
          /\ why = "unknown role" => Config!RoleOverlooked(run[q].skills, Config!Step(q))

\* A gate that asks has the people it needs, or Telegram's were counted twice.
Decidable(c, st) == Enough(c, st) \/ (~c.relay /\ Config!PeopleOverlooked(c, st))

\* A run in progress has a configuration that was checked, stands at one of its
\* steps, and fails for a reason.
RunOK(q) ==
    /\ DOMAIN run[q] = {"pc", "config", "skills", "checked", "step", "why"}
    /\ run[q].pc \in {"idle", "over"} \cup InProgress
    /\ run[q].pc # "over" => run[q].why = "none"
    /\ run[q].pc \in {"idle", "skills"} => run[q].step = 1
    /\ run[q].pc \in InProgress =>
          Checked(run[q].config, run[q].checked) /\ run[q].step \in DOMAIN run[q].config.steps
    /\ run[q].pc = "asking" => Decidable(run[q].config, Config!Step(q))
    /\ Explained(q, run[q].why)

ReloadInv == ForceOK /\ DOMAIN run = RunStarts /\ \A q \in RunStarts : RunOK(q)

\* What the files are, as the instance has it.
LEMMA ConfigTypes ==
    ASSUME Config!ConfigAssumption, NEW c, IsConfig(c)
    PROVE  /\ c.relay \in BOOLEAN /\ Len(c.allowed) > 0
           /\ c.allowed \in Seq(Range(c.allowed)) /\ c.relayAllowed \in Seq(Range(c.relayAllowed))
           /\ c.operators \in Seq(Range(c.operators)) /\ c.steps \in Seq(Range(c.steps))
           /\ \A i \in DOMAIN c.steps : c.steps[i].type = "approval" => c.steps[i].quorum \in Int
           /\ \A s : Config!Range(s) = Range(s)
<1>1. \A s : Config!Range(s) = Range(s)
  BY DEF Config!Range, Range
<1>2. ASSUME NEW f \in ConfigFiles
      PROVE  /\ f.relay \in BOOLEAN /\ Len(f.allowed) > 0
             /\ f.allowed \in Seq(Range(f.allowed)) /\ f.relayAllowed \in Seq(Range(f.relayAllowed))
             /\ f.operators \in Seq(Range(f.operators)) /\ f.steps \in Seq(Range(f.steps))
             /\ \A st \in Range(f.steps) : st.type = "approval" => st.quorum \in Int
  BY <1>1, <1>2 DEF Config!ConfigAssumption, Config!IsList
<1>3. \A f \in ConfigFiles : \A i \in DOMAIN f.steps : f.steps[i] \in Range(f.steps)
  BY DEF Range
<1> QED BY <1>1, <1>2, <1>3 DEF IsConfig

\* An ai step of a configuration that was checked finds its skill, its role and
\* its model among the skills it was checked with, if its role was looked at (RunAI).
LEMMA StepResolves ==
    ASSUME NEW c, NEW d, Checked(c, d), NEW i \in DOMAIN c.steps, c.steps[i].type = "ai"
    PROVE  LET st == c.steps[i]
               reg == Config!Registry(d)
               role == Config!RoleUsed(reg, st)
           IN  /\ st.skill # NoSkill => st.skill \in DOMAIN reg
               /\ role \in DOMAIN c.roles => c.roles[role] \in c.models
               /\ Config!RoleOverlooked(reg, st) \/ role \in DOMAIN c.roles
<1> DEFINE st == c.steps[i]
           reg == Config!Registry(d)
<1>1. Config!RolesOk(c) /\ Config!StepsOk(c, reg)
  BY DEF Checked, Config!Accepted
<1>2. Config!AIOk(c, reg, st)
  <2>1. st \in Config!Range(c.steps)
    BY DEF Config!Range
  <2> QED BY <1>1, <2>1 DEF Config!StepsOk
<1>3. st.skill # NoSkill => st.skill \in DOMAIN reg
  BY <1>2 DEF Config!AIOk
<1>4. Config!RoleChecked(reg, st) # NoRole => Config!RoleChecked(reg, st) \in DOMAIN c.roles
  BY <1>2 DEF Config!AIOk
<1>5. Config!RoleOverlooked(reg, st) \/ Config!RoleUsed(reg, st) \in DOMAIN c.roles
  BY <1>4 DEF Config!RoleOverlooked
<1> QED BY <1>1, <1>3, <1>5 DEF Config!RolesOk

\* A list without repetitions has as many members as entries.
LEMMA CountedOnce ==
    ASSUME NEW S, NEW s \in Seq(S), \A i, k \in DOMAIN s : s[i] = s[k] => i = k
    PROVE  IsFiniteSet(Range(s)) /\ Cardinality(Range(s)) = Len(s)
<1>1. Len(s) \in Nat /\ DOMAIN s = 1 .. Len(s)
  OBVIOUS
<1>2. s \in [1 .. Len(s) -> Range(s)]
  BY <1>1 DEF Range
<1>3. s \in Bijection(1 .. Len(s), Range(s))
  BY <1>1, <1>2 DEF Bijection, Injection, Surjection, Range, IsInjective
<1>4. ExistsBijection(1 .. Len(s), Range(s))
  BY <1>3 DEF ExistsBijection
<1> QED BY <1>1, <1>4, FS_NatBijection, FS_CountingElements

\* A list of operators is finite, and has as many as entries unless one is repeated.
LEMMA PoolCounts ==
    ASSUME NEW s, s \in Seq(Range(s))
    PROVE  /\ IsFiniteSet(Range(s))
           /\ Config!IsInjective(s) => Cardinality(Range(s)) = Len(s)
<1>1. IsFiniteSet(Range(s))
  <2>1. IsFiniteSet(1 .. Len(s))
    BY FS_Interval
  <2>2. s \in Surjection(1 .. Len(s), Range(s))
    BY DEF Surjection, Range
  <2> QED BY <2>1, <2>2, FS_Surjection
<1>2. ASSUME Config!IsInjective(s)
      PROVE  Cardinality(Range(s)) = Len(s)
  BY <1>2, CountedOnce DEF Config!IsInjective
<1> QED BY <1>1, <1>2

\* Of a relay that was checked, each operator who has an identity has one of
\* their own.
LEMMA OneIdentityEach ==
    ASSUME Config!ConfigAssumption, NEW c, IsConfig(c), c.relay, Config!RelayOk(c),
           NEW P, \A u \in P : Config!IdentityFor(c, u) # {}, IsFiniteSet(P)
    PROVE  LET D == UNION {Config!IdentityFor(c, u) : u \in P}
           IN  IsFiniteSet(D) /\ Cardinality(D) = Cardinality(P)
<1> DEFINE Who(u) == CHOOSE k \in DOMAIN c.operators : c.operators[k].id = u
           D == UNION {Config!IdentityFor(c, u) : u \in P}
           F == [u \in P |-> c.operators[Who(u)].identity]
<1>1. /\ \A i, k \in DOMAIN c.operators :
            c.operators[i].id = c.operators[k].id
                \/ c.operators[i].identity = c.operators[k].identity => i = k
      /\ \A u \in P : Config!IdentityFor(c, u) # {}
  BY DEF Config!RelayOk, Config!Range, Range
<1>2. DOMAIN c.operators \subseteq Nat
  BY ConfigTypes
<1>3. ASSUME NEW u \in P
      PROVE  /\ Who(u) \in DOMAIN c.operators /\ c.operators[Who(u)].id = u
             /\ Config!IdentityFor(c, u) = {c.operators[Who(u)].identity}
  <2> DEFINE I == {i \in DOMAIN c.operators : c.operators[i].id = u}
  <2>1. Config!IdentityFor(c, u) = {c.operators[i].identity : i \in {i \in I : \A j \in I : i <= j}}
    BY DEF Config!IdentityFor
  <2>2. PICK k \in DOMAIN c.operators : c.operators[k].id = u
    BY <1>1, <2>1
  <2>3. I = {k}
    BY <1>1, <2>2
  <2>4. {i \in I : \A j \in I : i <= j} = {k}
    BY <1>2, <2>2, <2>3
  <2>5. Who(u) = k
    BY <1>1, <2>2
  <2> HIDE DEF I
  <2>6. Config!IdentityFor(c, u) = {c.operators[k].identity}
    BY <2>1, <2>4
  <2> HIDE DEF Who
  <2> QED BY <2>2, <2>5, <2>6
<1> HIDE DEF Who
<1>4. D = {c.operators[Who(u)].identity : u \in P}
  BY <1>3
<1> HIDE DEF D
<1>5. F \in Bijection(P, D)
  <2>1. F \in [P -> D]
    BY <1>4
  <2>2. \A u, v \in P : F[u] = F[v] => u = v
    BY <1>1, <1>3
  <2>3. \A y \in D : \E u \in P : F[u] = y
    BY <1>4
  <2> HIDE DEF F
  <2> QED BY <2>1, <2>2, <2>3 DEF Bijection, Injection, Surjection, IsInjective
<1> HIDE DEF F
<1>6. ExistsBijection(P, D)
  BY <1>5 DEF ExistsBijection
<1>7. IsFiniteSet(D) /\ Cardinality(D) = Cardinality(P)
  BY <1>6, FS_Bijection
<1> QED BY <1>7 DEF D

\* A relay knows finitely many identities.
LEMMA IdentitiesAreFinite ==
    ASSUME Config!ConfigAssumption, NEW c, IsConfig(c), NEW P
    PROVE  IsFiniteSet(UNION {Config!IdentityFor(c, u) : u \in P})
<1>1. Len(c.operators) \in Nat /\ DOMAIN c.operators = 1 .. Len(c.operators)
  BY ConfigTypes
<1>2. IsFiniteSet(1 .. Len(c.operators))
  <2>1. \A n \in Nat : IsFiniteSet(1 .. n)
    BY FS_Interval
  <2> QED BY <1>1, <2>1
<1> DEFINE T == {c.operators[i].identity : i \in 1 .. Len(c.operators)}
           F == [i \in 1 .. Len(c.operators) |-> c.operators[i].identity]
<1>3. F \in Surjection(1 .. Len(c.operators), T)
  BY DEF Surjection
<1>4. IsFiniteSet(T)
  BY <1>2, <1>3, FS_Surjection
<1>5. \A u : Config!IdentityFor(c, u) \subseteq T
  BY <1>1 DEF Config!IdentityFor
<1> HIDE DEF T
<1>6. UNION {Config!IdentityFor(c, u) : u \in P} \subseteq T
  BY <1>5
<1> QED BY <1>4, <1>6, FS_Subset

\* Who may decide an approval step of a configuration that was checked is enough
\* for it, on the channel that runs, if nobody was overlooked (checkPipelines,
\* checkApprovers, checkRelay).
LEMMA PeopleSuffice ==
    ASSUME Config!ConfigAssumption, NEW c, NEW d, Checked(c, d),
           NEW i \in DOMAIN c.steps, c.steps[i].type = "approval",
           c.steps[i].channel = Config!Running(c)
    PROVE  /\ Enough(c, c.steps[i]) \/ Config!PeopleOverlooked(c, c.steps[i])
           /\ IsFiniteSet(Config!Deciders(c, c.steps[i]))
<1> DEFINE st == c.steps[i]
           Q == IF st.approvers = <<>> THEN c.relayAllowed ELSE st.approvers
<1>1. IsConfig(c) /\ Config!RelayOk(c) /\ Config!StepsOk(c, Config!Registry(d))
  BY DEF Checked, Config!Accepted
<1>2. /\ c.relay \in BOOLEAN /\ Len(c.allowed) > 0
      /\ c.allowed \in Seq(Range(c.allowed)) /\ c.relayAllowed \in Seq(Range(c.relayAllowed))
      /\ st.quorum \in Int
      /\ \A s : Config!Range(s) = Range(s)
  BY <1>1, ConfigTypes
<1>3. \A S_ : Config!Cardinality(S_) = Cardinality(S_)
  BY DEF Config!Cardinality, Cardinality
<1>4. /\ IsFiniteSet(Range(c.allowed)) /\ IsFiniteSet(Range(c.relayAllowed))
      /\ Config!IsInjective(c.allowed) => Cardinality(Range(c.allowed)) = Len(c.allowed)
      /\ Config!IsInjective(c.relayAllowed) => Cardinality(Range(c.relayAllowed)) = Len(c.relayAllowed)
  BY <1>2, PoolCounts
<1>6. Config!ApprovalOk(c, st)
  <2>1. st \in Config!Range(c.steps)
    BY DEF Config!Range
  <2> QED BY <1>1, <2>1 DEF Config!StepsOk
<1>7. /\ st.channel = "relay" => c.relay
      /\ st.quorum <= Len(IF st.channel = "relay" THEN c.relayAllowed ELSE c.allowed)
      /\ st.approvers # <<>> =>
            Range(st.approvers) \subseteq Range(c.allowed) /\ Cardinality(Range(st.approvers)) >= Config!Need(st)
  BY <1>2, <1>3, <1>6 DEF Config!ApprovalOk, Config!ApproversOk, Config!Pool
<1>8. CASE ~c.relay
  <2>1. st.channel = "telegram"
    BY <1>8 DEF Config!Running
  <2>2. Config!Deciders(c, st) =
            {u \in Range(c.allowed) : st.approvers = <<>> \/ u \in Range(st.approvers)}
    BY <1>2, <1>8 DEF Config!Deciders, Config!Running
  <2>0. IsFiniteSet(Config!Deciders(c, st))
    BY <1>4, <2>2, FS_Subset
  <2>3. CASE st.approvers = <<>>
    <3>1. Config!Deciders(c, st) = Range(c.allowed)
      BY <2>2, <2>3
    <3>2. Len(c.allowed) \in Nat /\ Len(c.allowed) >= st.quorum
      BY <1>2, <1>7, <2>1
    <3>3. CASE Config!IsInjective(c.allowed)
      BY <1>2, <1>4, <2>0, <3>1, <3>2, <3>3 DEF Enough, Config!Need
    <3>4. CASE ~Config!IsInjective(c.allowed)
      BY <2>0, <2>1, <2>3, <3>4 DEF Config!PeopleOverlooked, Config!Pool
    <3> QED BY <3>3, <3>4
  <2>4. CASE st.approvers # <<>>
    <3>1. Config!Deciders(c, st) = Range(st.approvers)
      BY <1>7, <2>2, <2>4
    <3> QED BY <1>7, <2>0, <2>4, <3>1 DEF Enough
  <2> QED BY <2>0, <2>3, <2>4
<1>9. CASE c.relay
  <2>1. st.channel = "relay"
    BY <1>9 DEF Config!Running
  <2>2. Config!Deciders(c, st) = UNION {Config!IdentityFor(c, u) : u \in Range(Q)}
    BY <1>2, <1>9 DEF Config!Deciders, Config!Running
  <2>3. IsFiniteSet(Range(Q))
    BY <1>4, <1>7, FS_Subset
  <2>4. IsFiniteSet(Config!Deciders(c, st))
    BY <1>1, <2>2, IdentitiesAreFinite
  <2>5. CASE \A u \in Range(Q) : Config!IdentityFor(c, u) # {}
    <3>1. Cardinality(Config!Deciders(c, st)) = Cardinality(Range(Q))
      <4>1. PICK P : P = Range(Q)
        OBVIOUS
      <4>2. Cardinality(UNION {Config!IdentityFor(c, u) : u \in P}) = Cardinality(P)
        <5>1. IsConfig(c) /\ c.relay /\ Config!RelayOk(c) /\ IsFiniteSet(P)
              /\ \A u \in P : Config!IdentityFor(c, u) # {}
          BY <1>1, <1>9, <2>3, <2>5, <4>1
        <5> HIDE DEF Q, st
        <5> QED BY <5>1, OneIdentityEach
      <4> QED BY <2>2, <4>1, <4>2
    <3>2. CASE st.approvers = <<>>
      <4>1. Len(c.relayAllowed) >= st.quorum
        BY <1>7, <2>1
      <4>2. Len(c.relayAllowed) > 0 /\ Len(c.relayAllowed) \in Nat
        BY <1>1, <1>2, <1>9 DEF Config!RelayOk
      <4>3. Cardinality(Config!Deciders(c, st)) = Cardinality(Range(c.relayAllowed))
        BY <3>1, <3>2
      <4>4. CASE Config!IsInjective(c.relayAllowed)
        <5>1. Cardinality(Config!Deciders(c, st)) = Len(c.relayAllowed)
          BY <1>4, <4>3, <4>4
        <5>2. Len(c.relayAllowed) >= Config!Need(st)
          BY <1>2, <4>1, <4>2 DEF Config!Need
        <5> QED BY <2>4, <5>1, <5>2 DEF Enough
      <4>5. CASE ~Config!IsInjective(c.relayAllowed)
        BY <2>1, <2>4, <3>2, <4>5 DEF Config!PeopleOverlooked, Config!Pool
      <4> QED BY <4>4, <4>5
    <3>3. CASE st.approvers # <<>>
      <4>1. Cardinality(Config!Deciders(c, st)) = Cardinality(Range(st.approvers))
        BY <3>1, <3>3
      <4> QED BY <1>7, <2>4, <3>3, <4>1 DEF Enough
    <3> QED BY <3>2, <3>3
  <2>6. CASE ~\A u \in Range(Q) : Config!IdentityFor(c, u) # {}
    <3>1. st.approvers # <<>>
      BY <1>1, <1>2, <1>9, <2>6 DEF Config!RelayOk
    <3>2. \E u \in Range(st.approvers) : Config!IdentityFor(c, u) = {}
      BY <2>6, <3>1
    <3>3. Config!Range(st.approvers) = Range(st.approvers)
      BY <1>2
    <3> HIDE DEF Q
    <3> QED BY <2>1, <2>4, <3>1, <3>2, <3>3 DEF Config!PeopleOverlooked
  <2> QED BY <2>4, <2>5, <2>6
<1> QED BY <1>2, <1>8, <1>9

\* What a reload builds has the operators of the boot and the steps of the file.
LEMMA ReloadBuilds ==
    ASSUME NEW c, IsConfig(c), NEW f \in ConfigFiles
    PROVE  IsConfig([c EXCEPT !.roles = f.roles, !.models = f.models, !.steps = f.steps])
<1> DEFINE n == [c EXCEPT !.roles = f.roles, !.models = f.models, !.steps = f.steps]
<1>1. /\ DOMAIN n = DOMAIN c /\ n.relay = c.relay /\ n.allowed = c.allowed
      /\ n.relayAllowed = c.relayAllowed /\ n.operators = c.operators /\ n.steps = f.steps
  BY DEF IsConfig
<1> QED BY <1>1 DEF IsConfig

\* A file is a configuration.
LEMMA FileIsConfig ==
    ASSUME Config!ConfigAssumption, NEW f \in ConfigFiles
    PROVE  IsConfig(f)
  BY DEF Config!ConfigAssumption, IsConfig

\* A run that a step leaves alone is as good as it was.
LEMMA RunStays ==
    ASSUME NEW q \in RunStarts, RunOK(q), run'[q] = run[q]
    PROVE  RunOK(q)'
<1>1. Config!Step(q)' = Config!Step(q)
  BY DEF Config!Step
<1> QED BY <1>1 DEF RunOK, Explained

\* A run at rest.
LEMMA RestingRun ==
    ASSUME NEW q \in RunStarts, \/ run'[q] = Config!Idle
                             \/ run'[q] = [Config!Idle EXCEPT !.pc = "over"]
    PROVE  RunOK(q)'
<1>1. /\ DOMAIN run'[q] = {"pc", "config", "skills", "checked", "step", "why"}
      /\ run'[q].pc \in {"idle", "over"} /\ run'[q].why = "none" /\ run'[q].step = 1
  BY DEF Config!Idle
<1> QED BY <1>1 DEF RunOK, InProgress, Explained

\* Edits, the boot and the reload: what they leave to the runs is what they had.
LEMMA ForceSteps ==
    ASSUME Config!ConfigAssumption, ReloadInv,
           \/ Config!Edit \/ Config!BootRead \/ Config!BootCheck \/ Config!ReloadRead
           \/ Config!ReloadCheck \/ Config!ReloadLoad \/ Config!StoreConfig \/ Config!StoreSkills
    PROVE  ReloadInv'
<1>1. ForceOK
  BY DEF ReloadInv
<1>2. UNCHANGED run
  BY DEF Config!Edit, Config!BootRead, Config!BootCheck, Config!ReloadRead,
         Config!ReloadCheck, Config!ReloadLoad, Config!StoreConfig, Config!StoreSkills
<1>3. DOMAIN run' = RunStarts /\ \A q \in RunStarts : RunOK(q)'
  BY <1>2, RunStays DEF ReloadInv
<1> SUFFICES ForceOK'
  BY <1>3 DEF ReloadInv
<1>4. CASE Config!Edit
  BY <1>1, <1>4 DEF Config!Edit, ForceOK
<1>5. CASE Config!BootRead
  <2>1. IsConfig(file)
    BY <1>1, FileIsConfig DEF ForceOK
  <2>2. next'.config = file /\ DOMAIN next' = Snapshot /\ process' = "booting" /\ reload' = "none"
    BY <1>1, <1>5 DEF Config!BootRead, ForceOK, Snapshot
  <2> QED BY <1>1, <1>5, <2>1, <2>2 DEF Config!BootRead, ForceOK
<1>6. CASE Config!BootCheck
  <2>1. DOMAIN next' = Snapshot /\ reload' = "none" /\ process' \in {"up", "down"}
    BY <1>1, <1>6 DEF Config!BootCheck, Config!Nothing, ForceOK, Snapshot
  <2>2. CASE Config!Accepted(next.config, dir)
    <3>1. inForce' = [next EXCEPT !.checked = dir]
      BY <1>6, <2>2 DEF Config!BootCheck
    <3>2. DOMAIN inForce' = Snapshot /\ inForce'.config = next.config /\ inForce'.checked = dir
      BY <1>1, <3>1 DEF ForceOK, Snapshot
    <3>3. Checked(inForce'.config, inForce'.checked)
      BY <1>1, <1>6, <2>2, <3>2 DEF Checked, ForceOK, Config!BootCheck
    <3> QED BY <1>1, <1>6, <2>1, <3>2, <3>3 DEF ForceOK, Config!BootCheck
  <2>3. CASE ~Config!Accepted(next.config, dir)
    BY <1>1, <1>6, <2>1, <2>3 DEF ForceOK, Config!BootCheck
  <2> QED BY <2>2, <2>3
<1>7. CASE Config!ReloadRead
  <2>1. IsConfig(inForce.config) /\ file \in ConfigFiles /\ process = "up"
    BY <1>1, <1>7 DEF ForceOK, Checked, Config!ReloadRead
  <2>2. /\ next'.config = [inForce.config EXCEPT !.roles = file.roles, !.models = file.models,
                                                  !.steps = file.steps]
        /\ DOMAIN next' = Snapshot
    BY <1>7 DEF Config!ReloadRead, Snapshot
  <2>3. IsConfig(next'.config)
    <3>1. \A c, f : IsConfig(c) /\ f \in ConfigFiles =>
              IsConfig([c EXCEPT !.roles = f.roles, !.models = f.models, !.steps = f.steps])
      BY ReloadBuilds
    <3>2. IsConfig([inForce.config EXCEPT !.roles = file.roles, !.models = file.models,
                                           !.steps = file.steps])
      BY <2>1, <3>1, Zenon
    <3> QED BY <2>2, <3>2, Zenon
  <2> QED BY <1>1, <1>7, <2>1, <2>2, <2>3 DEF ForceOK, Config!ReloadRead
<1>8. CASE Config!ReloadCheck
  <2>1. process = "up" /\ IsConfig(next.config)
    BY <1>1, <1>8 DEF ForceOK, Config!ReloadCheck
  <2>2. CASE Config!Accepted(next.config, dir)
    <3>1. next' = [next EXCEPT !.checked = dir] /\ reload' = "load"
      BY <1>8, <2>2 DEF Config!ReloadCheck
    <3>2. DOMAIN next' = Snapshot /\ next'.config = next.config /\ next'.checked = dir
      BY <1>1, <3>1 DEF ForceOK, Snapshot
    <3>3. Checked(next'.config, next'.checked)
      BY <1>1, <2>1, <2>2, <3>2 DEF Checked, ForceOK
    <3> QED BY <1>1, <1>8, <2>1, <3>1, <3>2, <3>3 DEF ForceOK, Config!ReloadCheck
  <2>3. CASE ~Config!Accepted(next.config, dir)
    <3>1. DOMAIN next' = Snapshot /\ reload' = "none"
      BY <1>8, <2>3 DEF Config!ReloadCheck, Config!Nothing, Snapshot
    <3> QED BY <1>1, <1>8, <2>1, <3>1 DEF ForceOK, Config!ReloadCheck
  <2> QED BY <2>2, <2>3
<1>9. CASE Config!ReloadLoad
  <2>1. /\ DOMAIN next' = Snapshot /\ next'.config = next.config /\ next'.checked = next.checked
        /\ reload = "load" /\ reload' = "config"
    BY <1>1, <1>9 DEF ForceOK, Snapshot, Config!ReloadLoad
  <2> QED BY <1>1, <1>9, <2>1 DEF ForceOK, Checked, Config!ReloadLoad
<1>10. CASE Config!StoreConfig
  <2>1. /\ DOMAIN inForce' = Snapshot /\ inForce'.config = next.config /\ inForce'.checked = next.checked
        /\ reload = "config" /\ reload' = "skills"
    BY <1>1, <1>10 DEF ForceOK, Snapshot, Config!StoreConfig
  <2> QED BY <1>1, <1>10, <2>1 DEF ForceOK, Config!StoreConfig
<1>11. CASE Config!StoreSkills
  <2>1. /\ DOMAIN inForce' = Snapshot /\ inForce'.config = inForce.config
        /\ inForce'.checked = inForce.checked /\ DOMAIN next' = Snapshot
        /\ reload = "skills" /\ reload' = "none"
    BY <1>1, <1>11 DEF ForceOK, Snapshot, Config!StoreSkills, Config!Nothing
  <2> QED BY <1>1, <1>11, <2>1 DEF ForceOK, Config!StoreSkills
<1> QED BY <1>4, <1>5, <1>6, <1>7, <1>8, <1>9, <1>10, <1>11

\* The process ends, and its runs with it.
LEMMA StopSteps == ASSUME ReloadInv, Config!Stop PROVE ReloadInv'
<1>1. \A q \in RunStarts : run'[q] = Config!Idle \/ run'[q] = [Config!Idle EXCEPT !.pc = "over"]
  BY DEF Config!Stop
<1>2. DOMAIN run' = RunStarts /\ \A q \in RunStarts : RunOK(q)'
  BY <1>1, RestingRun DEF Config!Stop
<1>3. ForceOK'
  <2>1. DOMAIN inForce' = Snapshot /\ DOMAIN next' = Snapshot /\ process' = "down" /\ reload' = "none"
    BY DEF Config!Stop, Config!Nothing, Snapshot
  <2> QED BY <2>1 DEF ReloadInv, ForceOK, Config!Stop
<1> QED BY <1>2, <1>3 DEF ReloadInv

\* A run reads what is in force: the configuration, then the skills, or both.
LEMMA ReadSteps ==
    ASSUME Config!ConfigAssumption, ReloadInv, NEW q \in RunStarts,
           Config!ReadConfig(q) \/ Config!ReadSkills(q) \/ Config!Claim(q), UNCHANGED <<process, inForce>>
    PROVE  RunOK(q)' /\ DOMAIN run' = RunStarts /\ \A o \in RunStarts : o # q => run'[o] = run[o]
<1>1. RunOK(q) /\ ForceOK /\ DOMAIN run = RunStarts
  BY DEF ReloadInv
<1>2. DOMAIN run' = RunStarts /\ \A o \in RunStarts : o # q => run'[o] = run[o]
  BY <1>1 DEF Config!ReadConfig, Config!ReadSkills, Config!Claim
<1>3. ASSUME process = "up"
      PROVE  Checked(inForce.config, inForce.checked) /\ 1 \in DOMAIN inForce.config.steps
  <2>1. Checked(inForce.config, inForce.checked)
    BY <1>1, <1>3 DEF ForceOK
  <2>2. inForce.config.steps \in Seq(Range(inForce.config.steps)) /\ inForce.config.steps # <<>>
    BY <2>1, ConfigTypes DEF Checked, Config!Accepted, Config!StepsOk
  <2> QED BY <2>1, <2>2
<1>4. CASE Config!ReadConfig(q)
  <2>1. /\ DOMAIN run'[q] = DOMAIN run[q] /\ run'[q].pc = "skills" /\ run'[q].config = inForce.config
        /\ run'[q].checked = inForce.checked /\ run'[q].step = run[q].step /\ run'[q].why = run[q].why
    BY <1>1, <1>4 DEF Config!ReadConfig, RunOK
  <2>2. run[q].pc = "idle" /\ run[q].step = 1 /\ run[q].why = "none" /\ process = "up"
    BY <1>1, <1>4 DEF Config!ReadConfig, RunOK
  <2> QED BY <1>1, <1>2, <1>3, <2>1, <2>2 DEF RunOK, InProgress, Explained
<1>5. CASE Config!ReadSkills(q)
  <2>1. /\ DOMAIN run'[q] = DOMAIN run[q] /\ run'[q].pc = "running" /\ run'[q].config = run[q].config
        /\ run'[q].checked = run[q].checked /\ run'[q].step = run[q].step /\ run'[q].why = run[q].why
    BY <1>1, <1>5 DEF Config!ReadSkills, RunOK
  <2>2. run[q].pc = "skills" /\ run[q].why = "none"
    BY <1>1, <1>5 DEF Config!ReadSkills, RunOK
  <2> QED BY <1>1, <1>2, <2>1, <2>2 DEF RunOK, InProgress, Explained
<1>6. CASE Config!Claim(q)
  <2>1. run'[q] = [pc |-> "running", config |-> inForce.config, skills |-> inForce.skills,
                   checked |-> inForce.checked, step |-> 1, why |-> "none"]
    BY <1>1, <1>6 DEF Config!Claim
  <2>2. process = "up"
    BY <1>6 DEF Config!Claim
  <2> QED BY <1>2, <1>3, <2>1, <2>2 DEF RunOK, InProgress, Explained
<1> QED BY <1>4, <1>5, <1>6

\* A run ends with an error, or goes on behind its step.
LEMMA RunMoves ==
    ASSUME Config!ConfigAssumption, ReloadInv, NEW q \in RunStarts, run[q].pc \in {"running", "asking"},
           \/ Config!Onward(q) \/ Config!End(q)
           \/ \E why : Config!Fail(q, why) /\ Explained(q, why)
    PROVE  RunOK(q)' /\ DOMAIN run' = RunStarts /\ \A o \in RunStarts : o # q => run'[o] = run[o]
<1>1. RunOK(q) /\ DOMAIN run = RunStarts /\ Checked(run[q].config, run[q].checked)
      /\ run[q].step \in DOMAIN run[q].config.steps /\ run[q].why = "none"
  BY DEF ReloadInv, RunOK, InProgress
<1>2. DOMAIN run' = RunStarts /\ \A o \in RunStarts : o # q => run'[o] = run[o]
  BY <1>1 DEF Config!Onward, Config!End, Config!Fail
<1>3. CASE Config!End(q)
  <2>1. run'[q] = [Config!Idle EXCEPT !.pc = "over"]
    BY <1>1, <1>3 DEF Config!End
  <2> QED BY <1>2, <2>1, RestingRun
<1>4. ASSUME NEW why, Config!Fail(q, why), Explained(q, why)
      PROVE  RunOK(q)'
  <2>1. /\ DOMAIN run'[q] = DOMAIN run[q] /\ run'[q].pc = "over" /\ run'[q].why = why
        /\ run'[q].skills = run[q].skills /\ run'[q].checked = run[q].checked
        /\ run'[q].config = run[q].config /\ run'[q].step = run[q].step
    BY <1>1, <1>4 DEF RunOK, Config!Fail
  <2>2. Config!Step(q)' = Config!Step(q)
    BY <2>1 DEF Config!Step
  <2>3. Explained(q, run[q].why)'
    BY <1>4, <2>1, <2>2 DEF Explained
  <2> QED BY <1>1, <2>1, <2>3 DEF RunOK, InProgress
<1>5. CASE Config!Onward(q)
  <2>1. CASE run[q].step = Len(run[q].config.steps)
    BY <1>3, <1>5, <2>1 DEF Config!Onward
  <2>2. CASE run[q].step # Len(run[q].config.steps)
    <3>1. /\ DOMAIN run'[q] = DOMAIN run[q] /\ run'[q].why = run[q].why
          /\ run'[q].config = run[q].config /\ run'[q].checked = run[q].checked
          /\ run'[q].step = run[q].step + 1 /\ run'[q].pc = "running"
      BY <1>1, <1>5, <2>2 DEF RunOK, Config!Onward
    <3>2. run[q].config.steps \in Seq(Range(run[q].config.steps))
      BY <1>1, ConfigTypes DEF Checked
    <3>3. run'[q].step \in DOMAIN run'[q].config.steps
      BY <1>1, <2>2, <3>1, <3>2
    <3>4. Explained(q, run[q].why)'
      BY <1>1, <3>1 DEF Explained
    <3> QED BY <1>1, <1>2, <3>1, <3>3, <3>4 DEF RunOK, InProgress
  <2> QED BY <2>1, <2>2
<1> QED BY <1>2, <1>3, <1>4, <1>5

\* The ai step fails only if the run's skills are not the ones that were checked,
\* or its role was overlooked.
LEMMA AISteps ==
    ASSUME Config!ConfigAssumption, ReloadInv, NEW q \in RunStarts, Config!RunAI(q)
    PROVE  RunOK(q)' /\ DOMAIN run' = RunStarts /\ \A o \in RunStarts : o # q => run'[o] = run[o]
<1> DEFINE c == run[q].config
           st == c.steps[run[q].step]
           reg == run[q].skills
           role == Config!RoleUsed(reg, st)
<1>1. run[q].pc = "running" /\ st.type = "ai" /\ Checked(c, run[q].checked)
      /\ run[q].step \in DOMAIN c.steps
  BY Zenon DEF ReloadInv, RunOK, InProgress, Config!RunAI, Config!Step
<1>2. ASSUME reg = Config!Registry(run[q].checked)
      PROVE  /\ st.skill # NoSkill => st.skill \in DOMAIN reg
             /\ role \in DOMAIN c.roles => c.roles[role] \in c.models
             /\ Config!RoleOverlooked(reg, st) \/ role \in DOMAIN c.roles
  BY <1>1, <1>2, StepResolves
<1>3. \/ Config!Onward(q)
      \/ Config!Fail(q, "unknown skill") /\ st.skill # NoSkill /\ st.skill \notin DOMAIN reg
      \/ Config!Fail(q, "unknown role") /\ role \notin DOMAIN c.roles
      \/ Config!Fail(q, "unknown model") /\ role \in DOMAIN c.roles /\ c.roles[role] \notin c.models
  BY Zenon DEF Config!RunAI, Config!Step
<1>4. st = Config!Step(q)
  BY DEF Config!Step
<1> HIDE DEF role
<1>5. CASE Config!Fail(q, "unknown skill") /\ st.skill # NoSkill /\ st.skill \notin DOMAIN reg
  <2>1. Explained(q, "unknown skill")
    BY <1>2, <1>5 DEF Explained
  <2> QED BY <1>1, <1>5, <2>1, RunMoves
<1>6. CASE Config!Fail(q, "unknown role") /\ role \notin DOMAIN c.roles
  <2>1. Explained(q, "unknown role")
    BY <1>2, <1>4, <1>6 DEF Explained
  <2> QED BY <1>1, <1>6, <2>1, RunMoves
<1>7. CASE Config!Fail(q, "unknown model") /\ role \in DOMAIN c.roles /\ c.roles[role] \notin c.models
  <2>1. Explained(q, "unknown model")
    BY <1>2, <1>7 DEF Explained
  <2> QED BY <1>1, <1>7, <2>1, RunMoves
<1>8. CASE Config!Onward(q)
  BY <1>1, <1>8, RunMoves
<1> QED BY <1>3, <1>5, <1>6, <1>7, <1>8

\* The approval step asks enough people, or people were overlooked.
LEMMA ApprovalSteps ==
    ASSUME Config!ConfigAssumption, ReloadInv, NEW q \in RunStarts, Config!RunApproval(q)
    PROVE  RunOK(q)' /\ DOMAIN run' = RunStarts /\ \A o \in RunStarts : o # q => run'[o] = run[o]
<1> DEFINE c == run[q].config
           st == c.steps[run[q].step]
<1>1. run[q].pc = "running" /\ st.type = "approval" /\ Checked(c, run[q].checked)
      /\ run[q].step \in DOMAIN c.steps /\ RunOK(q) /\ DOMAIN run = RunStarts
  BY DEF ReloadInv, RunOK, InProgress, Config!RunApproval, Config!Step
<1>0. st = Config!Step(q)
  BY DEF Config!Step
<1>t. c.relay \in BOOLEAN /\ st.quorum \in Int
  BY <1>1, ConfigTypes DEF Checked
<1>2. CASE st.channel # Config!Running(c)
  <2>1. Config!Fail(q, "channel")
    BY <1>2 DEF Config!RunApproval, Config!Step
  <2>2. Config!ApprovalOk(c, st)
    <3>1. st \in Config!Range(c.steps)
      BY <1>1 DEF Config!Range
    <3> QED BY <1>1, <3>1 DEF Checked, Config!Accepted, Config!StepsOk
  <2>3. c.relay /\ st.channel = "telegram"
    BY <1>2, <1>t, <2>2 DEF Config!ApprovalOk, Config!Running
  <2>4. Explained(q, "channel")
    BY <1>0, <2>3 DEF Explained
  <2> QED BY <1>1, <2>1, <2>4, RunMoves
<1>3. CASE st.channel = Config!Running(c)
  <2>1. /\ Enough(c, st) \/ Config!PeopleOverlooked(c, st)
        /\ Cardinality(Config!Deciders(c, st)) \in Nat
    BY <1>1, <1>3, PeopleSuffice, FS_CardinalityType
  <2>2. \A S_ : Config!Cardinality(S_) = Cardinality(S_)
    BY DEF Config!Cardinality, Cardinality
  <2>3. Config!Need(st) \in Int
    BY <1>t DEF Config!Need
  <2>4. CASE c.relay /\ Cardinality(Config!Deciders(c, st)) < Config!Need(st)
    <3>1. Config!Fail(q, "unsatisfiable")
      BY <1>3, <2>2, <2>4 DEF Config!RunApproval, Config!Step
    <3>2. Config!PeopleOverlooked(c, st)
      BY <2>1, <2>3, <2>4 DEF Enough
    <3>3. Explained(q, "unsatisfiable")
      BY <1>0, <3>2 DEF Explained
    <3> QED BY <1>1, <3>1, <3>3, RunMoves
  <2>5. CASE ~(c.relay /\ Cardinality(Config!Deciders(c, st)) < Config!Need(st))
    <3>1. run' = [run EXCEPT ![q].pc = "asking"]
      BY <1>3, <2>2, <2>5 DEF Config!RunApproval, Config!Step
    <3>2. /\ DOMAIN run' = RunStarts /\ \A o \in RunStarts : o # q => run'[o] = run[o]
          /\ DOMAIN run'[q] = DOMAIN run[q] /\ run'[q].pc = "asking" /\ run'[q].config = run[q].config
          /\ run'[q].checked = run[q].checked /\ run'[q].step = run[q].step /\ run'[q].why = run[q].why
      BY <1>1, <3>1 DEF RunOK
    <3>3. Decidable(c, st)
      BY <1>t, <2>1, <2>3, <2>5 DEF Decidable, Enough
    <3>4. run[q].why = "none" /\ Decidable(run'[q].config, Config!Step(q)')
      BY <1>1, <3>2, <3>3 DEF RunOK, Config!Step
    <3> QED BY <1>1, <3>2, <3>4 DEF RunOK, InProgress, Explained
  <2> QED BY <2>4, <2>5
<1> QED BY <1>2, <1>3

\* Every step keeps the invariant.
LEMMA ReloadInvStep ==
    ASSUME Config!ConfigAssumption, ReloadInv, [Config!Next]_(Config!vars)
    PROVE  ReloadInv'
<1>1. ASSUME NEW q \in RunStarts, Config!RunNext(q)
      PROVE  ReloadInv'
  <2>1. UNCHANGED <<file, dir, process, inForce, next, reload>>
    BY <1>1 DEF Config!RunNext
  <2>2. RunOK(q)' /\ DOMAIN run' = RunStarts /\ \A o \in RunStarts : o # q => run'[o] = run[o]
    <3>1. Config!Decided(q) => run[q].pc = "asking" /\ (Config!Onward(q) \/ Config!End(q))
      BY DEF Config!Decided
    <3> QED BY <1>1, <2>1, <3>1, ReadSteps, AISteps, ApprovalSteps, RunMoves DEF Config!RunNext
  <2>3. \A o \in RunStarts : RunOK(o)'
    BY <2>2, RunStays DEF ReloadInv
  <2> QED BY <2>1, <2>2, <2>3 DEF ReloadInv, ForceOK
<1>2. CASE UNCHANGED Config!vars
  <2>1. UNCHANGED <<file, dir, process, inForce, next, reload, run>>
    BY <1>2 DEF Config!vars
  <2>2. DOMAIN run' = RunStarts /\ \A o \in RunStarts : RunOK(o)'
    BY <2>1, RunStays DEF ReloadInv
  <2> QED BY <2>1, <2>2 DEF ReloadInv, ForceOK
<1> QED BY <1>1, <1>2, ForceSteps, StopSteps DEF Config!Next

\* Nothing is in force before the first boot.
LEMMA ReloadInvInit == ASSUME Config!Init PROVE ReloadInv
<1>1. ForceOK
  BY DEF Config!Init, Config!Nothing, ForceOK, Snapshot
<1>2. DOMAIN run = RunStarts /\ \A q \in RunStarts : run[q] = Config!Idle
  BY DEF Config!Init
<1>3. ASSUME NEW q \in RunStarts PROVE RunOK(q)
  <2>1. /\ DOMAIN run[q] = {"pc", "config", "skills", "checked", "step", "why"}
        /\ run[q].pc = "idle" /\ run[q].why = "none" /\ run[q].step = 1
    BY <1>2 DEF Config!Idle
  <2>2. Explained(q, run[q].why)
    BY <2>1 DEF Explained
  <2> QED BY <2>1, <2>2 DEF RunOK, InProgress
<1> QED BY <1>1, <1>2, <1>3 DEF ReloadInv

\* Of every set of files and skills directories: what runs was checked as it
\* runs; a run of it that has the skills that were checked finds its skills and
\* models, and ends at a role, or at a gate with too few people, only if the
\* checks passed over that role or those people; and its gates have the people
\* they need unless Telegram's were counted twice (validate.go CheckAtStartup,
\* config_reload.go, runPipeline).
THEOREM AcceptedRuns ==
    ASSUME Config!ConfigAssumption
    PROVE  Config!Spec =>
               [](/\ Config!LiveWasAccepted /\ Config!AcceptedRunsResolve
                    /\ Config!GatesCanBeDecided /\ AcceptedRunsResolve)
<1>1. Config!Init => ReloadInv
  BY ReloadInvInit
<1>2. ReloadInv /\ [Config!Next]_(Config!vars) => ReloadInv'
  BY ReloadInvStep
<1>3. ReloadInv => Config!LiveWasAccepted /\ Config!AcceptedRunsResolve /\ Config!GatesCanBeDecided
  <2> SUFFICES ASSUME ReloadInv
               PROVE  Config!LiveWasAccepted /\ Config!AcceptedRunsResolve /\ Config!GatesCanBeDecided
    OBVIOUS
  <2>1. Config!LiveWasAccepted
    BY DEF ReloadInv, ForceOK, Checked, Config!LiveWasAccepted
  <2>2. Config!AcceptedRunsResolve
    BY DEF ReloadInv, RunOK, Explained, Config!AcceptedRunsResolve
  <2>3. Config!GatesCanBeDecided
    <3>1. \A S_ : Config!Cardinality(S_) = Cardinality(S_)
      BY DEF Config!Cardinality, Cardinality
    <3> QED BY <3>1 DEF ReloadInv, RunOK, Decidable, Enough, Config!GatesCanBeDecided
  <2> QED BY <2>1, <2>2, <2>3
<1>4. Config!AcceptedRunsResolve /\ Config!GatesCanBeDecided => AcceptedRunsResolve
  BY DEF AcceptedRunsResolve
<1> QED BY <1>1, <1>2, <1>3, <1>4, PTL DEF Config!Spec

-----------------------------------------------------------------------------
InFile(l, f) == \E i \in DOMAIN f : f[i] = l
InChannel(l, m) == \E i \in DOMAIN m : m[i].anchor = l
Warned(w, m) == \E i \in DOMAIN m : m[i].warns = w
Extends(a, had) == \A l \in had : Anchor!Reaches(a, l)

\* What the job keeps of the past is where it says; and of the anchor last sent
\* the operator knows whether its history had the anchor before.
Kept(copy, f, m) ==
    /\ \A l \in copy.fileLink \ {<<>>} : InFile(l, f)
    /\ \A l \in copy.link \ {<<>>} : InFile(l, f) /\ InChannel(l, m)
    /\ \A l \in copy.notifyLink \ {<<>>} : InChannel(l, m)
    /\ \A l \in copy.notifyLink : Extends(l, copy.link) \/ Warned(copy.link, m)
    /\ copy.link \subseteq {<<>>} \/ copy.notifyLink # {}

Copies == [link : SUBSET Anchor!Link, fileLink : SUBSET Anchor!Link, notifyLink : SUBSET Anchor!Link]

\* How far the anchor of a tick has got.
TickInv ==
    /\ Kept(anchorState, anchorFile, messages) /\ Kept(jobState, anchorFile, messages)
    /\ jobStep # "idle" => extends = Extends(placing, jobState.link)
    /\ jobStep \in {"save", "notify", "slot"} /\ placing # <<>> => InFile(placing, anchorFile)
    /\ jobStep = "slot" =>
          Anchor!Unchanged(jobState.notifyLink) /\ (extends \/ Warned(jobState.link, messages))
    /\ Anchor!RewriteIsTold

\* A history names a receipt once.
Once(h) == \A i, j \in DOMAIN h : h[i][1] = h[j][1] => i = j
History(h) == h \in Seq(Anchor!Receipt) /\ Len(h) <= MaxRows /\ Once(h)

HistoryInv ==
    /\ History(chain) /\ History(placing)
    /\ anchorFile \in Seq(Anchor!Link \cup {Torn}) /\ messages \in Seq([anchor : Anchor!Link, warns : SUBSET Anchor!Link])
    /\ \A i \in DOMAIN anchorFile : anchorFile[i] = Torn \/ History(anchorFile[i])
    /\ anchorState \in Copies /\ jobState \in Copies
    /\ jobStep \in {"idle", "file", "save", "notify", "slot"}
-----------------------------------------------------------------------------
\* A link is a sequence of receipts, of the length of a history.
LEMMA LinkIs ==
    ASSUME Anchor!AnchorsAssumption
    PROVE  \A l : l \in Anchor!Link <=> l \in Seq(Anchor!Receipt) /\ Len(l) <= MaxRows
<1>1. MaxRows \in Nat
  BY DEF Anchor!AnchorsAssumption
<1>2. ASSUME NEW l, l \in Anchor!Link PROVE l \in Seq(Anchor!Receipt) /\ Len(l) <= MaxRows
  <2>1. PICK n \in 0 .. MaxRows : l \in [1 .. n -> Anchor!Receipt]
    BY <1>2 DEF Anchor!Link
  <2> QED BY <1>1, <2>1
<1>3. ASSUME NEW l, l \in Seq(Anchor!Receipt), Len(l) <= MaxRows PROVE l \in Anchor!Link
  <2>1. Len(l) \in 0 .. MaxRows /\ l \in [1 .. Len(l) -> Anchor!Receipt]
    BY <1>1, <1>3
  <2> QED BY <2>1 DEF Anchor!Link
<1> QED BY <1>2, <1>3

\* A receipt appended ...
LEMMA HistoryAppends ==
    ASSUME NEW h, History(h), NEW i \in Ids \ Anchor!IdsOf(h), Len(h) < MaxRows, MaxRows \in Nat
    PROVE  History(Append(h, <<i, 1>>))
<1> DEFINE g == Append(h, <<i, 1>>)
<1>1. <<i, 1>> \in Anchor!Receipt
  BY DEF Anchor!Receipt
<1>2. h \in Seq(Anchor!Receipt) /\ Len(h) \in Nat /\ DOMAIN h = 1 .. Len(h)
  BY DEF History
<1>3. g \in Seq(Anchor!Receipt) /\ Len(g) = Len(h) + 1 /\ DOMAIN g = 1 .. Len(h) + 1
  BY <1>1, <1>2
<1>4. \A k \in 1 .. Len(h) : g[k] = h[k] /\ h[k][1] # i
  BY <1>2 DEF Anchor!IdsOf
<1>5. g[Len(h) + 1] = <<i, 1>>
  BY <1>2
<1>6. \A k \in DOMAIN g : k = Len(h) + 1 \/ k \in 1 .. Len(h)
  BY <1>2, <1>3
<1> HIDE DEF g
<1>7. Once(g)
  <2> SUFFICES ASSUME NEW k \in DOMAIN g, NEW j \in DOMAIN g, g[k][1] = g[j][1] PROVE k = j
    BY DEF Once
  <2>1. CASE k \in 1 .. Len(h) /\ j \in 1 .. Len(h)
    BY <1>2, <1>4, <2>1 DEF History, Once
  <2>2. CASE k = Len(h) + 1 /\ j \in 1 .. Len(h)
    BY <1>4, <1>5, <2>2
  <2>3. CASE j = Len(h) + 1 /\ k \in 1 .. Len(h)
    BY <1>4, <1>5, <2>3
  <2> QED BY <1>6, <2>1, <2>2, <2>3
<1>8. History(g)
  BY <1>2, <1>3, <1>7 DEF History
<1> QED BY <1>8 DEF g

\* ... changed ...
LEMMA HistoryChanges ==
    ASSUME NEW h, History(h), NEW p \in DOMAIN h
    PROVE  History([h EXCEPT ![p][2] = 3 - @])
<1> DEFINE g == [h EXCEPT ![p][2] = 3 - @]
<1>1. h \in Seq(Anchor!Receipt) /\ Len(h) \in Nat /\ DOMAIN h = 1 .. Len(h)
  BY DEF History
<1>2. \A k \in DOMAIN h : h[k] \in Ids \X {1, 2}
  BY <1>1 DEF Anchor!Receipt
<1>3. DOMAIN g = DOMAIN h /\ \A k \in DOMAIN h : g[k] = IF k = p THEN [h[p] EXCEPT ![2] = 3 - @] ELSE h[k]
  BY <1>1
<1>4. [h[p] EXCEPT ![2] = 3 - @] = <<h[p][1], 3 - h[p][2]>>
  <2>1. PICK a \in Ids, b \in {1, 2} : h[p] = <<a, b>>
    BY <1>2
  <2> QED BY <2>1
<1>5. \A k \in DOMAIN h : g[k] \in Anchor!Receipt /\ g[k][1] = h[k][1]
  BY <1>2, <1>3, <1>4 DEF Anchor!Receipt
<1> HIDE DEF g
<1>6. g \in Seq(Anchor!Receipt) /\ Len(g) = Len(h)
  <2>1. g = [k \in DOMAIN h |-> g[k]]
    BY <1>3 DEF g
  <2> QED BY <1>1, <1>3, <1>5, <2>1
<1>7. Once(g)
  BY <1>3, <1>5 DEF History, Once
<1>8. History(g)
  BY <1>6, <1>7 DEF History
<1> QED BY <1>8 DEF g

\* ... removed ...
LEMMA HistoryLoses ==
    ASSUME NEW h, History(h), NEW p \in DOMAIN h, MaxRows \in Nat
    PROVE  History(Anchor!RemoveAt(h, p))
<1> DEFINE a == SubSeq(h, 1, p - 1)
           b == SubSeq(h, p + 1, Len(h))
           g == a \o b
<1>1. h \in Seq(Anchor!Receipt) /\ Len(h) \in Nat /\ DOMAIN h = 1 .. Len(h) /\ p \in 1 .. Len(h)
  BY DEF History
<1>2. /\ a \in Seq(Anchor!Receipt) /\ Len(a) = p - 1
      /\ \A k \in 1 .. p - 1 : a[k] = h[k]
  <2>1. \A k \in 1 .. p - 1 : h[k] \in Anchor!Receipt
    BY <1>1
  <2>2. /\ a \in Seq(Anchor!Receipt) /\ Len(a) = IF 1 <= p - 1 THEN p - 1 - 1 + 1 ELSE 0
        /\ \A k \in 1 .. p - 1 - 1 + 1 : a[k] = h[1 + k - 1]
    BY <1>1, <2>1, SubSeqProperties
  <2> HIDE DEF a
  <2> QED BY <1>1, <2>2
<1>3. /\ b \in Seq(Anchor!Receipt) /\ Len(b) = Len(h) - p
      /\ \A k \in 1 .. Len(h) - p : b[k] = h[p + k]
  <2>1. \A k \in p + 1 .. Len(h) : h[k] \in Anchor!Receipt
    BY <1>1
  <2>2. /\ b \in Seq(Anchor!Receipt) /\ Len(b) = IF p + 1 <= Len(h) THEN Len(h) - (p + 1) + 1 ELSE 0
        /\ \A k \in 1 .. Len(h) - (p + 1) + 1 : b[k] = h[p + 1 + k - 1]
    BY <1>1, <2>1, SubSeqProperties
  <2> HIDE DEF b
  <2>3. \A k \in 1 .. Len(h) - p : k \in 1 .. Len(h) - (p + 1) + 1 /\ p + 1 + k - 1 = p + k
    BY <1>1
  <2>4. Len(b) = Len(h) - p
    BY <1>1, <2>2
  <2> QED BY <2>2, <2>3, <2>4
<1> HIDE DEF a, b
<1>4. /\ g \in Seq(Anchor!Receipt) /\ Len(g) = Len(h) - 1
      /\ \A k \in 1 .. Len(h) - 1 : g[k] = IF k < p THEN h[k] ELSE h[k + 1]
  <2>1. /\ g \in Seq(Anchor!Receipt) /\ Len(g) = Len(a) + Len(b)
        /\ \A k \in 1 .. Len(a) + Len(b) : g[k] = IF k <= Len(a) THEN a[k] ELSE b[k - Len(a)]
    BY <1>2, <1>3, ConcatProperties
  <2> HIDE DEF g
  <2>2. Len(g) = Len(h) - 1
    BY <1>1, <1>2, <1>3, <2>1
  <2>3. ASSUME NEW k \in 1 .. Len(h) - 1 PROVE g[k] = IF k < p THEN h[k] ELSE h[k + 1]
    <3>1. CASE k < p
      BY <1>1, <1>2, <1>3, <2>1, <3>1, SMTT(30)
    <3>2. CASE ~(k < p)
      <4>1. g[k] = b[k - (p - 1)]
        BY <1>1, <1>2, <1>3, <2>1, <3>2, SMTT(30)
      <4>2. k - (p - 1) \in 1 .. Len(h) - p /\ p + (k - (p - 1)) = k + 1
        BY <1>1, <3>2
      <4> QED BY <1>3, <3>2, <4>1, <4>2
    <3> QED BY <3>1, <3>2
  <2> QED BY <2>1, <2>2, <2>3
<1>5. Anchor!RemoveAt(h, p) = g
  BY DEF Anchor!RemoveAt, g, a, b
<1> HIDE DEF g
<1>6. Once(g)
  <2>1. DOMAIN g = 1 .. Len(h) - 1
    BY <1>1, <1>4
  <2> SUFFICES ASSUME NEW k \in DOMAIN g, NEW j \in DOMAIN g, g[k][1] = g[j][1] PROVE k = j
    BY DEF Once
  <2> DEFINE From(q) == IF q < p THEN q ELSE q + 1
  <2>2. \A q \in DOMAIN g : From(q) \in 1 .. Len(h) /\ g[q] = h[From(q)]
    BY <1>1, <1>4, <2>1
  <2>3. From(k) = From(j)
    <3> HIDE DEF From
    <3> QED BY <1>1, <2>2 DEF History, Once
  <2> QED BY <1>1, <2>1, <2>3
<1>7. History(g)
  BY <1>1, <1>4, <1>6 DEF History
<1> QED BY <1>5, <1>7

\* ... or inserted leaves a history.
LEMMA HistoryGains ==
    ASSUME NEW h, History(h), NEW p \in DOMAIN h, NEW i \in Ids \ Anchor!IdsOf(h),
           Len(h) < MaxRows, MaxRows \in Nat
    PROVE  History(Anchor!InsertAt(h, p, <<i, 1>>))
<1> DEFINE a == SubSeq(h, 1, p - 1)
           b == SubSeq(h, p, Len(h))
           e == <<i, 1>>
           c == a \o <<e>>
           g == c \o b
<1>1. h \in Seq(Anchor!Receipt) /\ Len(h) \in Nat /\ DOMAIN h = 1 .. Len(h) /\ p \in 1 .. Len(h)
  BY DEF History
<1>2. /\ a \in Seq(Anchor!Receipt) /\ Len(a) = p - 1
      /\ \A k \in 1 .. p - 1 : a[k] = h[k]
  <2>1. \A k \in 1 .. p - 1 : h[k] \in Anchor!Receipt
    BY <1>1
  <2>2. /\ a \in Seq(Anchor!Receipt) /\ Len(a) = IF 1 <= p - 1 THEN p - 1 - 1 + 1 ELSE 0
        /\ \A k \in 1 .. p - 1 - 1 + 1 : a[k] = h[1 + k - 1]
    BY <1>1, <2>1, SubSeqProperties
  <2> HIDE DEF a
  <2> QED BY <1>1, <2>2
<1>3. /\ b \in Seq(Anchor!Receipt) /\ Len(b) = Len(h) - p + 1
      /\ \A k \in 1 .. Len(h) - p + 1 : b[k] = h[p + k - 1]
  <2>1. \A k \in p .. Len(h) : h[k] \in Anchor!Receipt
    BY <1>1
  <2>2. /\ b \in Seq(Anchor!Receipt) /\ Len(b) = IF p <= Len(h) THEN Len(h) - p + 1 ELSE 0
        /\ \A k \in 1 .. Len(h) - p + 1 : b[k] = h[p + k - 1]
    BY <1>1, <2>1, SubSeqProperties
  <2> HIDE DEF b
  <2> QED BY <1>1, <2>2
<1>4. e \in Anchor!Receipt
  BY DEF Anchor!Receipt
<1> HIDE DEF a, b
<1>5. /\ c \in Seq(Anchor!Receipt) /\ Len(c) = p
      /\ \A k \in 1 .. p : c[k] = IF k < p THEN h[k] ELSE e
  <2> HIDE DEF e
  <2>1. <<e>> \in Seq(Anchor!Receipt) /\ Len(<<e>>) = 1 /\ <<e>>[1] = e
    BY <1>4
  <2>2. /\ c \in Seq(Anchor!Receipt) /\ Len(c) = Len(a) + Len(<<e>>)
        /\ \A k \in 1 .. Len(a) + Len(<<e>>) : c[k] = IF k <= Len(a) THEN a[k] ELSE <<e>>[k - Len(a)]
    BY <1>2, <2>1, ConcatProperties
  <2> HIDE DEF c
  <2>3. ASSUME NEW k \in 1 .. p PROVE c[k] = IF k < p THEN h[k] ELSE e
    <3>1. CASE k < p
      BY <1>1, <1>2, <2>1, <2>2, <3>1
    <3>2. CASE ~(k < p)
      <4>1. k - Len(a) = 1 /\ ~(k <= Len(a)) /\ k \in 1 .. Len(a) + Len(<<e>>)
        BY <1>1, <1>2, <2>1, <3>2
      <4> QED BY <2>1, <2>2, <3>2, <4>1
    <3> QED BY <3>1, <3>2
  <2> QED BY <1>1, <1>2, <2>1, <2>2, <2>3
<1> HIDE DEF c, e
<1>6. /\ g \in Seq(Anchor!Receipt) /\ Len(g) = Len(h) + 1
      /\ \A k \in 1 .. Len(h) + 1 : g[k] = IF k < p THEN h[k] ELSE IF k = p THEN e ELSE h[k - 1]
  <2>1. /\ g \in Seq(Anchor!Receipt) /\ Len(g) = Len(c) + Len(b)
        /\ \A k \in 1 .. Len(c) + Len(b) : g[k] = IF k <= Len(c) THEN c[k] ELSE b[k - Len(c)]
    BY <1>3, <1>5, ConcatProperties
  <2> HIDE DEF g
  <2>2. Len(g) = Len(h) + 1
    BY <1>1, <1>3, <1>5, <2>1, SMTT(30)
  <2>3. ASSUME NEW k \in 1 .. Len(h) + 1
        PROVE  g[k] = IF k < p THEN h[k] ELSE IF k = p THEN e ELSE h[k - 1]
    <3>1. CASE k <= p
      BY <1>1, <1>3, <1>5, <2>1, <3>1, SMTT(30)
    <3>2. CASE ~(k <= p)
      <4>1. g[k] = b[k - p]
        BY <1>1, <1>3, <1>5, <2>1, <3>2, SMTT(30)
      <4>2. k - p \in 1 .. Len(h) - p + 1 /\ p + (k - p) - 1 = k - 1
        BY <1>1, <3>2
      <4> QED BY <1>1, <1>3, <3>2, <4>1, <4>2, SMTT(30)
    <3> QED BY <3>1, <3>2
  <2> QED BY <2>1, <2>2, <2>3
<1>7. Anchor!InsertAt(h, p, <<i, 1>>) = g
  BY DEF Anchor!InsertAt, g, a, b, c, e
<1>8. \A k \in 1 .. Len(h) : h[k][1] # i
  BY <1>1 DEF Anchor!IdsOf
<1>9. e[1] = i
  BY DEF e
<1> HIDE DEF g
<1>10. Once(g)
  <2>1. DOMAIN g = 1 .. Len(h) + 1
    BY <1>1, <1>6
  <2> SUFFICES ASSUME NEW k \in DOMAIN g, NEW j \in DOMAIN g, g[k][1] = g[j][1] PROVE k = j
    BY DEF Once
  <2> DEFINE From(q) == IF q < p THEN q ELSE q - 1
  <2>2. \A q \in DOMAIN g : q # p => From(q) \in 1 .. Len(h) /\ g[q] = h[From(q)]
    BY <1>1, <1>6, <2>1
  <2>3. g[p][1] = i
    BY <1>1, <1>6, <1>9
  <2>4. CASE k # p /\ j # p
    <3>1. From(k) = From(j)
      <4> HIDE DEF From
      <4> QED BY <1>1, <2>2, <2>4 DEF History, Once
    <3> QED BY <1>1, <2>1, <2>4, <3>1
  <2>5. CASE k = p \/ j = p
    <3> HIDE DEF From
    <3> QED BY <1>8, <2>2, <2>3, <2>5
  <2> QED BY <2>4, <2>5
<1>11. History(g)
  BY <1>1, <1>6, <1>10 DEF History
<1> QED BY <1>7, <1>11

\* Each step leaves histories; what is written down is one.
LEMMA HistoryStep ==
    ASSUME Anchor!AnchorsAssumption, HistoryInv, [Anchor!Next]_(Anchor!vars)
    PROVE  HistoryInv'
<1> USE DEF HistoryInv
<1>1. MaxRows \in Nat
  BY DEF Anchor!AnchorsAssumption
<1>2. \A l : History(l) <=> l \in Anchor!Link /\ Once(l)
  BY LinkIs DEF History
<1>3. ASSUME anchorFile' \in {anchorFile, Append(anchorFile, placing), Append(anchorFile, Torn)}
      PROVE  /\ anchorFile' \in Seq(Anchor!Link \cup {Torn})
             /\ \A i \in DOMAIN anchorFile' : anchorFile'[i] = Torn \/ History(anchorFile'[i])
  <2>1. \A x \in {placing, Torn} :
           /\ Append(anchorFile, x) \in Seq(Anchor!Link \cup {Torn})
           /\ \A i \in DOMAIN Append(anchorFile, x) :
                 Append(anchorFile, x)[i] = x \/ (i \in DOMAIN anchorFile /\ Append(anchorFile, x)[i] = anchorFile[i])
    BY <1>2
  <2> QED BY <1>3, <2>1
<1>4. ASSUME NEW i \in Ids, Anchor!Append1(i) PROVE HistoryInv'
  <2>1. History(Append(chain, <<i, 1>>))
    BY <1>1, <1>4, HistoryAppends DEF Anchor!Append1
  <2> QED BY <1>4, <2>1 DEF Anchor!Append1, Anchor!placed, Anchor!job
<1>5. CASE Anchor!Alter
  <2>1. \A p \in DOMAIN chain : History([chain EXCEPT ![p][2] = 3 - @]) /\ History(Anchor!RemoveAt(chain, p))
    BY <1>1, HistoryChanges, HistoryLoses
  <2>2. Len(chain) < MaxRows => \A p \in DOMAIN chain, i \in Ids \ Anchor!IdsOf(chain) :
           History(Anchor!InsertAt(chain, p, <<i, 1>>))
    BY <1>1, HistoryGains
  <2>3. History(chain')
    BY <1>5, <2>1, <2>2 DEF Anchor!Alter
  <2> QED BY <1>5, <2>3 DEF Anchor!Alter, Anchor!placed, Anchor!job
<1>6. CASE Anchor!Tick
  BY <1>6 DEF Anchor!Tick, Anchor!placed
<1>7. CASE Anchor!AppendLine
  <2>1. [jobState EXCEPT !.fileLink = {placing}] \in Copies
    BY <1>2 DEF Copies
  <2>2. jobState' \in Copies /\ jobStep' \in {"idle", "save", "notify"}
    BY <1>7, <2>1 DEF Anchor!AppendLine, Anchor!Idle
  <2>3. anchorFile' \in {anchorFile, Append(anchorFile, placing), Append(anchorFile, Torn)}
    BY <1>7 DEF Anchor!AppendLine
  <2> QED BY <1>3, <1>7, <2>2, <2>3 DEF Anchor!AppendLine
<1>8. CASE Anchor!Save
  BY <1>8 DEF Anchor!Save, Anchor!Stores, Anchor!placed
<1>9. CASE Anchor!Notify
  <2> DEFINE n == [anchor |-> placing, warns |-> IF extends THEN {} ELSE jobState.link]
  <2>1. n \in [anchor : Anchor!Link, warns : SUBSET Anchor!Link]
    BY <1>2 DEF Copies
  <2>2. messages' = messages \/ messages' = Append(messages, n)
    BY <1>9 DEF Anchor!Notify, Anchor!Deliver, Anchor!NoLink
  <2> HIDE DEF n
  <2>3. messages' \in Seq([anchor : Anchor!Link, warns : SUBSET Anchor!Link])
    <3> DEFINE M == [anchor : Anchor!Link, warns : SUBSET Anchor!Link]
    <3>1. messages \in Seq(M) /\ n \in M
      BY <2>1
    <3> HIDE DEF M
    <3>2. messages' \in Seq(M)
      BY <2>2, <3>1
    <3> QED BY <3>2 DEF M
  <2>4. [jobState EXCEPT !.notifyLink = {placing}] \in Copies
    BY <1>2 DEF Copies
  <2>5. jobState' \in Copies /\ anchorState' \in Copies /\ jobStep' \in {"idle", "slot"}
    BY <1>9, <2>4 DEF Anchor!Notify, Anchor!Stores, Anchor!Idle
  <2> QED BY <1>9, <2>3, <2>5 DEF Anchor!Notify
<1>10. CASE Anchor!Slot
  <2>1. [jobState EXCEPT !.link = {placing}] \in Copies
    BY <1>2 DEF Copies
  <2>2. jobState' \in Copies /\ anchorState' \in Copies
    BY <1>10, <2>1 DEF Anchor!Slot, Anchor!Stores
  <2> QED BY <1>10, <2>2 DEF Anchor!Slot, Anchor!Idle, Anchor!placed
<1>11. CASE Anchor!Crash
  <2>1. anchorFile' \in {anchorFile, Append(anchorFile, placing), Append(anchorFile, Torn)}
    BY <1>11 DEF Anchor!Crash
  <2> QED BY <1>3, <1>11, <2>1 DEF Anchor!Crash, Anchor!Idle
<1>12. CASE UNCHANGED Anchor!vars
  BY <1>12 DEF Anchor!vars, Anchor!placed, Anchor!job
<1> QED
  BY <1>4, <1>5, <1>6, <1>7, <1>8, <1>9, <1>10, <1>11, <1>12 DEF Anchor!Next

\* What is in a place stays there.
LEMMA KeptStays ==
    ASSUME NEW c, NEW f, NEW g, NEW m, NEW n, Kept(c, f, m),
           \A l : InFile(l, f) => InFile(l, g),
           \A l : (InChannel(l, m) => InChannel(l, n)) /\ (Warned(l, m) => Warned(l, n))
    PROVE  Kept(c, g, n)
BY DEF Kept

\* A line or a message that is added hides none.
LEMMA Adds ==
    ASSUME NEW S, NEW s \in Seq(S), NEW x
    PROVE  /\ \A l : InFile(l, s) => InFile(l, Append(s, x))
           /\ \A l : InChannel(l, s) => InChannel(l, Append(s, x))
           /\ \A l : Warned(l, s) => Warned(l, Append(s, x))
           /\ InFile(x, Append(s, x)) /\ InChannel(x.anchor, Append(s, x)) /\ Warned(x.warns, Append(s, x))
<1> DEFINE t == Append(s, x)
<1>1. Len(s) \in Nat /\ DOMAIN s = 1 .. Len(s) /\ DOMAIN t = 1 .. Len(s) + 1
  OBVIOUS
<1>2. \A i \in DOMAIN s : i \in DOMAIN t /\ t[i] = s[i]
  OBVIOUS
<1>3. Len(s) + 1 \in DOMAIN t /\ t[Len(s) + 1] = x
  OBVIOUS
<1> HIDE DEF t
<1>4. /\ \A l : InFile(l, s) => InFile(l, t)
      /\ \A l : InChannel(l, s) => InChannel(l, t)
      /\ \A l : Warned(l, s) => Warned(l, t)
  BY <1>2 DEF InFile, InChannel, Warned
<1>5. InFile(x, t) /\ InChannel(x.anchor, t) /\ Warned(x.warns, t)
  BY <1>3 DEF InFile, InChannel, Warned
<1> QED BY <1>4, <1>5 DEF t

\* A history has its own link, and the genesis.
LEMMA ReachesItself ==
    ASSUME NEW h, History(h)
    PROVE  Anchor!Reaches(h, h) /\ Anchor!Reaches(h, <<>>)
<1>1. h \in Seq(Anchor!Receipt) /\ Len(h) \in Nat
  BY DEF History
<1>2. SubSeq(h, 1, Len(h)) = h
  BY <1>1, SubSeqFull
<1>3. SubSeq(h, 1, 0) = <<>>
  BY SubSeqEmpty
<1>4. Len(h) \in 0 .. Len(h) /\ 0 \in 0 .. Len(h)
  BY <1>1
<1> QED BY <1>2, <1>3, <1>4 DEF Anchor!Reaches, Anchor!ReceiptChainLinks

\* Nothing of what a tick counts on is disturbed by a receipt that comes or an
\* alteration: it goes by the anchor it took.
LEMMA TickStays ==
    ASSUME TickInv, UNCHANGED <<anchorFile, messages, anchorState, jobState, jobStep, placing, extends, rewritten>>
    PROVE  TickInv'
<1>1. Kept(anchorState', anchorFile', messages') /\ Kept(jobState', anchorFile', messages')
  BY DEF TickInv
<1>2. jobStep' # "idle" => extends' = Extends(placing', jobState'.link)
  BY DEF TickInv
<1>3. /\ jobStep' \in {"save", "notify", "slot"} /\ placing' # <<>> => InFile(placing', anchorFile')
      /\ jobStep' = "slot" =>
            Anchor!Unchanged(jobState.notifyLink)' /\ (extends' \/ Warned(jobState'.link, messages'))
  BY DEF TickInv, Anchor!Unchanged
<1>4. Anchor!RewriteIsTold'
  BY DEF TickInv, Anchor!RewriteIsTold
<1> QED BY <1>1, <1>2, <1>3, <1>4 DEF TickInv

\* A tick starts from what is kept: it has nothing to show for yet.
LEMMA TickTicks ==
    ASSUME HistoryInv, TickInv, Anchor!Tick
    PROVE  TickInv'
<1>1. /\ jobState' \in {jobState, anchorState} /\ placing' = chain
      /\ extends' = \A l \in jobState'.link : Anchor!Reaches(chain, l)
      /\ jobStep' = "file"
      /\ UNCHANGED <<anchorFile, messages, anchorState, rewritten>>
  BY DEF Anchor!Tick, Anchor!placed
<1>2. extends' = Extends(placing', jobState'.link)
  BY <1>1 DEF Extends
<1>3. Kept(anchorState', anchorFile', messages') /\ Kept(jobState', anchorFile', messages')
  BY <1>1 DEF TickInv
<1>4. Anchor!RewriteIsTold'
  BY <1>1 DEF TickInv, Anchor!RewriteIsTold
<1> QED BY <1>1, <1>2, <1>3, <1>4 DEF TickInv

\* The job's copy, with an anchor that is in the file ...
LEMMA KeptFile ==
    ASSUME NEW c \in Copies, NEW f, NEW m, NEW a, Kept(c, f, m), a # <<>> => InFile(a, f)
    PROVE  Kept([c EXCEPT !.fileLink = {a}], f, m)
<1> DEFINE d == [c EXCEPT !.fileLink = {a}]
<1>1. d.link = c.link /\ d.fileLink = {a} /\ d.notifyLink = c.notifyLink
  BY DEF Copies
<1> HIDE DEF d
<1>2. Kept(d, f, m)
  BY <1>1 DEF Kept
<1> QED BY <1>2 DEF d

\* ... or in the channel, of which it is known whether it extends the last one ...
LEMMA KeptChannel ==
    ASSUME NEW c \in Copies, NEW f, NEW m, NEW a, Kept(c, f, m), a # <<>> => InChannel(a, m),
           Extends(a, c.link) \/ Warned(c.link, m)
    PROVE  Kept([c EXCEPT !.notifyLink = {a}], f, m)
<1> DEFINE d == [c EXCEPT !.notifyLink = {a}]
<1>1. d.link = c.link /\ d.fileLink = c.fileLink /\ d.notifyLink = {a}
  BY DEF Copies
<1> HIDE DEF d
<1>2. Kept(d, f, m)
  BY <1>1 DEF Kept
<1> QED BY <1>2 DEF d

\* ... or recorded, once it is in both.
LEMMA KeptSlot ==
    ASSUME NEW c \in Copies, NEW f, NEW m, NEW a, History(a), Kept(c, f, m),
           a # <<>> => InFile(a, f), c.notifyLink = {a} \/ (c.notifyLink = {} /\ a = <<>>)
    PROVE  Kept([c EXCEPT !.link = {a}], f, m)
<1> DEFINE d == [c EXCEPT !.link = {a}]
<1>1. d.link = {a} /\ d.fileLink = c.fileLink /\ d.notifyLink = c.notifyLink
  BY DEF Copies
<1> HIDE DEF d
<1>2. Extends(a, {a})
  BY ReachesItself DEF Extends
<1>3. a # <<>> => InChannel(a, m)
  BY DEF Kept
<1>4. Kept(d, f, m)
  BY <1>1, <1>2, <1>3 DEF Kept
<1> QED BY <1>4 DEF d

\* What a copy is saved as is kept.
LEMMA StoresKeep ==
    ASSUME NEW c, Kept(c, anchorFile', messages'), Kept(anchorState, anchorFile', messages'), Anchor!Stores(c)
    PROVE  Kept(anchorState', anchorFile', messages')
BY DEF Anchor!Stores

\* A tick goes on from the file only with its anchor in it.
LEMMA TickAppends ==
    ASSUME HistoryInv, TickInv, Anchor!AppendLine
    PROVE  TickInv'
<1>1. UNCHANGED <<messages, anchorState, placing, extends, rewritten>> /\ jobStep = "file"
  BY DEF Anchor!AppendLine
<1>2. /\ \A l : InFile(l, anchorFile) => InFile(l, anchorFile')
      /\ anchorFile' = Append(anchorFile, placing) => InFile(placing, anchorFile')
  <2>1. anchorFile' \in {anchorFile, Append(anchorFile, placing), Append(anchorFile, Torn)}
    BY DEF Anchor!AppendLine
  <2>2. \A x : /\ \A l : InFile(l, anchorFile) => InFile(l, Append(anchorFile, x))
               /\ InFile(x, Append(anchorFile, x))
    BY Adds DEF HistoryInv
  <2> QED BY <2>1, <2>2
<1>3. Kept(anchorState, anchorFile', messages) /\ Kept(jobState, anchorFile', messages)
  BY <1>2, KeptStays DEF TickInv
<1>4. /\ Kept(jobState', anchorFile', messages)
      /\ jobState'.link = jobState.link
      /\ jobStep' \in {"save", "notify"} /\ placing # <<>> => InFile(placing, anchorFile')
      /\ jobStep' \in {"idle", "save", "notify"}
  <2>1. CASE Anchor!Unchanged(jobState.fileLink) /\ UNCHANGED <<anchorFile, jobState>> /\ jobStep' = "notify"
    <3>1. placing # <<>> => InFile(placing, anchorFile)
      BY <2>1 DEF TickInv, Kept, Anchor!Unchanged
    <3> QED BY <1>3, <2>1, <3>1
  <2>2. CASE /\ anchorFile' = Append(anchorFile, placing) /\ jobStep' = "save"
             /\ jobState' = [jobState EXCEPT !.fileLink = {placing}]
    <3>1. InFile(placing, anchorFile')
      BY <1>2, <2>2
    <3>2. \A f : Kept(jobState, f, messages) /\ InFile(placing, f) => Kept(jobState', f, messages)
      BY <2>2, KeptFile DEF HistoryInv
    <3>3. jobState'.link = jobState.link
      BY <2>2 DEF HistoryInv, Copies
    <3> QED BY <1>3, <2>2, <3>1, <3>2, <3>3
  <2>3. CASE UNCHANGED jobState /\ jobStep' = "idle"
    BY <1>3, <2>3
  <2> QED BY <2>1, <2>2, <2>3 DEF Anchor!AppendLine, Anchor!Idle
<1>5. jobStep' # "idle" => extends' = Extends(placing', jobState'.link)
  BY <1>1, <1>4 DEF TickInv
<1>6. Anchor!RewriteIsTold'
  BY <1>1 DEF TickInv, Anchor!RewriteIsTold
<1> QED BY <1>1, <1>3, <1>4, <1>5, <1>6 DEF TickInv

\* A save that fails leaves what was stored, which is kept too.
LEMMA TickSaves ==
    ASSUME HistoryInv, TickInv, Anchor!Save
    PROVE  TickInv'
<1>1. /\ UNCHANGED <<anchorFile, messages, jobState, placing, extends, rewritten>>
      /\ jobStep = "save" /\ jobStep' = "notify"
  BY DEF Anchor!Save, Anchor!placed
<1>2. Kept(anchorState', anchorFile', messages') /\ Kept(jobState', anchorFile', messages')
  BY <1>1 DEF Anchor!Save, Anchor!Stores, TickInv
<1>3. Anchor!RewriteIsTold'
  BY <1>1 DEF TickInv, Anchor!RewriteIsTold
<1> QED BY <1>1, <1>2, <1>3 DEF TickInv

\* A tick comes to record only what was sent, with the warning that it called for.
LEMMA TickNotifies ==
    ASSUME HistoryInv, TickInv, Anchor!Notify
    PROVE  TickInv'
<1> DEFINE n == [anchor |-> placing, warns |-> IF extends THEN {} ELSE jobState.link]
<1>1. UNCHANGED <<anchorFile, placing, extends, rewritten>> /\ jobStep = "notify"
  BY DEF Anchor!Notify
<1>2. messages' = messages \/ messages' = Append(messages, n)
  BY DEF Anchor!Notify, Anchor!Deliver, Anchor!NoLink
<1>3. /\ \A l : InChannel(l, messages) => InChannel(l, messages')
      /\ \A l : Warned(l, messages) => Warned(l, messages')
      /\ messages' = Append(messages, n) =>
            InChannel(placing, messages') /\ (extends \/ Warned(jobState.link, messages'))
  <2>1. /\ \A l : InChannel(l, messages) => InChannel(l, Append(messages, n))
        /\ \A l : Warned(l, messages) => Warned(l, Append(messages, n))
        /\ InChannel(n.anchor, Append(messages, n)) /\ Warned(n.warns, Append(messages, n))
    BY Adds DEF HistoryInv
  <2>2. n.anchor = placing /\ (extends \/ n.warns = jobState.link)
    OBVIOUS
  <2> HIDE DEF n
  <2> QED BY <1>2, <2>1, <2>2
<1>4. extends = Extends(placing, jobState.link)
  BY <1>1 DEF TickInv
<1>5. Kept(anchorState, anchorFile, messages') /\ Kept(jobState, anchorFile, messages')
  BY <1>3, KeptStays DEF TickInv
<1>6. \E i \in {1, 2, 3} :
        \/ i = 1 /\ Anchor!Unchanged(jobState.notifyLink) /\ UNCHANGED <<messages, jobState, anchorState>> /\ jobStep' = "slot"
        \/ i = 2 /\ messages' = Append(messages, n) /\ jobState' = [jobState EXCEPT !.notifyLink = {placing}]
                 /\ jobStep' = "slot" /\ Anchor!Stores(jobState')
        \/ i = 3 /\ UNCHANGED <<jobState, anchorState>> /\ jobStep' = "idle"
  BY DEF Anchor!Notify, Anchor!Deliver, Anchor!NoLink, Anchor!Idle
<1> HIDE DEF n
<1>7. Anchor!RewriteIsTold'
  BY <1>1, <1>3 DEF TickInv, Anchor!RewriteIsTold, Warned
<1>8. CASE Anchor!Unchanged(jobState.notifyLink) /\ UNCHANGED <<messages, jobState, anchorState>> /\ jobStep' = "slot"
  <2>1. extends \/ Warned(jobState.link, messages)
    <3>1. CASE jobState.notifyLink = {placing}
      BY <1>4, <3>1 DEF TickInv, Kept
    <3>2. CASE jobState.notifyLink = {} /\ placing = <<>>
      <4>1. jobState.link \subseteq {<<>>}
        BY <3>2 DEF TickInv, Kept
      <4>2. Extends(placing, jobState.link)
        BY <3>2, <4>1, ReachesItself DEF Extends, HistoryInv
      <4> QED BY <1>4, <4>2
    <3> QED BY <1>8, <3>1, <3>2 DEF Anchor!Unchanged, Anchor!NoLink
  <2>2. Anchor!Unchanged(jobState.notifyLink)'
    BY <1>1, <1>8 DEF Anchor!Unchanged
  <2> QED BY <1>1, <1>4, <1>5, <1>7, <1>8, <2>1, <2>2 DEF TickInv
<1>9. CASE /\ messages' = Append(messages, n) /\ jobState' = [jobState EXCEPT !.notifyLink = {placing}]
           /\ jobStep' = "slot" /\ Anchor!Stores(jobState')
  <2>1. jobState'.link = jobState.link /\ jobState'.notifyLink = {placing}
    BY <1>9 DEF HistoryInv, Copies
  <2>2. InChannel(placing, messages') /\ (extends \/ Warned(jobState.link, messages'))
    BY <1>3, <1>9
  <2>3. \A m : Kept(jobState, anchorFile, m) /\ InChannel(placing, m)
                  /\ (Extends(placing, jobState.link) \/ Warned(jobState.link, m))
               => Kept(jobState', anchorFile, m)
    BY <1>9, KeptChannel DEF HistoryInv
  <2>4. Kept(jobState', anchorFile, messages')
    BY <1>4, <1>5, <2>2, <2>3
  <2>5. Kept(anchorState', anchorFile, messages')
    BY <1>5, <1>9, <2>4 DEF Anchor!Stores
  <2>6. Anchor!Unchanged(jobState.notifyLink)'
    BY <1>1, <2>1 DEF Anchor!Unchanged
  <2> QED BY <1>1, <1>4, <1>7, <1>9, <2>1, <2>2, <2>4, <2>5, <2>6 DEF TickInv
<1>10. CASE UNCHANGED <<jobState, anchorState>> /\ jobStep' = "idle"
  BY <1>1, <1>5, <1>7, <1>10 DEF TickInv
<1> QED BY <1>6, <1>8, <1>9, <1>10

\* What is recorded is in both places; a rewritten history was told.
LEMMA TickRecords ==
    ASSUME HistoryInv, TickInv, Anchor!Slot
    PROVE  TickInv'
<1>1. /\ UNCHANGED <<anchorFile, messages, placing, extends>> /\ jobStep = "slot" /\ jobStep' = "idle"
      /\ jobState' = [jobState EXCEPT !.link = {placing}] /\ Anchor!Stores(jobState')
      /\ rewritten' = IF extends THEN rewritten ELSE rewritten \cup {jobState.link}
  BY DEF Anchor!Slot, Anchor!placed, Anchor!Idle
<1>2. Kept(jobState', anchorFile, messages)
  BY <1>1, KeptSlot DEF TickInv, HistoryInv, Anchor!Unchanged, Anchor!NoLink
<1>3. Kept(anchorState', anchorFile, messages)
  BY <1>1, <1>2 DEF TickInv, Anchor!Stores
<1>4. Anchor!RewriteIsTold'
  BY <1>1 DEF TickInv, Anchor!RewriteIsTold, Warned
<1> QED BY <1>1, <1>2, <1>3, <1>4 DEF TickInv

\* A crash leaves a line more, or a part of one.
LEMMA TickCrashes ==
    ASSUME HistoryInv, TickInv, Anchor!Crash
    PROVE  TickInv'
<1>1. /\ UNCHANGED <<messages, anchorState, jobState, rewritten>> /\ jobStep' = "idle"
      /\ anchorFile' \in {anchorFile, Append(anchorFile, placing), Append(anchorFile, Torn)}
  BY DEF Anchor!Crash, Anchor!Idle
<1>2. \A x, l : InFile(l, anchorFile) => InFile(l, Append(anchorFile, x))
  BY Adds DEF HistoryInv
<1>3. Kept(anchorState, anchorFile', messages) /\ Kept(jobState, anchorFile', messages)
  BY <1>1, <1>2, KeptStays DEF TickInv
<1>4. Anchor!RewriteIsTold'
  BY <1>1 DEF TickInv, Anchor!RewriteIsTold
<1> QED BY <1>1, <1>3, <1>4 DEF TickInv

\* Nothing was anchored before the first tick.
LEMMA AnchorInit ==
    ASSUME Anchor!AnchorsAssumption, Anchor!Init
    PROVE  HistoryInv /\ TickInv
<1>1. /\ chain = <<>> /\ placing = <<>> /\ anchorFile = <<>> /\ messages = <<>> /\ rewritten = {}
      /\ anchorState = [link |-> {}, fileLink |-> {}, notifyLink |-> {}] /\ jobState = anchorState
      /\ jobStep = "idle"
  BY DEF Anchor!Init, Anchor!NoLink
<1>2. History(<<>>)
  BY DEF History, Once, Anchor!AnchorsAssumption
<1>3. anchorState \in Copies
  BY <1>1 DEF Copies
<1>4. Kept(anchorState, anchorFile, messages)
  BY <1>1 DEF Kept
<1>5. HistoryInv
  BY <1>1, <1>2, <1>3 DEF HistoryInv
<1> QED BY <1>1, <1>4, <1>5 DEF TickInv, Anchor!RewriteIsTold

\* Each step keeps both.
LEMMA AnchorStep ==
    ASSUME Anchor!AnchorsAssumption, HistoryInv, TickInv, [Anchor!Next]_(Anchor!vars)
    PROVE  HistoryInv' /\ TickInv'
<1>1. HistoryInv'
  BY HistoryStep
<1>2. (\E i \in Ids : Anchor!Append1(i)) \/ Anchor!Alter \/ UNCHANGED Anchor!vars => TickInv'
  BY TickStays DEF Anchor!Append1, Anchor!Alter, Anchor!vars, Anchor!placed, Anchor!job
<1> QED BY <1>1, <1>2, TickTicks, TickAppends, TickSaves, TickNotifies, TickRecords, TickCrashes DEF Anchor!Next

-----------------------------------------------------------------------------
\* Two histories agree up to a place.
Same(h, a, n) == n <= Len(h) /\ \A k \in 1 .. n : h[k] = a[k]

\* It is what comparing links and prefixes comes to.
LEMMA SameIs ==
    ASSUME NEW h, History(h), NEW a, History(a), NEW n \in 0 .. Len(a)
    PROVE  /\ n <= Len(h) => (SubSeq(h, 1, n) = SubSeq(a, 1, n) <=> Same(h, a, n))
           /\ Anchor!IsPrefix(SubSeq(a, 1, n), h) <=> Same(h, a, n)
<1>1. /\ h \in Seq(Anchor!Receipt) /\ Len(h) \in Nat /\ DOMAIN h = 1 .. Len(h)
      /\ a \in Seq(Anchor!Receipt) /\ Len(a) \in Nat /\ DOMAIN a = 1 .. Len(a)
      /\ n \in Nat /\ n <= Len(a)
  BY DEF History
<1>2. \A s, m : s \in Seq(Anchor!Receipt) /\ m \in Nat /\ m <= Len(s) =>
         /\ SubSeq(s, 1, m) \in Seq(Anchor!Receipt) /\ Len(SubSeq(s, 1, m)) = m
         /\ \A k \in 1 .. m : SubSeq(s, 1, m)[k] = s[k]
  <2> SUFFICES ASSUME NEW s \in Seq(Anchor!Receipt), NEW m \in Nat, m <= Len(s)
               PROVE  /\ SubSeq(s, 1, m) \in Seq(Anchor!Receipt) /\ Len(SubSeq(s, 1, m)) = m
                      /\ \A k \in 1 .. m : SubSeq(s, 1, m)[k] = s[k]
    OBVIOUS
  <2>1. \A k \in 1 .. m : s[k] \in Anchor!Receipt
    OBVIOUS
  <2>2. /\ SubSeq(s, 1, m) \in Seq(Anchor!Receipt)
        /\ Len(SubSeq(s, 1, m)) = IF 1 <= m THEN m - 1 + 1 ELSE 0
        /\ \A k \in 1 .. m - 1 + 1 : SubSeq(s, 1, m)[k] = s[1 + k - 1]
    BY <2>1, SubSeqProperties
  <2> DEFINE t == SubSeq(s, 1, m)
  <2> HIDE DEF t
  <2>3. t \in Seq(Anchor!Receipt) /\ Len(t) = m /\ \A k \in 1 .. m : t[k] = s[k]
    BY <2>2 DEF t
  <2> QED BY <2>3 DEF t
<1> DEFINE b == SubSeq(a, 1, n)
           g == SubSeq(h, 1, n)
<1>3. b \in Seq(Anchor!Receipt) /\ Len(b) = n /\ \A k \in 1 .. n : b[k] = a[k]
  BY <1>1, <1>2
<1>4. n <= Len(h) => g \in Seq(Anchor!Receipt) /\ Len(g) = n /\ \A k \in 1 .. n : g[k] = h[k]
  BY <1>1, <1>2
<1>5. SubSeq(b, 1, Len(b)) = b
  <2> HIDE DEF b
  <2> QED BY <1>3, SubSeqFull
<1> HIDE DEF b, g
<1>6. n <= Len(h) => (g = b <=> Same(h, a, n))
  <2> SUFFICES ASSUME n <= Len(h) PROVE g = b <=> Same(h, a, n)
    OBVIOUS
  <2>1. ASSUME g = b PROVE Same(h, a, n)
    BY <1>3, <1>4, <2>1 DEF Same
  <2>2. ASSUME Same(h, a, n) PROVE g = b
    <3>1. Len(g) = Len(b) /\ \A k \in 1 .. Len(g) : g[k] = b[k]
      BY <1>3, <1>4, <2>2 DEF Same
    <3> QED BY <1>3, <1>4, <3>1, SeqEqual
  <2> QED BY <2>1, <2>2
<1>7. Anchor!IsPrefix(b, h) <=> n <= Len(h) /\ b = g
  BY <1>3, <1>5 DEF Anchor!IsPrefix, g
<1>8. Anchor!IsPrefix(b, h) <=> Same(h, a, n)
  BY <1>6, <1>7 DEF Same
<1> QED BY <1>6, <1>8 DEF b, g

\* A link is reached by the histories that begin with it, and by them alone.
LEMMA ReachedIsPrefix ==
    ASSUME NEW h, History(h), NEW a, History(a)
    PROVE  /\ Anchor!Reaches(h, a) <=> Anchor!IsPrefix(a, h)
           /\ Anchor!IsPrefix(a, h) <=> Same(h, a, Len(a))
<1>1. /\ h \in Seq(Anchor!Receipt) /\ Len(h) \in Nat /\ a \in Seq(Anchor!Receipt) /\ Len(a) \in Nat
  BY DEF History
<1>2. SubSeq(a, 1, Len(a)) = a
  BY <1>1, SubSeqFull
<1>3. Anchor!IsPrefix(a, h) <=> Same(h, a, Len(a))
  <2>1. Len(a) \in 0 .. Len(a)
    BY <1>1
  <2> QED BY <1>2, <2>1, SameIs
<1>4. Anchor!IsPrefix(a, h) => Anchor!Reaches(h, a)
  <2>1. Anchor!IsPrefix(a, h) => a = SubSeq(h, 1, Len(a)) /\ Len(a) \in 0 .. Len(h)
    BY <1>1, <1>2 DEF Anchor!IsPrefix
  <2>2. Len(a) \in 0 .. Len(h) => SubSeq(h, 1, Len(a)) \in {SubSeq(h, 1, n) : n \in 0 .. Len(h)}
    OBVIOUS
  <2> QED BY <2>1, <2>2 DEF Anchor!Reaches, Anchor!ReceiptChainLinks
<1>5. ASSUME Anchor!Reaches(h, a) PROVE Anchor!IsPrefix(a, h)
  <2>1. PICK n \in 0 .. Len(h) : a = SubSeq(h, 1, n)
    BY <1>5 DEF Anchor!Reaches, Anchor!ReceiptChainLinks
  <2>2. n \in Nat /\ n <= Len(h) /\ \A k \in 1 .. n : h[k] \in Anchor!Receipt
    BY <1>1, <2>1
  <2>3. Len(a) = n
    <3>1. Len(SubSeq(h, 1, n)) = IF 1 <= n THEN n - 1 + 1 ELSE 0
      BY <2>2, SubSeqProperties
    <3> QED BY <2>1, <2>2, <3>1
  <2> QED BY <1>2, <2>1, <2>2, <2>3 DEF Anchor!IsPrefix
<1> QED BY <1>3, <1>4, <1>5

\* A set of numbers with a member has a least one.
LEMMA LeastOf ==
    ASSUME NEW T, T \subseteq Nat, T # {}
    PROVE  \E n \in T : \A m \in T : n <= m
<1>1. PICK n \in Nat : (\A m \in Nat : m < n => m \notin T) /\ n \in T
  BY Sizes
<1> QED BY <1>1

\* The check names the first place from which two histories differ.
LEMMA CheckIs ==
    ASSUME NEW h, History(h), NEW a, History(a), NEW r, r = Anchor!Check(h, a)
    PROVE  /\ Same(h, a, Len(a)) => r.status = "match"
           /\ ~Same(h, a, Len(a)) =>
                 /\ r.status = "mismatch" /\ r.position \in 1 .. Len(a)
                 /\ Same(h, a, r.position - 1) /\ ~Same(h, a, r.position)
                 /\ r.kind = Anchor!Classify(h, a, r.position)
<1>1. /\ Len(h) \in Nat /\ DOMAIN h = 1 .. Len(h) /\ Len(a) \in Nat /\ DOMAIN a = 1 .. Len(a)
  BY DEF History
<1>2. \A p \in DOMAIN a : Anchor!SamePrefix(h, a, p) <=> Same(h, a, p)
  <2> SUFFICES ASSUME NEW p \in DOMAIN a PROVE Anchor!SamePrefix(h, a, p) <=> Same(h, a, p)
    OBVIOUS
  <2>1. p \in 0 .. Len(a) /\ p \in 1 .. p
    BY <1>1
  <2>2. p <= Len(h) => (SubSeq(h, 1, p) = SubSeq(a, 1, p) <=> Same(h, a, p))
    BY <2>1, SameIs
  <2>3. Same(h, a, p) => p <= Len(h) /\ h[p] = a[p]
    BY <2>1 DEF Same
  <2> QED BY <2>2, <2>3 DEF Anchor!SamePrefix
<1> DEFINE Off == {p \in DOMAIN a : ~Anchor!SamePrefix(h, a, p)}
           p == CHOOSE q \in Off : \A o \in Off : q <= o
<1>3. r = IF Off = {} THEN [status |-> "match", position |-> 0, kind |-> "none"]
          ELSE [status |-> "mismatch", position |-> p, kind |-> Anchor!Classify(h, a, p)]
  BY DEF Anchor!Check, Anchor!Result
<1>4. Off # {} => p \in Off /\ \A o \in Off : p <= o
  <2>1. Off \subseteq Nat
    BY <1>1
  <2> HIDE DEF Off
  <2>2. Off # {} => \E q \in Off : \A o \in Off : q <= o
    BY <2>1, LeastOf
  <2> QED BY <2>2
<1>5. \A o : o \in Off <=> o \in 1 .. Len(a) /\ ~Same(h, a, o)
  BY <1>1, <1>2
<1> HIDE DEF Off, p
<1>6. Off = {} => Same(h, a, Len(a))
  <2>1. CASE Len(a) = 0
    BY <1>1, <2>1 DEF Same
  <2>2. CASE Len(a) # 0
    BY <1>1, <1>5, <2>2
  <2> QED BY <2>1, <2>2
<1>7. Same(h, a, Len(a)) => Off = {}
  <2>1. Same(h, a, Len(a)) => \A o \in 1 .. Len(a) : Same(h, a, o)
    BY <1>1 DEF Same
  <2> QED BY <1>5, <2>1
<1>8. Off # {} => p \in 1 .. Len(a) /\ ~Same(h, a, p)
  BY <1>4, <1>5
<1>9. Off # {} => Same(h, a, p - 1)
  <2>1. CASE p = 1
    BY <1>1, <2>1 DEF Same
  <2>2. CASE Off # {} /\ p # 1
    <3>1. p - 1 \in 1 .. Len(a) /\ ~(p <= p - 1)
      BY <1>1, <1>8, <2>2
    <3> QED BY <1>4, <1>5, <2>2, <3>1
  <2> QED BY <2>1, <2>2
<1> QED BY <1>3, <1>6, <1>7, <1>8, <1>9

\* What it says of the receipt there is so.
LEMMA ClassifyIs ==
    ASSUME NEW h, History(h), NEW a, History(a), NEW p \in 1 .. Len(a),
           Same(h, a, p - 1), ~Same(h, a, p), NEW k, k = Anchor!Classify(h, a, p)
    PROVE  /\ (k = "deleted") <=> a[p][1] \notin Anchor!IdsOf(h)
           /\ (k = "changed") => a[p] \notin Anchor!Range(h)
           /\ (k = "inserted") => h[p][1] \notin Anchor!IdsOf(a)
           /\ (k = "reordered") =>
                 {a[p][1], h[p][1]} \subseteq Anchor!IdsOf(h) \cap Anchor!IdsOf(a)
<1>1. /\ Len(h) \in Nat /\ DOMAIN h = 1 .. Len(h) /\ Len(a) \in Nat /\ DOMAIN a = 1 .. Len(a)
      /\ p \in DOMAIN a /\ p \in Nat
  BY DEF History
<1>2. /\ \A i : i \in Anchor!IdsOf(h) <=> \E j \in DOMAIN h : h[j][1] = i
      /\ \A i : i \in Anchor!IdsOf(a) <=> \E j \in DOMAIN a : a[j][1] = i
  BY DEF Anchor!IdsOf
<1>3. p > Len(h) => a[p][1] \notin Anchor!IdsOf(h)
  <2> SUFFICES ASSUME p > Len(h), NEW j \in DOMAIN h, h[j][1] = a[p][1] PROVE FALSE
    BY <1>2
  <2>1. j \in 1 .. p - 1 /\ j \in DOMAIN a /\ j # p
    BY <1>1
  <2>2. h[j] = a[j]
    BY <2>1 DEF Same
  <2> QED BY <1>1, <2>1, <2>2 DEF History, Once
<1>4. p <= Len(h) => p \in DOMAIN h /\ h[p] # a[p]
  <2>1. p <= Len(h) => p \in DOMAIN h
    BY <1>1
  <2>2. p <= Len(h) /\ h[p] = a[p] => Same(h, a, p)
    <3>1. \A j \in 1 .. p : j = p \/ j \in 1 .. p - 1
      BY <1>1
    <3> QED BY <3>1 DEF Same
  <2> QED BY <2>1, <2>2
<1>5. p <= Len(h) /\ h[p][1] = a[p][1] => a[p] \notin Anchor!Range(h)
  <2> SUFFICES ASSUME p <= Len(h), h[p][1] = a[p][1], NEW j \in DOMAIN h, h[j] = a[p] PROVE FALSE
    BY DEF Anchor!Range
  <2>1. j = p
    BY <1>4 DEF History, Once
  <2> QED BY <1>4, <2>1
<1>6. p <= Len(h) => h[p][1] \in Anchor!IdsOf(h)
  BY <1>2, <1>4
<1>7. a[p][1] \in Anchor!IdsOf(a)
  BY <1>1, <1>2
<1>8. k = IF p > Len(h) \/ a[p][1] \notin Anchor!IdsOf(h) THEN "deleted"
          ELSE IF h[p][1] = a[p][1] THEN "changed"
          ELSE IF h[p][1] \notin Anchor!IdsOf(a) THEN "inserted"
          ELSE "reordered"
  BY DEF Anchor!Classify
<1>9. CASE p > Len(h) \/ a[p][1] \notin Anchor!IdsOf(h)
  BY <1>3, <1>8, <1>9
<1>10. CASE p <= Len(h) /\ a[p][1] \in Anchor!IdsOf(h)
  <2>1. ~(p > Len(h))
    BY <1>1, <1>10
  <2> QED BY <1>5, <1>6, <1>7, <1>8, <1>10, <2>1
<1> QED BY <1>1, <1>9, <1>10

\* What the check of one anchor says, of a document and of its link.
LEMMA AnchorIsChecked ==
    ASSUME NEW h, History(h), NEW a, History(a), NEW r, r = Anchor!Check(h, a)
    PROVE  /\ Anchor!IsPrefix(a, h) => r.status = "match"
           /\ ~Anchor!IsPrefix(a, h) =>
                 /\ r.status = "mismatch"
                 /\ Anchor!IsPrefix(SubSeq(a, 1, r.position - 1), h)
                 /\ ~Anchor!IsPrefix(SubSeq(a, 1, r.position), h)
                 /\ (r.kind = "deleted") <=> a[r.position][1] \notin Anchor!IdsOf(h)
                 /\ (r.kind = "changed") => a[r.position] \notin Anchor!Range(h)
                 /\ (r.kind = "inserted") => h[r.position][1] \notin Anchor!IdsOf(a)
                 /\ (r.kind = "reordered") =>
                       {a[r.position][1], h[r.position][1]} \subseteq Anchor!IdsOf(h) \cap Anchor!IdsOf(a)
           /\ Anchor!CheckLink(h, a).status = IF Anchor!IsPrefix(a, h) THEN "match" ELSE "mismatch"
<1>1. Len(a) \in Nat
  BY DEF History
<1>2. Anchor!IsPrefix(a, h) <=> Same(h, a, Len(a))
  BY ReachedIsPrefix
<1>3. Anchor!IsPrefix(a, h) => r.status = "match"
  BY <1>2, CheckIs
<1>4. ASSUME ~Anchor!IsPrefix(a, h)
      PROVE  /\ r.status = "mismatch"
             /\ Anchor!IsPrefix(SubSeq(a, 1, r.position - 1), h)
             /\ ~Anchor!IsPrefix(SubSeq(a, 1, r.position), h)
             /\ (r.kind = "deleted") <=> a[r.position][1] \notin Anchor!IdsOf(h)
             /\ (r.kind = "changed") => a[r.position] \notin Anchor!Range(h)
             /\ (r.kind = "inserted") => h[r.position][1] \notin Anchor!IdsOf(a)
             /\ (r.kind = "reordered") =>
                   {a[r.position][1], h[r.position][1]} \subseteq Anchor!IdsOf(h) \cap Anchor!IdsOf(a)
  <2>1. /\ r.status = "mismatch" /\ r.position \in 1 .. Len(a)
        /\ Same(h, a, r.position - 1) /\ ~Same(h, a, r.position)
        /\ r.kind = Anchor!Classify(h, a, r.position)
    BY <1>2, <1>4, CheckIs
  <2>2. PICK p \in 1 .. Len(a) : p = r.position
    BY <2>1
  <2>3. p - 1 \in 0 .. Len(a) /\ p \in 0 .. Len(a)
    BY <1>1, <2>2
  <2>4. /\ Anchor!IsPrefix(SubSeq(a, 1, p - 1), h) <=> Same(h, a, p - 1)
        /\ Anchor!IsPrefix(SubSeq(a, 1, p), h) <=> Same(h, a, p)
    BY <2>3, SameIs
  <2>5. Same(h, a, p - 1) /\ ~Same(h, a, p) /\ r.kind = Anchor!Classify(h, a, p)
    BY <2>1, <2>2
  <2>6. /\ (r.kind = "deleted") <=> a[p][1] \notin Anchor!IdsOf(h)
        /\ (r.kind = "changed") => a[p] \notin Anchor!Range(h)
        /\ (r.kind = "inserted") => h[p][1] \notin Anchor!IdsOf(a)
        /\ (r.kind = "reordered") =>
              {a[p][1], h[p][1]} \subseteq Anchor!IdsOf(h) \cap Anchor!IdsOf(a)
    BY <2>5, ClassifyIs
  <2> QED BY <2>1, <2>2, <2>4, <2>5, <2>6
<1>5. Anchor!CheckLink(h, a).status = IF Anchor!IsPrefix(a, h) THEN "match" ELSE "mismatch"
  BY ReachedIsPrefix DEF Anchor!CheckLink, Anchor!Result
<1> QED BY <1>3, <1>4, <1>5

\* What the check of the whole log says.
LEMMA LogIsChecked ==
    ASSUME HistoryInv, NEW log, log = Anchor!CheckLog(chain, anchorFile)
    PROVE  /\ log.status \in {"match", "mismatch", "unreadable"}
           /\ log.status # "unreadable" =>
                 anchorFile # <<>> /\ \A i \in DOMAIN anchorFile : anchorFile[i] # Torn
           /\ log.status = "match" => \A i \in DOMAIN anchorFile : Anchor!IsPrefix(anchorFile[i], chain)
           /\ log.status = "mismatch" =>
                 /\ log.line \in DOMAIN anchorFile /\ ~Anchor!IsPrefix(anchorFile[log.line], chain)
                 /\ \A i \in 1 .. log.line - 1 : Anchor!IsPrefix(anchorFile[i], chain)
<1> DEFINE Failing == {i \in DOMAIN anchorFile : Anchor!Check(chain, anchorFile[i]).status = "mismatch"}
           n == CHOOSE i \in Failing : \A k \in Failing : i <= k
           NoAnchors == anchorFile = <<>> \/ \E i \in DOMAIN anchorFile : ~Anchor!ParseAnchorDocument(anchorFile[i])
<1>1. log = IF NoAnchors THEN [status |-> "unreadable", line |-> 0]
            ELSE IF Failing = {} THEN [status |-> "match", line |-> Len(anchorFile)]
            ELSE [status |-> "mismatch", line |-> n]
  BY DEF Anchor!CheckLog
<1>2. Len(anchorFile) \in Nat /\ DOMAIN anchorFile = 1 .. Len(anchorFile)
  BY DEF HistoryInv
<1>3. ~NoAnchors => anchorFile # <<>> /\ \A i \in DOMAIN anchorFile : anchorFile[i] # Torn /\ History(anchorFile[i])
  BY DEF Anchor!ParseAnchorDocument, HistoryInv
<1>4. ~NoAnchors => \A i \in DOMAIN anchorFile : i \in Failing <=> ~Anchor!IsPrefix(anchorFile[i], chain)
  <2> SUFFICES ASSUME ~NoAnchors, NEW i \in DOMAIN anchorFile
               PROVE  i \in Failing <=> ~Anchor!IsPrefix(anchorFile[i], chain)
    OBVIOUS
  <2>1. PICK h, a, r : h = chain /\ a = anchorFile[i] /\ r = Anchor!Check(h, a)
    OBVIOUS
  <2>2. History(h) /\ History(a)
    BY <1>3, <2>1 DEF HistoryInv
  <2>3. /\ Anchor!IsPrefix(a, h) => r.status = "match"
        /\ ~Anchor!IsPrefix(a, h) => r.status = "mismatch"
    BY <2>1, <2>2, AnchorIsChecked
  <2> QED BY <2>1, <2>3
<1>5. Failing # {} => n \in Failing /\ \A k \in Failing : n <= k
  <2>1. Failing \subseteq Nat
    BY <1>2
  <2> HIDE DEF Failing
  <2>2. Failing # {} => \E i \in Failing : \A k \in Failing : i <= k
    BY <2>1, LeastOf
  <2> QED BY <2>2
<1>6. \A i \in Failing : i \in DOMAIN anchorFile
  OBVIOUS
<1> HIDE DEF Failing, n, NoAnchors
<1>7. CASE NoAnchors
  BY <1>1, <1>7
<1>8. CASE ~NoAnchors /\ Failing = {}
  BY <1>1, <1>3, <1>4, <1>8
<1>9. CASE ~NoAnchors /\ Failing # {}
  <2>1. n \in DOMAIN anchorFile /\ ~Anchor!IsPrefix(anchorFile[n], chain)
    BY <1>4, <1>5, <1>6, <1>9
  <2>2. ASSUME NEW i \in 1 .. n - 1 PROVE Anchor!IsPrefix(anchorFile[i], chain)
    <3>1. i \in DOMAIN anchorFile /\ ~(n <= i)
      BY <1>2, <2>1
    <3> QED BY <1>4, <1>5, <1>9, <3>1
  <2>3. log.status = "mismatch" /\ log.line = n
    BY <1>1, <1>9
  <2> QED BY <1>3, <1>9, <2>1, <2>2, <2>3
<1> QED BY <1>7, <1>8, <1>9

\* Every answer of the check is true of the stored history.
LEMMA ChecksAreTrue ==
    ASSUME HistoryInv
    PROVE  Anchor!CheckTellsTheTruth
<1> DEFINE Lines == {i \in DOMAIN anchorFile : anchorFile[i] # Torn}
           log == Anchor!CheckLog(chain, anchorFile)
<1>1. \A i \in Lines : History(anchorFile[i])
  BY DEF HistoryInv
<1>2. ASSUME NEW i \in Lines, NEW a, a = anchorFile[i], NEW r, r = Anchor!Check(chain, a)
      PROVE  IF Anchor!IsPrefix(a, chain) THEN r.status = "match"
             ELSE /\ r.status = "mismatch"
                  /\ Anchor!IsPrefix(SubSeq(a, 1, r.position - 1), chain)
                  /\ ~Anchor!IsPrefix(SubSeq(a, 1, r.position), chain)
                  /\ (r.kind = "deleted") <=> a[r.position][1] \notin Anchor!IdsOf(chain)
                  /\ (r.kind = "changed") => a[r.position] \notin Anchor!Range(chain)
                  /\ (r.kind = "inserted") => chain[r.position][1] \notin Anchor!IdsOf(a)
                  /\ (r.kind = "reordered") =>
                        {a[r.position][1], chain[r.position][1]} \subseteq Anchor!IdsOf(chain) \cap Anchor!IdsOf(a)
  <2>1. PICK h : h = chain
    OBVIOUS
  <2>2. History(h) /\ History(a) /\ r = Anchor!Check(h, a)
    BY <1>1, <1>2, <2>1 DEF HistoryInv
  <2> QED BY <2>1, <2>2, AnchorIsChecked
<1>3. ASSUME NEW i \in DOMAIN anchorFile, NEW form \in {"document", "link"}
      PROVE  Anchor!VerifyAnchor(Anchor!ParseReceiptAnchor(chain, form, anchorFile[i])) =
                IF anchorFile[i] = Torn THEN 2
                ELSE IF Anchor!IsPrefix(anchorFile[i], chain) THEN 0 ELSE 1
  <2>1. PICK h, a : h = chain /\ a = anchorFile[i]
    OBVIOUS
  <2>2. CASE a = Torn
    BY <2>1, <2>2 DEF Anchor!VerifyAnchor, Anchor!ParseReceiptAnchor, Anchor!ParseAnchorDocument, Anchor!Result
  <2>3. CASE a # Torn
    <3>1. History(h) /\ History(a)
      BY <1>1, <2>1, <2>3 DEF HistoryInv
    <3>2. /\ Anchor!Check(h, a).status = IF Anchor!IsPrefix(a, h) THEN "match" ELSE "mismatch"
          /\ Anchor!CheckLink(h, a).status = IF Anchor!IsPrefix(a, h) THEN "match" ELSE "mismatch"
      BY <3>1, AnchorIsChecked
    <3>3. Anchor!ParseReceiptAnchor(h, form, a).status = IF Anchor!IsPrefix(a, h) THEN "match" ELSE "mismatch"
      BY <2>3, <3>2 DEF Anchor!ParseReceiptAnchor, Anchor!ParseAnchorDocument
    <3> QED BY <2>1, <2>3, <3>3 DEF Anchor!VerifyAnchor
  <2> QED BY <2>2, <2>3
<1>4. PICK c : c = log
  OBVIOUS
<1>5. /\ c.status \in {"match", "mismatch", "unreadable"}
      /\ c.status # "unreadable" => anchorFile # <<>> /\ \A i \in DOMAIN anchorFile : anchorFile[i] # Torn
      /\ c.status = "match" => \A i \in DOMAIN anchorFile : Anchor!IsPrefix(anchorFile[i], chain)
      /\ c.status = "mismatch" =>
            /\ c.line \in DOMAIN anchorFile /\ ~Anchor!IsPrefix(anchorFile[c.line], chain)
            /\ \A i \in 1 .. c.line - 1 : Anchor!IsPrefix(anchorFile[i], chain)
  BY <1>4, LogIsChecked
<1>6. Anchor!VerifyAnchor(c) = 0 => c.status = "match"
  BY <1>5 DEF Anchor!VerifyAnchor
<1>7. /\ Anchor!VerifyAnchor(log) = 0 => anchorFile # <<>> /\ Lines = DOMAIN anchorFile
      /\ log.status = "match" => \A i \in Lines : Anchor!IsPrefix(anchorFile[i], chain)
      /\ log.status = "mismatch" =>
            /\ ~Anchor!IsPrefix(anchorFile[log.line], chain)
            /\ \A i \in 1 .. log.line - 1 : Anchor!IsPrefix(anchorFile[i], chain)
  BY <1>4, <1>5, <1>6
<1> QED BY <1>2, <1>3, <1>7 DEF Anchor!CheckTellsTheTruth

\* A slot recorded is in the file and in the channel, and where the history no
\* longer had the anchor before, the operator was told (receipt_anchor_job.go);
\* the check of an anchor, of its link and of the log says exactly what became
\* of what was anchored (receipt_anchor.go), of every alteration of the history.
THEOREM AnchorsTell ==
    ASSUME Anchor!AnchorsAssumption
    PROVE  Anchor!Spec =>
               [](/\ Anchor!RecordedIsPlaced /\ Anchor!RewriteIsTold /\ Anchor!CheckTellsTheTruth
                   /\ AnchorsTellTheTruth)
<1>1. Anchor!Init => HistoryInv /\ TickInv
  BY AnchorInit
<1>2. (HistoryInv /\ TickInv) /\ [Anchor!Next]_(Anchor!vars) => (HistoryInv /\ TickInv)'
  BY AnchorStep
<1>3. HistoryInv /\ TickInv => Anchor!RecordedIsPlaced /\ Anchor!RewriteIsTold /\ Anchor!CheckTellsTheTruth
  <2>1. TickInv => Anchor!RecordedIsPlaced
    BY DEF TickInv, Kept, InFile, InChannel, Anchor!RecordedIsPlaced
  <2> QED BY <2>1, ChecksAreTrue DEF TickInv
<1>4. Anchor!RecordedIsPlaced /\ Anchor!RewriteIsTold /\ Anchor!CheckTellsTheTruth => AnchorsTellTheTruth
  BY DEF AnchorsTellTheTruth
<1> QED BY <1>1, <1>2, <1>3, <1>4, PTL DEF Anchor!Spec
\* A set of sequences with the empty one and each that is longer by one member is
\* that of all sequences.
LEMMA Longer ==
    ASSUME NEW S, NEW A, A \subseteq Seq(S), <<>> \in A,
           \A s \in A, x \in S : Append(s, x) \in A
    PROVE  A = Seq(S)
<1> DEFINE T == {n \in Nat : \E s \in Seq(S) : Len(s) = n /\ s \notin A}
<1>1. ASSUME NEW n \in Nat, \A m \in Nat : m < n => m \notin T PROVE n \notin T
  <2> SUFFICES ASSUME NEW s \in Seq(S), Len(s) = n PROVE s \in A
    OBVIOUS
  <2>1. CASE s = <<>>
    BY <2>1
  <2>2. CASE s # <<>>
    <3>1. PICK r \in Seq(S), x \in S : s = Append(r, x)
      BY <2>2, SequenceEmptyOrAppend
    <3>2. Len(r) \in Nat /\ Len(s) = Len(r) + 1
      BY <3>1
    <3>3. Len(r) \notin T
      <4> HIDE DEF T
      <4> QED BY <1>1, <3>2
    <3>4. r \in A
      BY <3>2, <3>3
    <3> QED BY <3>1, <3>4
  <2> QED BY <2>1, <2>2
<1>2. T = {}
  <2> HIDE DEF T
  <2>1. T \subseteq Nat
    BY DEF T
  <2> QED BY <1>1, <2>1, Sizes
<1>3. ASSUME NEW s \in Seq(S) PROVE s \in A
  <2>1. Len(s) \in Nat
    OBVIOUS
  <2>2. Len(s) \notin T
    BY <1>2, Zenon
  <2> QED BY <2>1, <2>2
<1> QED BY <1>3

\* What FlattenSeq computes: the first n of q, one after the other.
Chain(q, f, n) == f = [i \in 1 .. n |-> IF i = 1 THEN q[i] ELSE f[i - 1] \o q[i]]

\* Its value at a place.
LEMMA ChainAt ==
    ASSUME NEW q, NEW f, NEW n, Chain(q, f, n), NEW i \in 1 .. n
    PROVE  f[i] = IF i = 1 THEN q[i] ELSE f[i - 1] \o q[i]
  BY Zenon DEF Chain

\* There is such a function, ...
LEMMA ChainsExist ==
    ASSUME NEW q, NEW n \in Nat
    PROVE  \E f : Chain(q, f, n)
<1> DEFINE T == {m \in Nat : ~\E f : Chain(q, f, m)}
<1>1. ASSUME NEW k \in Nat, \A m \in Nat : m < k => m \notin T PROVE k \notin T
  <2>1. CASE k = 0
    <3> DEFINE f == [i \in 1 .. 0 |-> q[i]]
    <3>1. Chain(q, f, 0)
      BY DEF Chain
    <3> QED BY <2>1, <3>1
  <2>2. CASE k # 0
    <3>1. k - 1 \in Nat /\ k - 1 < k
      BY <2>2
    <3>2. PICK g : Chain(q, g, k - 1)
      BY <1>1, <3>1
    <3> DEFINE f == [i \in 1 .. k |-> IF i < k THEN g[i] ELSE IF k = 1 THEN q[k] ELSE g[k - 1] \o q[k]]
    <3>3. ASSUME NEW i \in 1 .. k PROVE f[i] = IF i = 1 THEN q[i] ELSE f[i - 1] \o q[i]
      <4>1. CASE i = k
        <5>1. CASE k = 1
          <6>1. k \in 1 .. k /\ ~(k < k)
            BY <5>1
          <6>2. f[k] = q[k]
            BY <5>1, <6>1
          <6> QED BY <4>1, <5>1, <6>2
        <5>2. CASE k # 1
          <6>1. k - 1 \in 1 .. k /\ k - 1 < k
            BY <3>1, <5>2
          <6>2. f[k - 1] = g[k - 1]
            BY <6>1
          <6>3. k \in 1 .. k /\ ~(k < k)
            BY <5>2
          <6>4. f[k] = g[k - 1] \o q[k]
            BY <5>2, <6>3
          <6> HIDE DEF f
          <6> QED BY <4>1, <5>2, <6>2, <6>4
        <5> QED BY <5>1, <5>2
      <4>2. CASE i < k
        <5>1. i \in 1 .. k - 1 /\ f[i] = g[i]
          BY <3>1, <4>2
        <5>2. g[i] = IF i = 1 THEN q[i] ELSE g[i - 1] \o q[i]
          BY <3>2, <5>1 DEF Chain
        <5>3. i # 1 => i - 1 \in 1 .. k /\ i - 1 < k
          BY <4>2
        <5>4. i # 1 => f[i - 1] = g[i - 1]
          BY <5>3
        <5> QED BY <5>1, <5>2, <5>4
      <4> QED BY <3>1, <4>1, <4>2
    <3>4. Chain(q, f, k)
      <4>1. f = [i \in 1 .. k |-> f[i]]
        OBVIOUS
      <4> HIDE DEF f
      <4> QED BY <3>3, <4>1, Zenon DEF Chain
    <3> QED BY <3>4
  <2> QED BY <2>1, <2>2
<1>2. T = {}
  <2>1. T \subseteq Nat
    OBVIOUS
  <2> HIDE DEF T
  <2> QED BY <1>1, <2>1, Sizes
<1> QED BY <1>2

\* ... and two of them agree as far as their sequences do.
LEMMA ChainsAgree ==
    ASSUME NEW q, NEW f, NEW n \in Nat, Chain(q, f, n),
           NEW r, NEW g, NEW m \in Nat, Chain(r, g, m), n <= m,
           \A i \in 1 .. n : q[i] = r[i]
    PROVE  \A i \in 1 .. n : f[i] = g[i]
<1> DEFINE T == {i \in 1 .. n : f[i] # g[i]}
<1>1. ASSUME NEW k \in Nat, \A j \in Nat : j < k => j \notin T PROVE k \notin T
  <2> SUFFICES ASSUME k \in 1 .. n PROVE f[k] = g[k]
    OBVIOUS
  <2>1. k \in 1 .. m
    OBVIOUS
  <2>2. /\ f[k] = IF k = 1 THEN q[k] ELSE f[k - 1] \o q[k]
        /\ g[k] = IF k = 1 THEN r[k] ELSE g[k - 1] \o r[k]
    BY <2>1, ChainAt
  <2>3. k # 1 => k - 1 \in Nat /\ k - 1 < k /\ k - 1 \in 1 .. n
    OBVIOUS
  <2>4. k # 1 => f[k - 1] = g[k - 1]
    BY <1>1, <2>3
  <2> QED BY <2>2, <2>4
<1>2. T = {}
  <2>1. T \subseteq Nat
    OBVIOUS
  <2> HIDE DEF T
  <2> QED BY <1>1, <2>1, Sizes
<1> QED BY <1>2

\* What nothing leaves behind.
LEMMA GatherNone == \A f : Install!Gather(<<>>, f) = <<>>
<1> SUFFICES ASSUME NEW f PROVE Install!Gather(<<>>, f) = <<>>
  OBVIOUS
<1>1. [k \in DOMAIN <<>> |-> f[<<>>[k]]] = <<>>
  OBVIOUS
<1>2. Len(<<>>) = 0
  OBVIOUS
<1> QED BY <1>1, <1>2, Zenon DEF Install!Gather, Install!FlattenSeq

\* What the fold of a sequence that is not empty is.
LEMMA GatherIs ==
    ASSUME NEW S, NEW s \in Seq(S), s # <<>>, NEW f
    PROVE  \E g : /\ Chain([k \in DOMAIN s |-> f[s[k]]], g, Len(s))
                  /\ Install!Gather(s, f) = g[Len(s)]
<1> DEFINE q == [k \in DOMAIN s |-> f[s[k]]]
           c == CHOOSE g : Chain(q, g, Len(s))
<1>1. Len(s) \in Nat /\ Len(s) # 0 /\ DOMAIN s = 1 .. Len(s)
  BY EmptySeq, LenProperties
<1>2. Len(q) = Len(s)
  BY <1>1
<1> HIDE DEF q
<1>3. Chain(q, c, Len(s))
  BY <1>1, ChainsExist
<1>4. Install!Gather(s, f) = c[Len(s)]
  BY <1>1, <1>2, Zenon DEF Install!Gather, Install!FlattenSeq, q, Chain
<1> QED BY <1>3, <1>4 DEF q

\* The members of S leave sequences of members of R.
Leaves(f, S, R) == \A y \in S : f[y] \in Seq(R)

\* One member more leaves behind what it leaves, ...
LEMMA GatherAdds ==
    ASSUME NEW S, NEW R, NEW f, Leaves(f, S, R), NEW s \in Seq(S), NEW x \in S
    PROVE  Install!Gather(Append(s, x), f) = Install!Gather(s, f) \o f[x]
<1> DEFINE t == Append(s, x)
           q == [k \in DOMAIN s |-> f[s[k]]]
           r == [k \in DOMAIN t |-> f[t[k]]]
           n == Len(s)
<1>1. /\ t \in Seq(S) /\ t # <<>> /\ Len(t) = n + 1 /\ n \in Nat
      /\ DOMAIN t = 1 .. n + 1 /\ DOMAIN s = 1 .. n
      /\ t[n + 1] = x /\ \A k \in 1 .. n : t[k] = s[k]
  <2>1. /\ t \in Seq(S) /\ t # <<>> /\ Len(t) = n + 1 /\ n \in Nat
        /\ t[n + 1] = x /\ \A k \in 1 .. n : t[k] = s[k]
    BY AppendProperties, LenProperties
  <2> HIDE DEF t
  <2> QED BY <2>1, LenProperties
<1>2. \A k \in 1 .. n : q[k] = r[k]
  BY <1>1
<1>3. n + 1 \in 1 .. n + 1 /\ r[n + 1] = f[x]
  BY <1>1
<1> HIDE DEF t
<1>4. PICK h : Chain(r, h, Len(t)) /\ Install!Gather(t, f) = h[Len(t)]
  BY <1>1, GatherIs
<1> HIDE DEF q, r
<1>5. h[n + 1] = IF n + 1 = 1 THEN f[x] ELSE h[n] \o f[x]
  <2>1. Chain(r, h, n + 1)
    BY <1>1, <1>4
  <2>2. h[n + 1] = IF n + 1 = 1 THEN r[n + 1] ELSE h[n + 1 - 1] \o r[n + 1]
    BY <1>3, <2>1, ChainAt
  <2>3. n + 1 - 1 = n
    BY <1>1
  <2> QED BY <1>3, <2>2, <2>3
<1>6. CASE s = <<>>
  <2>1. n = 0 /\ Install!Gather(s, f) = <<>>
    BY <1>6, GatherNone, EmptySeq
  <2>2. <<>> \o f[x] = f[x]
    BY ConcatEmptySeq DEF Leaves
  <2> QED BY <1>1, <1>4, <1>5, <2>1, <2>2 DEF t
<1>7. CASE s # <<>>
  <2>1. PICK g : Chain(q, g, n) /\ Install!Gather(s, f) = g[n]
    BY <1>7, GatherIs DEF q
  <2>2. n # 0
    BY <1>7, EmptySeq
  <2>3. n \in 1 .. n /\ n <= n + 1 /\ n + 1 \in Nat
    BY <1>1, <2>2
  <2>4. g[n] = h[n]
    <3>1. Chain(r, h, n + 1)
      BY <1>1, <1>4
    <3>2. \A i \in 1 .. n : g[i] = h[i]
      BY <1>1, <1>2, <2>1, <2>3, <3>1, ChainsAgree
    <3> QED BY <2>3, <3>2
  <2>5. h[n + 1] = g[n] \o f[x]
    <3>1. n + 1 # 1
      BY <1>1, <2>2
    <3> QED BY <1>5, <2>4, <3>1, Zenon
  <2>6. Install!Gather(t, f) = Install!Gather(s, f) \o f[x]
    BY <1>1, <1>4, <2>1, <2>5, Zenon
  <2> QED BY <2>6 DEF t
<1> QED BY <1>6, <1>7

\* ... and all together leave a sequence.
LEMMA GatherIn ==
    ASSUME NEW S, NEW R, NEW f, Leaves(f, S, R)
    PROVE  \A s \in Seq(S) : Install!Gather(s, f) \in Seq(R)
<1> DEFINE A == {s \in Seq(S) : Install!Gather(s, f) \in Seq(R)}
<1>1. <<>> \in A
  BY GatherNone, EmptySeq
<1>2. ASSUME NEW s \in A, NEW x \in S PROVE Append(s, x) \in A
  <2>1. s \in Seq(S) /\ Append(s, x) \in Seq(S)
    BY AppendProperties
  <2>2. Install!Gather(Append(s, x), f) = Install!Gather(s, f) \o f[x]
    BY <2>1, GatherAdds
  <2>3. Install!Gather(s, f) \o f[x] \in Seq(R)
    BY <2>1, ConcatProperties DEF Leaves
  <2> QED BY <2>1, <2>2, <2>3
<1>3. A = Seq(S)
  <2>1. A \subseteq Seq(S)
    OBVIOUS
  <2> HIDE DEF A
  <2> QED BY <1>1, <1>2, <2>1, Longer
<1> QED BY <1>3

\* Two sequences, one after the other, leave what each of them leaves.
LEMMA GatherJoins ==
    ASSUME NEW S, NEW R, NEW f, Leaves(f, S, R), NEW s \in Seq(S)
    PROVE  \A t \in Seq(S) :
              Install!Gather(s \o t, f) = Install!Gather(s, f) \o Install!Gather(t, f)
<1> DEFINE A == {t \in Seq(S) :
                   Install!Gather(s \o t, f) = Install!Gather(s, f) \o Install!Gather(t, f)}
<1>1. <<>> \in A
  <2>1. s \o <<>> = s
    BY ConcatEmptySeq
  <2>2. Install!Gather(s, f) \in Seq(R)
    BY GatherIn
  <2>3. Install!Gather(s, f) \o <<>> = Install!Gather(s, f)
    BY <2>2, ConcatEmptySeq
  <2> QED BY <2>1, <2>3, GatherNone, EmptySeq
<1>2. ASSUME NEW t \in A, NEW x \in S PROVE Append(t, x) \in A
  <2>1. t \in Seq(S) /\ Append(t, x) \in Seq(S) /\ s \o t \in Seq(S) /\ <<x>> \in Seq(S)
    BY AppendProperties, ConcatProperties
  <2>6. Install!Gather(s \o t, f) = Install!Gather(s, f) \o Install!Gather(t, f)
    OBVIOUS
  <2>7. Append(t, x) \in A <=> Install!Gather(s \o Append(t, x), f)
                                 = Install!Gather(s, f) \o Install!Gather(Append(t, x), f)
    BY <2>1
  <2> HIDE DEF A
  <2>2. s \o Append(t, x) = Append(s \o t, x)
    <3>1. Append(t, x) = t \o <<x>> /\ Append(s \o t, x) = (s \o t) \o <<x>>
      BY <2>1, AppendIsConcat
    <3> QED BY <2>1, <3>1, ConcatAssociative
  <2>3. Install!Gather(Append(s \o t, x), f) = Install!Gather(s \o t, f) \o f[x]
    <3> DEFINE u == s \o t
    <3>1. u \in Seq(S)
      BY <2>1
    <3> HIDE DEF u
    <3>2. Install!Gather(Append(u, x), f) = Install!Gather(u, f) \o f[x]
      BY <3>1, GatherAdds
    <3> QED BY <3>2 DEF u
  <2>8. Install!Gather(Append(t, x), f) = Install!Gather(t, f) \o f[x]
    BY <2>1, GatherAdds
  <2>4. Install!Gather(s, f) \in Seq(R) /\ Install!Gather(t, f) \in Seq(R) /\ f[x] \in Seq(R)
    BY <2>1, GatherIn DEF Leaves
  <2>5. (Install!Gather(s, f) \o Install!Gather(t, f)) \o f[x]
          = Install!Gather(s, f) \o (Install!Gather(t, f) \o f[x])
    <3> DEFINE a == Install!Gather(s, f)
               b == Install!Gather(t, f)
               c == f[x]
    <3>1. a \in Seq(R) /\ b \in Seq(R) /\ c \in Seq(R)
      BY <2>4
    <3> HIDE DEF a, b, c
    <3>2. (a \o b) \o c = a \o (b \o c)
      BY <3>1, ConcatAssociative, SMTT(30)
    <3> QED BY <3>2 DEF a, b, c
  <2> QED BY <2>2, <2>3, <2>5, <2>6, <2>7, <2>8
<1>3. A = Seq(S)
  <2>1. A \subseteq Seq(S)
    OBVIOUS
  <2> HIDE DEF A
  <2> QED BY <1>1, <1>2, <2>1, Longer
<1> QED BY <1>3

\* What one member leaves.
LEMMA GatherOne ==
    ASSUME NEW S, NEW R, NEW f, Leaves(f, S, R), NEW x \in S
    PROVE  Install!Gather(<<x>>, f) = f[x]
<1>1. Append(<<>>, x) = <<x>> /\ <<>> \in Seq(S)
  OBVIOUS
<1>2. Install!Gather(Append(<<>>, x), f) = Install!Gather(<<>>, f) \o f[x]
  <2>1. \A s \in Seq(S) : Install!Gather(Append(s, x), f) = Install!Gather(s, f) \o f[x]
    BY GatherAdds
  <2> QED BY <1>1, <2>1
<1> QED BY <1>1, <1>2, GatherNone, ConcatEmptySeq DEF Leaves
-----------------------------------------------------------------------------
\* The hooks that are not draftcat's, and the items without one of draftcat's.
NotOurs == Install!Hook \ Ours
Clean == [group : BOOLEAN, hooks : Seq(NotOurs)]

RestOf == [h \in Install!Hook |-> IF Install!IsOurs(h) THEN <<>> ELSE <<h>>]
OursOf == [h \in Install!Hook |-> IF Install!IsOurs(h) THEN <<h>> ELSE <<>>]
HooksOf == [it \in Install!Item |-> it.hooks]
StayOf ==
    [it \in Install!Item |->
       IF Install!Goes(it) THEN <<>> ELSE <<[it EXCEPT !.hooks = Install!Others(@)]>>]

OursIn(hooks) == Install!Gather(hooks, OursOf)
AllOf(list) == Install!Gather(list, HooksOf)

\* The model's operators on hooks and items as one walk each.
LEMMA AsGathered ==
    /\ \A s : Install!Others(s) = Install!Gather(s, RestOf)
    /\ \A l : Install!Kept(l) = Install!Gather(l, StayOf)
    /\ \A doc : Install!AllHooks(doc) = AllOf(doc.list)
    /\ \A doc : Install!Mine(doc) = OursIn(AllOf(doc.list))
    /\ \A doc : Install!Foreign(doc) = Install!Others(AllOf(doc.list))
<1>1. \A s : Install!Others(s) = Install!Gather(s, RestOf)
  BY Zenon DEF Install!Others, RestOf
<1>2. \A l : Install!Kept(l) = Install!Gather(l, StayOf)
  BY Zenon DEF Install!Kept, StayOf
<1>3. \A doc : Install!AllHooks(doc) = AllOf(doc.list)
  BY Zenon DEF Install!AllHooks, AllOf, HooksOf
<1>4. \A doc : Install!Mine(doc) = OursIn(AllOf(doc.list))
  BY <1>3, Zenon DEF Install!Mine, OursIn, OursOf
<1>5. \A doc : Install!Foreign(doc) = Install!Others(AllOf(doc.list))
  BY <1>3, Zenon DEF Install!Foreign
<1> QED BY <1>1, <1>2, <1>3, <1>4, <1>5

\* What draftcat leaves of hooks is a sequence of others' hooks; its own are taken out.
LEMMA RestTypes ==
    /\ Leaves(RestOf, Install!Hook, NotOurs) /\ Leaves(RestOf, Install!Hook, Install!Hook)
    /\ Leaves(OursOf, Install!Hook, Install!Hook)
    /\ \A s \in Seq(Install!Hook) :
          Install!Others(s) \in Seq(NotOurs) /\ Install!Others(s) \in Seq(Install!Hook)
<1>1. ASSUME NEW h \in Install!Hook
      PROVE  /\ RestOf[h] \in Seq(NotOurs) /\ RestOf[h] \in Seq(Install!Hook)
             /\ OursOf[h] \in Seq(Install!Hook)
  <2>1. /\ <<>> \in Seq(NotOurs) /\ <<>> \in Seq(Install!Hook) /\ <<h>> \in Seq(Install!Hook)
        /\ h \notin Ours => <<h>> \in Seq(NotOurs)
    BY DEF NotOurs
  <2>2. /\ RestOf[h] = IF h \in Ours THEN <<>> ELSE <<h>>
        /\ OursOf[h] = IF h \in Ours THEN <<h>> ELSE <<>>
    BY DEF RestOf, OursOf, Install!IsOurs
  <2> QED BY <2>1, <2>2
<1>3. /\ Leaves(RestOf, Install!Hook, NotOurs) /\ Leaves(RestOf, Install!Hook, Install!Hook)
      /\ Leaves(OursOf, Install!Hook, Install!Hook)
  BY <1>1 DEF Leaves
<1>2. ASSUME NEW s \in Seq(Install!Hook)
      PROVE  Install!Others(s) \in Seq(NotOurs) /\ Install!Others(s) \in Seq(Install!Hook)
  <2>1. /\ Install!Gather(s, RestOf) \in Seq(NotOurs)
        /\ Install!Gather(s, RestOf) \in Seq(Install!Hook)
    BY <1>3, GatherIn
  <2> QED BY <2>1, AsGathered
<1> QED BY <1>2, <1>3

\* Hooks one after the other leave what each part leaves.
LEMMA OthersJoin ==
    ASSUME NEW s \in Seq(Install!Hook), NEW t \in Seq(Install!Hook)
    PROVE  /\ Install!Others(s \o t) = Install!Others(s) \o Install!Others(t)
           /\ OursIn(s \o t) = OursIn(s) \o OursIn(t)
<1>1. Install!Gather(s \o t, RestOf) = Install!Gather(s, RestOf) \o Install!Gather(t, RestOf)
  BY RestTypes, GatherJoins
<1>2. Install!Gather(s \o t, OursOf) = Install!Gather(s, OursOf) \o Install!Gather(t, OursOf)
  BY RestTypes, GatherJoins
<1> QED BY <1>1, <1>2, AsGathered DEF OursIn

\* One hook alone.
LEMMA OthersOne ==
    ASSUME NEW h \in Install!Hook
    PROVE  Install!Others(<<h>>) = RestOf[h] /\ OursIn(<<h>>) = OursOf[h]
<1>1. Install!Gather(<<h>>, RestOf) = RestOf[h]
  BY RestTypes, GatherOne
<1>2. Install!Gather(<<h>>, OursOf) = OursOf[h]
  BY RestTypes, GatherOne
<1> QED BY <1>1, <1>2, AsGathered DEF OursIn

\* Of hooks that are not draftcat's all stay.
LEMMA OthersStay ==
    \A s \in Seq(NotOurs) : Install!Others(s) = s /\ OursIn(s) = <<>>
<1> DEFINE A == {s \in Seq(NotOurs) : Install!Others(s) = s /\ OursIn(s) = <<>>}
<1>1. <<>> \in A
  BY GatherNone, AsGathered, EmptySeq DEF OursIn
<1>2. ASSUME NEW s \in A, NEW h \in NotOurs PROVE Append(s, h) \in A
  <2>1. s \in Seq(NotOurs) /\ Install!Others(s) = s /\ OursIn(s) = <<>>
    OBVIOUS
  <2>2. h \in Install!Hook /\ h \notin Ours
    BY DEF NotOurs
  <2>3. Append(s, h) \in Seq(NotOurs) /\ Append(s, h) = s \o <<h>>
    BY <2>1, AppendProperties, AppendIsConcat
  <2>4. s \in Seq(Install!Hook) /\ <<h>> \in Seq(Install!Hook)
    <3>1. NotOurs \subseteq Install!Hook
      BY DEF NotOurs
    <3> QED BY <2>1, <2>2, <3>1, SeqMonotonic
  <2>5. Install!Others(<<h>>) = <<h>> /\ OursIn(<<h>>) = <<>>
    BY <2>2, OthersOne DEF RestOf, OursOf, Install!IsOurs
  <2>6. Install!Others(s \o <<h>>) = s \o <<h>> /\ OursIn(s \o <<h>>) = <<>> \o <<>>
    BY <2>1, <2>4, <2>5, OthersJoin
  <2>7. <<>> \o <<>> = <<>>
    BY ConcatEmptySeq, EmptySeq
  <2> QED BY <2>3, <2>6, <2>7
<1>3. A = Seq(NotOurs)
  <2>1. A \subseteq Seq(NotOurs)
    OBVIOUS
  <2> HIDE DEF A
  <2> QED BY <1>1, <1>2, <2>1, Longer
<1> QED BY <1>3

\* What draftcat leaves of a list has items without its hooks only.
LEMMA StayTypes ==
    /\ \A it \in Install!Item : HooksOf[it] = it.hooks
    /\ \A it \in Install!Item :
          StayOf[it] = IF Install!Goes(it) THEN <<>>
                       ELSE <<[group |-> it.group, hooks |-> Install!Others(it.hooks)]>>
    /\ Leaves(HooksOf, Install!Item, Install!Hook)
    /\ Leaves(StayOf, Install!Item, Clean) /\ Leaves(StayOf, Install!Item, Install!Item)
    /\ \A l \in Seq(Install!Item) :
          Install!Kept(l) \in Seq(Clean) /\ Install!Kept(l) \in Seq(Install!Item)
<1>1. ASSUME NEW it \in Install!Item
      PROVE  HooksOf[it] = it.hooks /\ HooksOf[it] \in Seq(Install!Hook)
  BY DEF HooksOf, Install!Item
<1>2. ASSUME NEW it \in Install!Item
      PROVE  StayOf[it] = IF Install!Goes(it) THEN <<>>
                          ELSE <<[group |-> it.group, hooks |-> Install!Others(it.hooks)]>>
  <2>1. StayOf[it] = IF Install!Goes(it) THEN <<>>
                     ELSE <<[it EXCEPT !.hooks = Install!Others(it.hooks)]>>
    BY Zenon DEF StayOf
  <2>2. [it EXCEPT !.hooks = Install!Others(it.hooks)]
          = [group |-> it.group, hooks |-> Install!Others(it.hooks)]
    BY DEF Install!Item
  <2> QED BY <2>1, <2>2, Zenon
<1>3. ASSUME NEW it \in Install!Item
      PROVE  StayOf[it] \in Seq(Clean) /\ StayOf[it] \in Seq(Install!Item)
  <2> DEFINE new == [group |-> it.group, hooks |-> Install!Others(it.hooks)]
  <2>1. it.group \in BOOLEAN /\ it.hooks \in Seq(Install!Hook)
    BY DEF Install!Item
  <2>2. Install!Others(it.hooks) \in Seq(NotOurs) /\ Install!Others(it.hooks) \in Seq(Install!Hook)
    BY <2>1, RestTypes
  <2>3. new \in Clean /\ new \in Install!Item
    BY <2>1, <2>2 DEF Clean, Install!Item
  <2> HIDE DEF new
  <2>4. /\ <<>> \in Seq(Clean) /\ <<>> \in Seq(Install!Item)
        /\ <<new>> \in Seq(Clean) /\ <<new>> \in Seq(Install!Item)
    BY <2>3
  <2>5. StayOf[it] = <<>> \/ StayOf[it] = <<new>>
    BY <1>2 DEF new
  <2> QED BY <2>4, <2>5
<1>4. /\ Leaves(HooksOf, Install!Item, Install!Hook)
      /\ Leaves(StayOf, Install!Item, Clean) /\ Leaves(StayOf, Install!Item, Install!Item)
  BY <1>1, <1>3 DEF Leaves
<1>5. ASSUME NEW l \in Seq(Install!Item)
      PROVE  Install!Kept(l) \in Seq(Clean) /\ Install!Kept(l) \in Seq(Install!Item)
  <2>1. Install!Gather(l, StayOf) \in Seq(Clean) /\ Install!Gather(l, StayOf) \in Seq(Install!Item)
    BY <1>4, GatherIn
  <2> QED BY <2>1, AsGathered
<1> QED BY <1>1, <1>2, <1>4, <1>5

\* Lists one after the other keep what each keeps, and have the hooks of both.
LEMMA KeptJoin ==
    ASSUME NEW l \in Seq(Install!Item), NEW m \in Seq(Install!Item)
    PROVE  /\ Install!Kept(l \o m) = Install!Kept(l) \o Install!Kept(m)
           /\ AllOf(l \o m) = AllOf(l) \o AllOf(m)
           /\ AllOf(l) \in Seq(Install!Hook)
<1>1. Install!Gather(l \o m, StayOf) = Install!Gather(l, StayOf) \o Install!Gather(m, StayOf)
  BY StayTypes, GatherJoins
<1>2. Install!Gather(l \o m, HooksOf) = Install!Gather(l, HooksOf) \o Install!Gather(m, HooksOf)
  BY StayTypes, GatherJoins
<1>3. Install!Gather(l, HooksOf) \in Seq(Install!Hook)
  BY StayTypes, GatherIn
<1> QED BY <1>1, <1>2, <1>3, AsGathered DEF AllOf

\* One item alone.
LEMMA KeptOne ==
    ASSUME NEW it \in Install!Item
    PROVE  Install!Kept(<<it>>) = StayOf[it] /\ AllOf(<<it>>) = it.hooks
<1>1. Install!Gather(<<it>>, StayOf) = StayOf[it]
  BY StayTypes, GatherOne
<1>2. Install!Gather(<<it>>, HooksOf) = HooksOf[it]
  BY StayTypes, GatherOne
<1> QED BY <1>1, <1>2, StayTypes, AsGathered DEF AllOf

\* An item without draftcat's hooks stays, and as it is.
LEMMA CleanStays ==
    ASSUME NEW it \in Clean
    PROVE  it \in Install!Item /\ ~Install!Goes(it) /\ StayOf[it] = <<it>>
<1>1. it.group \in BOOLEAN /\ it.hooks \in Seq(NotOurs)
  BY DEF Clean
<1>2. it.hooks \in Seq(Install!Hook)
  <2>1. NotOurs \subseteq Install!Hook
    BY DEF NotOurs
  <2> QED BY <1>1, <2>1, SeqMonotonic
<1>3. it \in Install!Item /\ it = [group |-> it.group, hooks |-> it.hooks]
  BY <1>1, <1>2 DEF Clean, Install!Item
<1>4. Install!Others(it.hooks) = it.hooks
  BY <1>1, OthersStay
<1>5. ~Install!Goes(it)
  BY <1>4 DEF Install!Goes
<1>6. StayOf[it] = <<[group |-> it.group, hooks |-> Install!Others(it.hooks)]>>
  BY <1>3, <1>5, StayTypes
<1> QED BY <1>3, <1>4, <1>5, <1>6

\* Of a list of such items all is kept.
LEMMA CleanKept ==
    \A l \in Seq(Clean) : l \in Seq(Install!Item) /\ Install!Kept(l) = l
<1> DEFINE A == {l \in Seq(Clean) : Install!Kept(l) = l}
<1>0. Clean \subseteq Install!Item
  BY CleanStays
<1>1. <<>> \in A
  BY GatherNone, AsGathered, EmptySeq
<1>2. ASSUME NEW l \in A, NEW it \in Clean PROVE Append(l, it) \in A
  <2>1. l \in Seq(Clean) /\ Install!Kept(l) = l
    OBVIOUS
  <2>2. Append(l, it) \in Seq(Clean) /\ Append(l, it) = l \o <<it>>
    BY <2>1, AppendProperties, AppendIsConcat
  <2>3. it \in Install!Item /\ StayOf[it] = <<it>>
    BY CleanStays
  <2>4. l \in Seq(Install!Item) /\ <<it>> \in Seq(Install!Item)
    BY <1>0, <2>1, <2>3, SeqMonotonic
  <2>5. Install!Kept(l \o <<it>>) = Install!Kept(l) \o Install!Kept(<<it>>)
    BY <2>4, KeptJoin
  <2>6. Install!Kept(<<it>>) = <<it>>
    BY <2>3, KeptOne
  <2> QED BY <2>1, <2>2, <2>5, <2>6
<1>3. A = Seq(Clean)
  <2>1. A \subseteq Seq(Clean)
    OBVIOUS
  <2> HIDE DEF A
  <2> QED BY <1>1, <1>2, <2>1, Longer
<1>4. ASSUME NEW l \in Seq(Clean) PROVE l \in Seq(Install!Item)
  BY <1>0, SeqMonotonic
<1> QED BY <1>3, <1>4

\* The hooks of what stays are the others among the hooks of the list.
LEMMA HooksOfKept ==
    \A l \in Seq(Install!Item) : AllOf(Install!Kept(l)) = Install!Others(AllOf(l))
<1> DEFINE A == {l \in Seq(Install!Item) : AllOf(Install!Kept(l)) = Install!Others(AllOf(l))}
<1>1. <<>> \in A
  <2>1. Install!Kept(<<>>) = <<>> /\ AllOf(<<>>) = <<>> /\ Install!Others(<<>>) = <<>>
    BY GatherNone, AsGathered DEF AllOf
  <2> QED BY <2>1, EmptySeq
<1>2. ASSUME NEW l \in A, NEW it \in Install!Item PROVE Append(l, it) \in A
  <2>1. l \in Seq(Install!Item) /\ AllOf(Install!Kept(l)) = Install!Others(AllOf(l))
    OBVIOUS
  <2>2. /\ Append(l, it) \in Seq(Install!Item) /\ Append(l, it) = l \o <<it>>
        /\ <<it>> \in Seq(Install!Item)
    BY <2>1, AppendProperties, AppendIsConcat
  <2>3. AllOf(StayOf[it]) = Install!Others(it.hooks)
    <3> DEFINE new == [group |-> it.group, hooks |-> Install!Others(it.hooks)]
    <3>1. it.group \in BOOLEAN /\ it.hooks \in Seq(Install!Hook)
      BY DEF Install!Item
    <3>2. CASE Install!Goes(it)
      <4>1. StayOf[it] = <<>> /\ Install!Others(it.hooks) = <<>>
        BY <3>2, StayTypes DEF Install!Goes
      <4> QED BY <4>1, GatherNone DEF AllOf
    <3>3. CASE ~Install!Goes(it)
      <4>1. StayOf[it] = <<new>>
        BY <3>3, StayTypes
      <4>2. new \in Install!Item /\ new.hooks = Install!Others(it.hooks)
        BY <3>1, RestTypes DEF Install!Item
      <4> HIDE DEF new
      <4> QED BY <4>1, <4>2, KeptOne
    <3> QED BY <3>2, <3>3
  <2>4. /\ Install!Kept(l \o <<it>>) = Install!Kept(l) \o StayOf[it]
        /\ AllOf(l \o <<it>>) = AllOf(l) \o it.hooks
        /\ AllOf(l) \in Seq(Install!Hook)
    BY <2>1, <2>2, KeptJoin, KeptOne
  <2>5. Install!Kept(l) \in Seq(Install!Item) /\ StayOf[it] \in Seq(Install!Item)
    BY <2>1, StayTypes DEF Leaves
  <2>6. AllOf(Install!Kept(l) \o StayOf[it]) = AllOf(Install!Kept(l)) \o AllOf(StayOf[it])
    BY <2>5, KeptJoin
  <2>7. it.hooks \in Seq(Install!Hook)
    BY DEF Install!Item
  <2>8. Install!Others(AllOf(l) \o it.hooks) = Install!Others(AllOf(l)) \o Install!Others(it.hooks)
    BY <2>4, <2>7, OthersJoin
  <2> QED BY <2>1, <2>2, <2>3, <2>4, <2>6, <2>8
<1>3. A = Seq(Install!Item)
  <2>1. A \subseteq Seq(Install!Item)
    OBVIOUS
  <2> HIDE DEF A
  <2> QED BY <1>1, <1>2, <2>1, Longer
<1> QED BY <1>3
-----------------------------------------------------------------------------
\* Where an entry goes: before it nothing goes, and what stands there does.
IsPlace(l, p) ==
    /\ p \in 1 .. Len(l) + 1
    /\ \A k \in 1 .. p - 1 : ~Install!Goes(l[k])
    /\ p <= Len(l) => Install!Goes(l[p])

\* The place of a list's entry is the only one.
LEMMA PlaceIs ==
    ASSUME NEW l \in Seq(Install!Item)
    PROVE  /\ IsPlace(l, Install!Place(l))
           /\ \A p : IsPlace(l, p) => p = Install!Place(l)
<1> DEFINE I == {k \in 1 .. Len(l) : Install!Goes(l[k])}
<1>1. Len(l) \in Nat /\ DOMAIN l = 1 .. Len(l)
  BY LenProperties
<1>2. CASE I = {}
  <2>1. Install!Place(l) = Len(l) + 1
    BY <1>1, <1>2 DEF Install!Place
  <2>2. IsPlace(l, Len(l) + 1)
    BY <1>1, <1>2 DEF IsPlace
  <2>3. ASSUME NEW p, IsPlace(l, p) PROVE p = Len(l) + 1
    <3>1. p \in 1 .. Len(l) + 1 /\ ~(p \in 1 .. Len(l))
      BY <1>1, <1>2, <2>3 DEF IsPlace
    <3> QED BY <1>1, <3>1
  <2> QED BY <2>1, <2>2, <2>3
<1>3. CASE I # {}
  <2>1. PICK n \in I : \A k \in I : ~(<<k, n>> \in OpToRel(<, Nat))
    <3>1. I \subseteq Nat
      BY <1>1
    <3> HIDE DEF I
    <3> QED BY <1>3, <3>1, NatLessThanWellFounded, WFMin, Zenon
  <2>2. n \in 1 .. Len(l) /\ Install!Goes(l[n])
    OBVIOUS
  <2>3. \A k \in I : n <= k
    <3>1. n \in Nat /\ \A k \in I : k \in Nat
      BY <1>1
    <3> HIDE DEF I
    <3>2. \A m \in Nat : m < n => m \notin I
      BY <2>1, <3>1 DEF OpToRel
    <3> QED BY <3>1, <3>2
  <2>4. (CHOOSE x \in I : \A y \in I : x <= y) = n
    <3>1. \A x \in I : (\A y \in I : x <= y) => x = n
      <4>1. \A x \in I : x \in Nat /\ n \in Nat
        BY <1>1
      <4> HIDE DEF I
      <4> QED BY <2>3, <4>1
    <3>2. n \in I
      OBVIOUS
    <3> HIDE DEF I
    <3> QED BY <2>3, <3>1, <3>2, Zenon
  <2>5. Install!Place(l) = n
    <3>1. \E k \in DOMAIN l : Install!Goes(l[k])
      BY <1>1, <2>2
    <3>2. Install!Place(l) = Install!SelectInSeq(l, Install!Goes)
      BY <3>1, Zenon DEF Install!Place
    <3>3. Install!SelectInSeq(l, Install!Goes) = Install!Min(I)
      BY <1>3, Zenon DEF Install!SelectInSeq
    <3>4. Install!Min(I) = CHOOSE x \in I : \A y \in I : x <= y
      BY Zenon DEF Install!Min
    <3> QED BY <2>4, <3>2, <3>3, <3>4, Zenon
  <2>6. IsPlace(l, n)
    <3>1. ASSUME NEW k \in 1 .. n - 1 PROVE ~Install!Goes(l[k])
      <4>1. k \in 1 .. Len(l) /\ ~(n <= k)
        BY <1>1, <2>2
      <4> QED BY <2>3, <4>1
    <3> QED BY <1>1, <2>2, <3>1 DEF IsPlace
  <2>7. ASSUME NEW p, IsPlace(l, p) PROVE p = n
    <3>1. p \in 1 .. Len(l) + 1
      BY <2>7 DEF IsPlace
    <3>2. ~(n < p)
      <4>1. n < p => n \in 1 .. p - 1
        BY <1>1, <2>2, <3>1
      <4> QED BY <2>2, <2>7, <4>1 DEF IsPlace
    <3>3. ~(p < n)
      <4>1. p < n => p \in 1 .. Len(l) /\ p <= Len(l) /\ ~(n <= p)
        BY <1>1, <2>2, <3>1
      <4>2. p < n => p \in I
        BY <2>7, <4>1 DEF IsPlace
      <4> QED BY <2>3, <4>1, <4>2
    <3> QED BY <1>1, <2>2, <3>1, <3>2, <3>3
  <2> QED BY <2>5, <2>6, <2>7
<1> QED BY <1>2, <1>3

\* A sequence cut at a place.
LEMMA CutInTwo ==
    ASSUME NEW S, NEW u \in Seq(S), NEW v \in Seq(S)
    PROVE  /\ SubSeq(u \o v, 1, Len(u)) = u
           /\ SubSeq(u \o v, Len(u) + 1, Len(u \o v)) = v
<1> DEFINE w == u \o v
<1>1. /\ w \in Seq(S) /\ Len(w) = Len(u) + Len(v) /\ Len(u) \in Nat /\ Len(v) \in Nat
      /\ \A i \in 1 .. Len(u) + Len(v) : w[i] = IF i <= Len(u) THEN u[i] ELSE v[i - Len(u)]
  BY ConcatProperties, LenProperties
<1> HIDE DEF w
<1>2. \A i \in 1 .. Len(w) : w[i] \in S
  BY <1>1
<1>3. SubSeq(w, 1, Len(u)) = u
  <2> DEFINE a == SubSeq(w, 1, Len(u))
  <2>1. /\ a \in Seq(S) /\ Len(a) = (IF 1 <= Len(u) THEN Len(u) - 1 + 1 ELSE 0)
        /\ \A i \in 1 .. Len(u) - 1 + 1 : a[i] = w[1 + i - 1]
    <3>1. \A i \in 1 .. Len(u) : w[i] \in S
      BY <1>1, <1>2
    <3> QED BY <1>1, <3>1, SubSeqProperties
  <2> HIDE DEF a
  <2>2. Len(a) = Len(u)
    BY <1>1, <2>1
  <2>3. ASSUME NEW i \in 1 .. Len(u) PROVE a[i] = u[i]
    <3>1. i \in 1 .. Len(u) - 1 + 1 /\ 1 + i - 1 = i /\ i \in 1 .. Len(u) + Len(v) /\ i <= Len(u)
      BY <1>1
    <3> QED BY <1>1, <2>1, <3>1
  <2>4. a = u
    BY <2>1, <2>2, <2>3, SeqEqual
  <2> QED BY <2>4 DEF a
<1>4. SubSeq(w, Len(u) + 1, Len(w)) = v
  <2> DEFINE b == SubSeq(w, Len(u) + 1, Len(w))
             from == Len(u) + 1
             to == Len(w)
  <2>1. /\ b \in Seq(S) /\ Len(b) = (IF from <= to THEN to - from + 1 ELSE 0)
        /\ \A i \in 1 .. to - from + 1 : b[i] = w[from + i - 1]
    <3>1. from \in Int /\ to \in Int /\ \A i \in from .. to : w[i] \in S
      BY <1>1, <1>2
    <3> QED BY <3>1, SubSeqProperties
  <2> HIDE DEF b
  <2>2. Len(b) = Len(v)
    BY <1>1, <2>1
  <2>3. ASSUME NEW i \in 1 .. Len(v) PROVE b[i] = v[i]
    <3>1. /\ i \in 1 .. to - from + 1 /\ from + i - 1 = Len(u) + i
          /\ Len(u) + i \in 1 .. Len(u) + Len(v) /\ ~(Len(u) + i <= Len(u))
          /\ Len(u) + i - Len(u) = i
      BY <1>1
    <3>2. b[i] = w[Len(u) + i]
      BY <2>1, <3>1
    <3> QED BY <1>1, <3>1, <3>2
  <2>4. b = v
    BY <2>1, <2>2, <2>3, SeqEqual
  <2> QED BY <2>4 DEF b
<1> QED BY <1>3, <1>4 DEF w

\* What is inserted there stands between the two parts.
LEMMA InsertJoins ==
    ASSUME NEW S, NEW u \in Seq(S), NEW v \in Seq(S), NEW e
    PROVE  Install!InsertAt(u \o v, Len(u) + 1, e) = (u \o <<e>>) \o v
<1> DEFINE s == u \o v
           n == Len(u) + 1
           a == SubSeq(s, 1, n - 1)
           b == SubSeq(s, n, Len(s))
<1>1. Install!InsertAt(s, n, e) = (a \o <<e>>) \o b
  <2> HIDE DEF s, n
  <2> QED BY Zenon DEF Install!InsertAt
<1>2. a = u /\ b = v
  <2>1. n - 1 = Len(u)
    BY LenProperties
  <2>2. a = SubSeq(s, 1, Len(u))
    <3> HIDE DEF s, n
    <3> QED BY <2>1, Zenon DEF a
  <2> HIDE DEF a, s
  <2> QED BY <2>2, CutInTwo DEF s
<1> HIDE DEF a, b
<1> QED BY <1>1, <1>2

\* None of the hooks of such items are draftcat's.
LEMMA CleanHooks ==
    \A l \in Seq(Clean) : AllOf(l) \in Seq(NotOurs) /\ OursIn(AllOf(l)) = <<>>
<1>1. Leaves(HooksOf, Clean, NotOurs)
  BY CleanStays, StayTypes DEF Clean, Leaves
<1>2. ASSUME NEW l \in Seq(Clean) PROVE AllOf(l) \in Seq(NotOurs)
  BY <1>1, GatherIn DEF AllOf
<1> QED BY <1>2, OthersStay

\* A list none of draftcat's hooks is found in is such a list, and the other way round.
LEMMA FoundIs ==
    \A l \in Seq(Install!Item) : l \in Seq(Clean) <=> ~Install!Found(l)
<1> SUFFICES ASSUME NEW l \in Seq(Install!Item)
             PROVE  l \in Seq(Clean) <=> ~Install!Found(l)
  OBVIOUS
<1>1. /\ Len(l) \in Nat /\ DOMAIN l = 1 .. Len(l) /\ l \in [1 .. Len(l) -> Install!Item]
      /\ \A k \in 1 .. Len(l) : l[k] \in Install!Item
  BY LenProperties, ElementOfSeq
<1>2. ASSUME l \in Seq(Clean), NEW k \in 1 .. Len(l), NEW h \in Install!ToSet(l[k].hooks)
      PROVE  h \notin Ours
  <2>1. l[k] \in Clean /\ l[k].hooks \in Seq(NotOurs)
    <3>1. l[k] \in Clean
      BY <1>2, ElementOfSeq
    <3> QED BY <3>1 DEF Clean
  <2>2. PICK j \in DOMAIN l[k].hooks : h = l[k].hooks[j]
    BY DEF Install!ToSet
  <2>3. h \in NotOurs
    BY <2>1, <2>2, LenProperties, ElementOfSeq
  <2> QED BY <2>3 DEF NotOurs
<1>3. ASSUME ~Install!Found(l), NEW k \in 1 .. Len(l) PROVE l[k] \in Clean
  <2> DEFINE s == l[k].hooks
  <2>1. l[k] = [group |-> l[k].group, hooks |-> s] /\ l[k].group \in BOOLEAN /\ s \in Seq(Install!Hook)
    BY <1>1 DEF Install!Item
  <2>2. ASSUME NEW j \in 1 .. Len(s) PROVE s[j] \in NotOurs
    <3>1. s[j] \in Install!Hook /\ s[j] \in Install!ToSet(s)
      BY <2>1, LenProperties, ElementOfSeq DEF Install!ToSet
    <3>2. s[j] \notin Ours
      BY <1>1, <1>3, <3>1 DEF Install!Found, Install!IsOurs
    <3> QED BY <3>1, <3>2 DEF NotOurs
  <2>3. s \in Seq(NotOurs)
    <3>1. Len(s) \in Nat /\ s \in [1 .. Len(s) -> Install!Hook]
      BY <2>1, LenProperties
    <3>2. s \in [1 .. Len(s) -> NotOurs]
      BY <2>2, <3>1
    <3> QED BY <3>1, <3>2, SeqDef
  <2> HIDE DEF s
  <2> QED BY <2>1, <2>3 DEF Clean
<1>4. ASSUME ~Install!Found(l) PROVE l \in Seq(Clean)
  <2>1. l \in [1 .. Len(l) -> Clean]
    BY <1>1, <1>3, <1>4
  <2> QED BY <1>1, <2>1, SeqDef
<1>5. ASSUME l \in Seq(Clean) PROVE ~Install!Found(l)
  BY <1>1, <1>2, <1>5 DEF Install!Found, Install!IsOurs
<1> QED BY <1>4, <1>5
-----------------------------------------------------------------------------
\* Items that stay are as many after draftcat's hooks are taken out of them.
Stays == {it \in Install!Item : ~Install!Goes(it)}

\* Before the place, as many items are kept as there are.
LEMMA KeptLen ==
    \A l \in Seq(Stays) : l \in Seq(Install!Item) /\ Len(Install!Kept(l)) = Len(l)
<1> DEFINE A == {l \in Seq(Stays) : Len(Install!Kept(l)) = Len(l)}
<1>0. Stays \subseteq Install!Item
  BY DEF Stays
<1>1. <<>> \in A
  BY GatherNone, AsGathered, EmptySeq
<1>2. ASSUME NEW l \in A, NEW it \in Stays PROVE Append(l, it) \in A
  <2>1. l \in Seq(Stays) /\ Len(Install!Kept(l)) = Len(l)
    OBVIOUS
  <2>2. /\ Append(l, it) \in Seq(Stays) /\ Append(l, it) = l \o <<it>>
        /\ Len(Append(l, it)) = Len(l) + 1
    BY <2>1, AppendProperties, AppendIsConcat
  <2>3. it \in Install!Item /\ ~Install!Goes(it)
    BY DEF Stays
  <2>4. l \in Seq(Install!Item) /\ <<it>> \in Seq(Install!Item)
    BY <1>0, <2>1, <2>3, SeqMonotonic
  <2>5. Install!Kept(l \o <<it>>) = Install!Kept(l) \o StayOf[it]
    BY <2>3, <2>4, KeptJoin, KeptOne
  <2>6. PICK new : StayOf[it] = <<new>>
    BY <2>3, StayTypes
  <2>7. Len(StayOf[it]) = 1 /\ StayOf[it] \in Seq(Clean) /\ Install!Kept(l) \in Seq(Clean)
    BY <2>3, <2>4, <2>6, StayTypes DEF Leaves
  <2>8. Len(Install!Kept(l) \o StayOf[it]) = Len(l) + 1
    <3> DEFINE u == Install!Kept(l)
               v == StayOf[it]
    <3>1. u \in Seq(Clean) /\ v \in Seq(Clean) /\ Len(u) = Len(l) /\ Len(v) = 1
      BY <2>1, <2>7
    <3> HIDE DEF u, v
    <3>2. Len(u \o v) = Len(u) + Len(v)
      BY <3>1, ConcatProperties
    <3> QED BY <3>1, <3>2 DEF u, v
  <2> QED BY <2>2, <2>5, <2>8
<1>3. A = Seq(Stays)
  <2>1. A \subseteq Seq(Stays)
    OBVIOUS
  <2> HIDE DEF A
  <2> QED BY <1>1, <1>2, <2>1, Longer
<1>4. ASSUME NEW l \in Seq(Stays) PROVE l \in Seq(Install!Item)
  BY <1>0, SeqMonotonic
<1> QED BY <1>3, <1>4

\* A list is what stands before the place of an entry, and the rest.
LEMMA CutAtPlace ==
    ASSUME NEW l \in Seq(Install!Item)
    PROVE  \E a \in Seq(Stays), b \in Seq(Install!Item) :
              l = a \o b /\ Install!Place(l) = Len(a) + 1
<1> DEFINE p == Install!Place(l)
           a == SubSeq(l, 1, p - 1)
           b == SubSeq(l, p, Len(l))
           n == Len(l)
<1>1. IsPlace(l, p)
  BY PlaceIs
<1> HIDE DEF p
<1>2. /\ n \in Nat /\ p \in 1 .. n + 1 /\ (\A k \in 1 .. p - 1 : ~Install!Goes(l[k]))
      /\ \A k \in 1 .. n : l[k] \in Install!Item
  BY <1>1, LenProperties, ElementOfSeq DEF IsPlace
<1>3. p - 1 \in 0 .. n /\ (p - 1) + 1 = p /\ p \in Int /\ p - 1 \in Int /\ 1 .. p - 1 \subseteq 1 .. n
      /\ p .. n \subseteq 1 .. n
  BY <1>2
<1>4. a \in Seq(Stays) /\ Len(a) = p - 1
  <2>1. \A k \in 1 .. p - 1 : l[k] \in Stays
    BY <1>2, <1>3 DEF Stays
  <2>2. a \in Seq(Stays) /\ Len(a) = IF 1 <= p - 1 THEN (p - 1) - 1 + 1 ELSE 0
    BY <1>3, <2>1, SubSeqProperties
  <2> HIDE DEF a
  <2> QED BY <1>2, <2>2
<1>5. b \in Seq(Install!Item)
  BY <1>2, <1>3, SubSeqProperties
<1>6. a \o b = l
  <2>1. SubSeq(l, 1, p - 1) \o SubSeq(l, (p - 1) + 1, n) = SubSeq(l, 1, n)
    <3>1. 1 \in 1 .. n + 1 /\ p - 1 \in 1 - 1 .. n /\ n \in p - 1 .. n
      BY <1>2
    <3> QED BY <3>1, ConcatAdjacentSubSeq
  <2> QED BY <1>3, <2>1, SubSeqFull
<1> HIDE DEF a, b
<1>7. Len(a) + 1 = p
  BY <1>2, <1>4
<1> QED BY <1>4, <1>5, <1>6, <1>7 DEF p

\* So an entry is put between two lists without draftcat's hooks, that are all
\* of the list that stays.
LEMMA PutBetween ==
    ASSUME NEW l \in Seq(Install!Item)
    PROVE  \E x \in Seq(Clean), y \in Seq(Clean) :
              /\ Install!Kept(l) = x \o y
              /\ \A e : Install!InsertAt(Install!Kept(l), Install!Place(l), e) = (x \o <<e>>) \o y
<1>1. PICK a \in Seq(Stays), b \in Seq(Install!Item) :
         l = a \o b /\ Install!Place(l) = Len(a) + 1
  BY CutAtPlace
<1>2. a \in Seq(Install!Item) /\ Len(Install!Kept(a)) = Len(a)
  BY KeptLen
<1>3. Install!Kept(l) = Install!Kept(a) \o Install!Kept(b)
  BY <1>1, <1>2, KeptJoin
<1>4. Install!Kept(a) \in Seq(Clean) /\ Install!Kept(b) \in Seq(Clean)
  BY <1>2, StayTypes
<1>5. ASSUME NEW e
      PROVE  Install!InsertAt(Install!Kept(l), Install!Place(l), e)
               = (Install!Kept(a) \o <<e>>) \o Install!Kept(b)
  <2> DEFINE u == Install!Kept(a)
             v == Install!Kept(b)
  <2>1. u \in Seq(Clean) /\ v \in Seq(Clean) /\ Len(u) + 1 = Len(a) + 1
    BY <1>2, <1>4
  <2>2. Install!Kept(l) = u \o v /\ Install!Place(l) = Len(u) + 1
    BY <1>1, <1>3, <2>1
  <2> HIDE DEF u, v
  <2>3. Install!InsertAt(u \o v, Len(u) + 1, e) = (u \o <<e>>) \o v
    BY <2>1, InsertJoins
  <2>4. Install!InsertAt(Install!Kept(l), Install!Place(l), e) = (u \o <<e>>) \o v
    BY <2>2, <2>3, Zenon
  <2> QED BY <2>4 DEF u, v
<1> QED BY <1>3, <1>4, <1>5

\* Draftcat's entry goes.
LEMMA EntryGoes ==
    ASSUME Install!HookSettingsAssumption, NEW h \in Ours
    PROVE  /\ Install!Entry(h) \in Install!Item /\ Install!Entry(h).hooks = <<h>>
           /\ OursIn(<<h>>) = <<h>> /\ Install!Goes(Install!Entry(h))
<1> DEFINE e == Install!Entry(h)
<1>1. e = [group |-> Grouped, hooks |-> <<h>>] /\ Grouped \in BOOLEAN /\ h \in Install!Hook
  BY DEF Install!Entry, Install!HookSettingsAssumption, Install!Hook
<1>2. /\ e \in Install!Item /\ e.hooks = <<h>>
      /\ Install!Others(e.hooks) = <<>> /\ OursIn(e.hooks) = <<h>>
  BY <1>1, OthersOne DEF Install!Item, RestOf, OursOf, Install!IsOurs
<1>3. Install!Goes(e)
  BY <1>2 DEF Install!Goes
<1> QED BY <1>2, <1>3

Between(x, h, y) == (x \o <<Install!Entry(h)>>) \o y

\* An entry between such lists: it is draftcat's only one, goes, and was put at
\* its place.
LEMMA EntryBetween ==
    ASSUME Install!HookSettingsAssumption,
           NEW h \in Ours, NEW x \in Seq(Clean), NEW y \in Seq(Clean)
    PROVE  /\ Between(x, h, y) \in Seq(Install!Item)
           /\ Install!Kept(Between(x, h, y)) = x \o y
           /\ Install!Place(Between(x, h, y)) = Len(x) + 1
           /\ OursIn(AllOf(Between(x, h, y))) = <<h>>
           /\ \E k \in 1 .. Len(Between(x, h, y)) : Between(x, h, y)[k] = Install!Entry(h)
<1> DEFINE e == Install!Entry(h)
           w == x \o <<e>>
           m == Between(x, h, y)
<1>2. e \in Install!Item /\ e.hooks = <<h>> /\ OursIn(<<h>>) = <<h>> /\ Install!Goes(e)
  BY EntryGoes
<1>3. h \in Install!Hook
  BY DEF Install!Hook
<1> HIDE DEF e
<1>4. StayOf[e] = <<>>
  BY <1>2, StayTypes
<1>5. /\ x \in Seq(Install!Item) /\ Install!Kept(x) = x
      /\ y \in Seq(Install!Item) /\ Install!Kept(y) = y
      /\ <<e>> \in Seq(Install!Item)
  BY <1>2, CleanKept
<1>6. /\ w \in Seq(Install!Item) /\ Len(w) = Len(x) + 1
      /\ Len(x) \in Nat /\ Len(y) \in Nat /\ w[Len(x) + 1] = e
      /\ \A k \in 1 .. Len(x) : w[k] = x[k]
  <2>1. /\ w \in Seq(Install!Item) /\ Len(w) = Len(x) + Len(<<e>>)
        /\ \A k \in 1 .. Len(x) + Len(<<e>>) : w[k] = IF k <= Len(x) THEN x[k] ELSE <<e>>[k - Len(x)]
    BY <1>5, ConcatProperties
  <2>2. Len(<<e>>) = 1 /\ Len(x) \in Nat /\ Len(y) \in Nat /\ <<e>>[1] = e
    BY LenProperties
  <2> HIDE DEF w
  <2>3. Len(x) + 1 - Len(x) = 1
    BY <2>2
  <2> QED BY <2>1, <2>2, <2>3
<1>7. Install!Kept(w) = x /\ AllOf(w) = AllOf(x) \o <<h>>
  <2>1. Install!Kept(w) = x \o <<>> /\ AllOf(w) = AllOf(x) \o e.hooks
    BY <1>2, <1>4, <1>5, KeptJoin, KeptOne
  <2> QED BY <1>2, <1>5, <2>1, ConcatEmptySeq
<1> HIDE DEF w
<1>8. m = w \o y
  BY DEF w, e, Between
<1> HIDE DEF m
<1>9. /\ m \in Seq(Install!Item) /\ Len(m) = Len(x) + 1 + Len(y)
      /\ m[Len(x) + 1] = e /\ \A k \in 1 .. Len(x) : m[k] = x[k]
  <2>1. /\ w \o y \in Seq(Install!Item) /\ Len(w \o y) = Len(w) + Len(y)
        /\ \A k \in 1 .. Len(w) + Len(y) : (w \o y)[k] = IF k <= Len(w) THEN w[k] ELSE y[k - Len(w)]
    BY <1>5, <1>6, ConcatProperties
  <2>2. /\ m \in Seq(Install!Item) /\ Len(m) = Len(w) + Len(y)
        /\ \A k \in 1 .. Len(w) + Len(y) : m[k] = IF k <= Len(w) THEN w[k] ELSE y[k - Len(w)]
    BY <1>8, <2>1
  <2>3. Len(m) = Len(x) + 1 + Len(y) /\ Len(w) + Len(y) = Len(x) + 1 + Len(y)
    BY <1>6, <2>2
  <2>4. m[Len(x) + 1] = e
    <3>1. Len(x) + 1 \in 1 .. Len(w) + Len(y) /\ Len(x) + 1 <= Len(w)
      BY <1>6
    <3>2. m[Len(x) + 1] = w[Len(x) + 1]
      BY <2>2, <3>1
    <3> QED BY <1>6, <3>2
  <2>5. ASSUME NEW k \in 1 .. Len(x) PROVE m[k] = x[k]
    <3>1. k \in 1 .. Len(w) + Len(y) /\ k <= Len(w)
      BY <1>6
    <3>2. m[k] = w[k]
      BY <2>2, <3>1
    <3> QED BY <1>6, <3>2
  <2> QED BY <2>2, <2>3, <2>4, <2>5
<1>10. Install!Kept(m) = x \o y
  <2>1. Install!Kept(w \o y) = Install!Kept(w) \o Install!Kept(y)
    BY <1>5, <1>6, KeptJoin
  <2> QED BY <1>5, <1>7, <1>8, <2>1
<1>11. Install!Place(m) = Len(x) + 1
  <2>1. ASSUME NEW k \in 1 .. Len(x) PROVE ~Install!Goes(m[k])
    BY <1>9, CleanStays, ElementOfSeq
  <2>2. /\ Len(x) + 1 \in 1 .. Len(m) + 1 /\ Len(x) + 1 - 1 = Len(x)
    BY <1>6, <1>9
  <2>3. IsPlace(m, Len(x) + 1)
    BY <1>2, <1>9, <2>1, <2>2 DEF IsPlace
  <2> QED BY <1>9, <2>3, PlaceIs
<1>12. OursIn(AllOf(m)) = <<h>>
  <2>1. /\ AllOf(x) \in Seq(Install!Hook) /\ AllOf(y) \in Seq(Install!Hook)
        /\ AllOf(w) \in Seq(Install!Hook) /\ <<h>> \in Seq(Install!Hook)
    BY <1>3, <1>5, <1>6, KeptJoin
  <2>2. OursIn(AllOf(x)) = <<>> /\ OursIn(AllOf(y)) = <<>>
    BY <1>5, CleanHooks
  <2>3. AllOf(m) = AllOf(w) \o AllOf(y)
    BY <1>5, <1>6, <1>8, KeptJoin
  <2>4. OursIn(AllOf(w)) = <<>> \o OursIn(<<h>>)
    BY <1>7, <2>1, <2>2, OthersJoin, ZenonT(60)
  <2>5. OursIn(<<h>>) = <<h>>
    BY <1>2
  <2>6. <<>> \o <<h>> = <<h>> /\ <<h>> \o <<>> = <<h>>
    BY <2>1, ConcatEmptySeq
  <2>7. OursIn(AllOf(m)) = OursIn(AllOf(w)) \o <<>>
    BY <2>1, <2>2, <2>3, OthersJoin
  <2> QED BY <2>4, <2>5, <2>6, <2>7
<1>13. Len(x) + 1 \in 1 .. Len(m)
  BY <1>6, <1>9
<1> QED BY <1>9, <1>10, <1>11, <1>12, <1>13 DEF e, m
-----------------------------------------------------------------------------
\* The documents a file may hold, and one with another list.
Doc == {d \in Install!Contents : d.has \/ d.list = <<>>}
With(doc, some, list) == [kind |-> doc.kind, has |-> some, list |-> list, others |-> doc.others]

\* Such a document has the list, and what else the other had.
LEMMA WithIs ==
    ASSUME NEW doc \in Doc, NEW some \in BOOLEAN, NEW list \in Seq(Install!Item),
           some \/ list = <<>>
    PROVE  /\ With(doc, some, list) \in Doc
           /\ With(doc, some, list).kind = doc.kind /\ With(doc, some, list).others = doc.others
           /\ With(doc, some, list).list = list /\ With(doc, some, list).has = some
           /\ \A other, l : With(With(doc, some, list), other, l) = With(doc, other, l)
BY DEF Doc, With, Install!Contents

\* Every document is one with its own list.
LEMMA WithItself ==
    ASSUME NEW doc \in Doc
    PROVE  /\ doc.kind \in {"nofile", "broken", "document"} /\ doc.has \in BOOLEAN
           /\ doc.list \in Seq(Install!Item) /\ doc.others \in BOOLEAN /\ (doc.has \/ doc.list = <<>>)
           /\ doc = With(doc, doc.has, doc.list)
BY DEF Doc, With, Install!Contents

\* What is written is the document with another list.
LEMMA WrittenIs ==
    ASSUME NEW doc \in Doc
    PROVE  /\ \A h : Install!PutIn(doc, h)
                = With(doc, TRUE, Install!InsertAt(Install!Kept(doc.list), Install!Place(doc.list),
                                                   Install!Entry(h)))
           /\ ~Install!Found(doc.list) => Install!TakeOut(doc) = doc
           /\ Install!Found(doc.list) =>
                Install!TakeOut(doc)
                  = With(doc, Install!Kept(doc.list) # <<>>, Install!Kept(doc.list))
<1>1. ASSUME NEW some, NEW l PROVE [doc EXCEPT !.has = some, !.list = l] = With(doc, some, l)
  <2>1. PICK k, a, b, c :
           /\ doc = [kind |-> k, has |-> a, list |-> b, others |-> c]
           /\ k = doc.kind /\ c = doc.others
    BY DEF Doc, Install!Contents
  <2>2. [doc EXCEPT !.has = some] = [kind |-> k, has |-> some, list |-> b, others |-> c]
    BY <2>1
  <2>3. [[kind |-> k, has |-> some, list |-> b, others |-> c] EXCEPT !.list = l]
          = [kind |-> k, has |-> some, list |-> l, others |-> c]
    OBVIOUS
  <2>4. [doc EXCEPT !.has = some, !.list = l] = [[doc EXCEPT !.has = some] EXCEPT !.list = l]
    OBVIOUS
  <2>5. With(doc, some, l) = [kind |-> k, has |-> some, list |-> l, others |-> c]
    BY <2>1, Zenon DEF With
  <2> QED BY <2>2, <2>3, <2>4, <2>5, Zenon
<1>2. ASSUME NEW h
      PROVE  Install!PutIn(doc, h)
               = With(doc, TRUE, Install!InsertAt(Install!Kept(doc.list), Install!Place(doc.list),
                                                  Install!Entry(h)))
  BY <1>1, Zenon DEF Install!PutIn
<1>3. ~Install!Found(doc.list) => Install!TakeOut(doc) = doc
  BY Zenon DEF Install!TakeOut
<1>4. Install!Found(doc.list) =>
        Install!TakeOut(doc) = With(doc, Install!Kept(doc.list) # <<>>, Install!Kept(doc.list))
  BY <1>1, Zenon DEF Install!TakeOut
<1> QED BY <1>2, <1>3, <1>4

\* What draftcat does not find itself in is what its removal leaves.
LEMMA TakeOutIs ==
    ASSUME NEW doc \in Doc
    PROVE  /\ Install!TakeOut(doc) \in Doc
           /\ Install!TakeOut(doc).kind = doc.kind /\ Install!TakeOut(doc).others = doc.others
           /\ Install!TakeOut(doc).list = Install!Kept(doc.list)
           /\ ~Install!Found(Install!TakeOut(doc).list)
           /\ Install!TakeOut(Install!TakeOut(doc)) = Install!TakeOut(doc)
           /\ Install!Mine(Install!TakeOut(doc)) = <<>>
           /\ Install!Foreign(Install!TakeOut(doc)) = Install!Foreign(doc)
<1> DEFINE out == Install!TakeOut(doc)
           kept == Install!Kept(doc.list)
           some == kept # <<>>
<1>1. doc.list \in Seq(Install!Item) /\ doc = With(doc, doc.has, doc.list)
  BY WithItself
<1>2. kept \in Seq(Clean) /\ kept \in Seq(Install!Item) /\ some \in BOOLEAN /\ (some \/ kept = <<>>)
  BY <1>1, StayTypes
<1>3. /\ out \in Doc /\ out.kind = doc.kind /\ out.others = doc.others /\ out.list = kept
  <2>1. CASE Install!Found(doc.list)
    <3>1. out = With(doc, some, kept)
      BY <2>1, WrittenIs, Zenon
    <3> HIDE DEF out, some, kept
    <3> QED BY <1>2, <3>1, WithIs
  <2>2. CASE ~Install!Found(doc.list)
    <3>1. out = doc
      BY <2>2, WrittenIs
    <3>2. kept = doc.list
      BY <1>1, <2>2, FoundIs, CleanKept
    <3> HIDE DEF out, kept
    <3> QED BY <3>1, <3>2
  <2> QED BY <2>1, <2>2
<1> HIDE DEF out, kept, some
<1>4. ~Install!Found(out.list)
  BY <1>2, <1>3, FoundIs
<1>5. Install!TakeOut(out) = out
  BY <1>3, <1>4, WrittenIs
<1>6. Install!Mine(out) = <<>>
  BY <1>2, <1>3, CleanHooks, AsGathered
<1>7. Install!Foreign(out) = Install!Foreign(doc)
  <2>1. Install!Others(AllOf(kept)) = AllOf(kept)
    BY <1>2, CleanHooks, OthersStay
  <2>2. AllOf(kept) = Install!Others(AllOf(doc.list))
    BY <1>1, HooksOfKept DEF kept
  <2> QED BY <1>3, <2>1, <2>2, AsGathered
<1> QED BY <1>3, <1>4, <1>5, <1>6, <1>7 DEF out, kept

\* An entry put in is the only one of draftcat's, once however often it is put in.
LEMMA PutInIs ==
    ASSUME Install!HookSettingsAssumption, NEW doc \in Doc, NEW h \in Ours
    PROVE  /\ Install!PutIn(doc, h) \in Doc
           /\ Install!PutIn(doc, h).kind = doc.kind /\ Install!PutIn(doc, h).others = doc.others
           /\ Install!PutIn(Install!PutIn(doc, h), h) = Install!PutIn(doc, h)
           /\ (doc.has => doc.list # <<>>) =>
                 Install!TakeOut(Install!PutIn(doc, h)) = Install!TakeOut(doc)
           /\ Install!Mine(Install!PutIn(doc, h)) = <<h>>
           /\ Install!Foreign(Install!PutIn(doc, h)) = Install!Foreign(doc)
<1> DEFINE in == Install!PutIn(doc, h)
           kept == Install!Kept(doc.list)
           some == kept # <<>>
           e == Install!Entry(h)
<1>1. /\ doc.list \in Seq(Install!Item) /\ doc = With(doc, doc.has, doc.list)
      /\ doc.has \in BOOLEAN /\ (doc.has \/ doc.list = <<>>)
  BY WithItself
<1>2. kept \in Seq(Clean) /\ kept \in Seq(Install!Item)
  BY <1>1, StayTypes
<1>3. PICK x \in Seq(Clean), y \in Seq(Clean) :
         /\ kept = x \o y
         /\ \A i : Install!InsertAt(kept, Install!Place(doc.list), i) = (x \o <<i>>) \o y
  BY <1>1, PutBetween
<1> DEFINE m == Between(x, h, y)
<1>4. /\ m \in Seq(Install!Item) /\ Install!Kept(m) = kept
      /\ Install!Place(m) = Len(x) + 1
      /\ OursIn(AllOf(m)) = <<h>>
      /\ \E k \in 1 .. Len(m) : m[k] = e
  <2> HIDE DEF in, kept, some
  <2> QED BY <1>3, EntryBetween
<1>5. in = With(doc, TRUE, m)
  BY <1>3, WrittenIs, Zenon DEF Between
<1> HIDE DEF in, kept, some, e
<1>6. Install!InsertAt(kept, Len(x) + 1, e) = m
  <2>1. Install!InsertAt(x \o y, Len(x) + 1, e) = (x \o <<e>>) \o y
    BY InsertJoins
  <2> QED BY <1>3, <2>1, Zenon DEF m, e, Between
<1> HIDE DEF m
<1>7. /\ in \in Doc /\ in.kind = doc.kind /\ in.others = doc.others /\ in.list = m
      /\ \A other, l : With(in, other, l) = With(doc, other, l)
  <2>1. TRUE \in BOOLEAN /\ (TRUE \/ m = <<>>)
    OBVIOUS
  <2>2. /\ With(doc, TRUE, m) \in Doc
        /\ With(doc, TRUE, m).kind = doc.kind /\ With(doc, TRUE, m).others = doc.others
        /\ With(doc, TRUE, m).list = m
        /\ \A other, l : With(With(doc, TRUE, m), other, l) = With(doc, other, l)
    BY <1>4, <2>1, WithIs, ZenonT(60)
  <2> QED BY <1>5, <2>2, Zenon
<1>8. Install!PutIn(in, h) = in
  <2>1. Install!PutIn(in, h)
          = With(in, TRUE, Install!InsertAt(Install!Kept(m), Install!Place(m), e))
    BY <1>7, WrittenIs, Zenon DEF e
  <2> QED BY <1>4, <1>5, <1>6, <1>7, <2>1, Zenon
<1>9. Install!Mine(in) = <<h>>
  BY <1>4, <1>7, AsGathered
<1>10. Install!Foreign(in) = Install!Foreign(doc)
  <2>1. AllOf(kept) = Install!Others(AllOf(doc.list))
    BY <1>1, HooksOfKept DEF kept
  <2>2. AllOf(kept) = Install!Others(AllOf(m))
    BY <1>4, HooksOfKept
  <2> QED BY <1>7, <2>1, <2>2, AsGathered
<1>11. ASSUME doc.has => doc.list # <<>> PROVE Install!TakeOut(in) = Install!TakeOut(doc)
  <2>1. Install!Found(m)
    <3>1. m \notin Seq(Clean)
      <4>1. e \in Install!Item /\ Install!Goes(e)
        BY EntryGoes DEF e
      <4>2. e \notin Clean
        BY <4>1, CleanStays
      <4> QED BY <1>4, <4>2, ElementOfSeq
    <3> QED BY <1>4, <3>1, FoundIs
  <2>2. Install!TakeOut(in) = With(doc, some, kept)
    BY <1>4, <1>7, <2>1, WrittenIs, Zenon DEF some
  <2>3. CASE Install!Found(doc.list)
    BY <2>2, <2>3, WrittenIs, Zenon DEF some, kept
  <2>4. CASE ~Install!Found(doc.list)
    <3>1. kept = doc.list
      BY <1>1, <2>4, FoundIs, CleanKept DEF kept
    <3>2. doc.has = some
      BY <1>1, <1>11, <3>1 DEF some
    <3> QED BY <1>1, <2>2, <2>4, <3>1, <3>2, WrittenIs, Zenon
  <2> QED BY <2>3, <2>4
<1> QED BY <1>7, <1>8, <1>9, <1>10, <1>11 DEF in
-----------------------------------------------------------------------------
\* What one run of the command leaves of a document.
LEMMA ResultIs ==
    ASSUME Install!HookSettingsAssumption, NEW doc \in Doc, NEW o \in InstallOptions
    PROVE  LET after == Install!Result(doc, o)
           IN  /\ after \in Doc /\ after.others = doc.others
               /\ Install!Mine(after) = (IF o.remove THEN <<>> ELSE <<o.hook>>)
               /\ Install!Foreign(after) = Install!Foreign(doc)
               /\ Install!Result(after, o) = after
               /\ (doc.has => doc.list # <<>>) => Install!TakeOut(after) = Install!TakeOut(doc)
<1>1. o.hook \in Ours
  BY DEF Install!HookSettingsAssumption
<1>2. CASE o.remove
  <2>1. \A d : Install!Result(d, o) = Install!TakeOut(d)
    BY <1>2, Zenon DEF Install!Result
  <2> QED BY <1>2, <2>1, TakeOutIs
<1>3. CASE ~o.remove
  <2>1. \A d : Install!Result(d, o) = Install!PutIn(d, o.hook)
    BY <1>3, Zenon DEF Install!Result
  <2>2. Install!PutIn(doc, o.hook) \in Doc
    BY <1>1, PutInIs
  <2> QED BY <1>1, <1>3, <2>1, <2>2, PutInIs
<1> QED BY <1>2, <1>3

\* What the command starts from is a document.
LEMMA RootIs ==
    /\ Install!NoFile \in Doc /\ Install!Broken \in Doc
    /\ \A c \in Doc : Install!Root(c) \in Doc
<1>1. <<>> \in Seq(Install!Item)
  OBVIOUS
<1> QED BY <1>1 DEF Doc, Install!Contents, Install!NoFile, Install!Broken, Install!Root

\* What a file holds and what an installer read are documents; what a file that
\* nobody touched since holds is what the command made of what it read.
InstallInv ==
    /\ settings \in [SettingsPaths -> Doc] /\ hadRead \in [Installers -> Doc]
    /\ installing \in [Installers -> {"idle", "read", "replacing", "done"}]
    /\ DOMAIN options = Installers /\ DOMAIN lastWrite = SettingsPaths
    /\ \A i \in Installers : installing[i] # "idle" => options[i] \in InstallOptions
    /\ \A p \in SettingsPaths : \A w \in lastWrite[p] :
          /\ w.opt \in InstallOptions /\ w.read \in Doc
          /\ settings[p] = Install!Result(w.read, w.opt)

\* It holds at first, ...
LEMMA InstallInits ==
    Install!HookSettingsAssumption /\ Install!Init => InstallInv
<1> SUFFICES ASSUME Install!HookSettingsAssumption, Install!Init PROVE InstallInv
  OBVIOUS
<1>1. Documents \cup {Install!NoFile} \subseteq Doc
  BY RootIs DEF Install!HookSettingsAssumption, Doc
<1>2. /\ settings \in [SettingsPaths -> Doc] /\ hadRead \in [Installers -> Doc]
      /\ installing = [i \in Installers |-> "idle"]
      /\ DOMAIN options = Installers /\ lastWrite = [p \in SettingsPaths |-> {}]
  BY <1>1, RootIs DEF Install!Init
<1> QED BY <1>2 DEF InstallInv

\* ... and every step keeps it.
LEMMA InstallSteps ==
    Install!HookSettingsAssumption /\ InstallInv /\ [Install!Next]_Install!vars => InstallInv'
<1> SUFFICES ASSUME Install!HookSettingsAssumption, InstallInv, [Install!Next]_Install!vars
             PROVE  InstallInv'
  OBVIOUS
<1>1. Documents \cup {Install!NoFile, Install!Broken} \subseteq Doc
  BY RootIs DEF Install!HookSettingsAssumption, Doc
<1>2. \A o \in InstallOptions : o.path \in SettingsPaths
  BY DEF Install!HookSettingsAssumption
<1>3. ASSUME NEW i \in Installers, NEW o \in InstallOptions, Install!Start(i, o) PROVE InstallInv'
  BY <1>3 DEF InstallInv, Install!Start, Install!Go
<1>4. ASSUME NEW i \in Installers, Install!Read(i) PROVE InstallInv'
  <2>1. installing[i] = "read" /\ options[i].path \in SettingsPaths
    BY <1>2, <1>4 DEF InstallInv, Install!Read
  <2>2. settings[options[i].path] \in Doc
    BY <2>1 DEF InstallInv
  <2>3. /\ hadRead' = [hadRead EXCEPT ![i] = settings[options[i].path]]
        /\ \E s \in {"replacing", "done"} : installing' = [installing EXCEPT ![i] = s]
        /\ UNCHANGED <<settings, options, lastWrite, settingsEdits>>
    BY <1>4 DEF Install!Read, Install!Go
  <2> QED BY <2>1, <2>2, <2>3 DEF InstallInv
<1>5. ASSUME NEW i \in Installers, Install!Rename(i) PROVE InstallInv'
  <2> DEFINE p == options[i].path
             was == Install!Root(hadRead[i])
             after == Install!Result(was, options[i])
             w == [opt |-> options[i], read |-> was]
  <2>1. /\ installing[i] = "replacing" /\ settings' = [settings EXCEPT ![p] = after]
        /\ lastWrite' = [lastWrite EXCEPT ![p] = {w}]
        /\ installing' = [installing EXCEPT ![i] = "done"]
        /\ UNCHANGED <<options, hadRead, settingsEdits>>
    BY <1>5 DEF Install!Rename, Install!Go
  <2>2. options[i] \in InstallOptions /\ p \in SettingsPaths /\ was \in Doc
    BY <1>2, <2>1, RootIs DEF InstallInv
  <2>3. after \in Doc
    <3>1. \A doc \in Doc, o \in InstallOptions : Install!Result(doc, o) \in Doc
      BY ResultIs
    <3> QED BY <2>2, <3>1
  <2>4. w.opt \in InstallOptions /\ w.read \in Doc /\ after = Install!Result(w.read, w.opt)
    BY <2>2
  <2> HIDE DEF p, was, after, w
  <2> QED BY <2>1, <2>2, <2>3, <2>4 DEF InstallInv
<1>6. ASSUME NEW i \in Installers, Install!GivesUp(i) PROVE InstallInv'
  BY <1>6 DEF InstallInv, Install!GivesUp, Install!Go
<1>7. ASSUME NEW p \in SettingsPaths, NEW c \in Documents \cup {Install!NoFile, Install!Broken},
             Install!Edit(p, c)
      PROVE  InstallInv'
  <2>1. c \in Doc
    BY <1>1
  <2>2. /\ settings' = [settings EXCEPT ![p] = c] /\ lastWrite' = [lastWrite EXCEPT ![p] = {}]
        /\ UNCHANGED <<installing, options, hadRead>>
    BY <1>7 DEF Install!Edit
  <2> QED BY <2>1, <2>2 DEF InstallInv
<1>8. ASSUME UNCHANGED Install!vars PROVE InstallInv'
  BY <1>8 DEF InstallInv, Install!vars
<1> QED BY <1>3, <1>4, <1>5, <1>6, <1>7, <1>8 DEF Install!Next

\* A file draftcat was the last to touch holds one entry of draftcat's, that of
\* the command that replaced it, or none after --remove, and the hooks of the
\* person that the command read, in their order; the same command run again
\* changes nothing, and --remove takes out all that an install put in
\* (upsertHookEntry, installHook).
THEOREM EntriesAreUpserted ==
    ASSUME Install!HookSettingsAssumption
    PROVE  Install!Spec => []EntryIsUpserted
<1>1. Install!Init => InstallInv
  BY InstallInits
<1>2. InstallInv /\ [Install!Next]_Install!vars => InstallInv'
  BY InstallSteps
<1>3. InstallInv => EntryIsUpserted
  <2> SUFFICES ASSUME InstallInv PROVE Install!EntryIsUpserted /\ Install!UpsertSettles
    BY DEF EntryIsUpserted
  <2>1. ASSUME NEW p \in SettingsPaths, NEW w \in lastWrite[p]
        PROVE  /\ Install!Mine(settings[p]) = (IF w.opt.remove THEN <<>> ELSE <<w.opt.hook>>)
               /\ Install!Foreign(settings[p]) = Install!Foreign(w.read)
               /\ settings[p].others = w.read.others
    <3>1. /\ w.opt \in InstallOptions /\ w.read \in Doc
          /\ settings[p] = Install!Result(w.read, w.opt)
      BY DEF InstallInv
    <3>2. PICK o, doc : o = w.opt /\ doc = w.read
      OBVIOUS
    <3>3. /\ Install!Mine(Install!Result(doc, o)) = (IF o.remove THEN <<>> ELSE <<o.hook>>)
          /\ Install!Foreign(Install!Result(doc, o)) = Install!Foreign(doc)
          /\ Install!Result(doc, o).others = doc.others
      BY <3>1, <3>2, ResultIs
    <3> QED BY <3>1, <3>2, <3>3
  <2>2. ASSUME NEW p \in SettingsPaths, NEW o \in InstallOptions
        PROVE  /\ Install!Result(Install!Result(settings[p], o), o)
                    = Install!Result(settings[p], o)
               /\ (settings[p].has => settings[p].list # <<>>) =>
                     Install!TakeOut(Install!Result(settings[p], o)) = Install!TakeOut(settings[p])
    <3>1. settings[p] \in Doc
      BY DEF InstallInv
    <3>2. PICK doc : doc = settings[p]
      OBVIOUS
    <3>3. /\ Install!Result(Install!Result(doc, o), o) = Install!Result(doc, o)
          /\ (doc.has => doc.list # <<>>) =>
                Install!TakeOut(Install!Result(doc, o)) = Install!TakeOut(doc)
      BY <3>1, <3>2, ResultIs
    <3> QED BY <3>2, <3>3
  <2>3. Install!EntryIsUpserted
    BY <2>1 DEF Install!EntryIsUpserted
  <2>4. Install!UpsertSettles
    BY <2>2 DEF Install!UpsertSettles
  <2> QED BY <2>3, <2>4
<1> QED BY <1>1, <1>2, <1>3, PTL DEF Install!Spec
=============================================================================
