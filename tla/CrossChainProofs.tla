--------------------------- MODULE CrossChainProofs ----------------------------
(***************************************************************************)
(* The bridge, for every number of users, messages and amounts: the        *)
(* storage of both tokens is well formed, rates come from the home owner   *)
(* only, first attempts follow the order of sending, and no token appears  *)
(* or vanishes over both chains and all messages, so that nobody is        *)
(* refused a redemption and no arriving message lowers a balance.          *)
(***************************************************************************)
EXTENDS CrossChain, RebaseTokenOpsProofs, SequenceTheorems

LEMMA Addresses ==
  /\ Pool \in Accounts /\ Router \in Accounts /\ VaultAddress \in Accounts
  /\ Deployer \in Accounts
  /\ Pool # VaultAddress
  /\ \A u \in Users : u \in Accounts /\ u # Pool
  /\ \A u \in Senders : u \in Users
  /\ Holders \subseteq Accounts
  /\ Amounts \subseteq UInt /\ Fees \subseteq UInt
  /\ Issues \subseteq UInt /\ Rates \subseteq UInt
  /\ 0 \in UInt /\ INITIAL_RATE \in UInt
<1>0. Holders \subseteq Accounts
  BY CrossChainAssumption DEF Holders
<1>1. Pool # VaultAddress
  <2> SUFFICES ASSUME Pool = VaultAddress PROVE FALSE
    OBVIOUS
  <2>1. {Pool, Router, VaultAddress} = {Pool, Router}
    OBVIOUS
  <2>2. Cardinality({Pool, Router}) <= 2
    <3>1. IsFiniteSet({Pool}) /\ Cardinality({Pool}) = 1
      BY FS_Singleton
    <3>2. {Pool, Router} = {Pool} \cup {Router}
      OBVIOUS
    <3> QED BY <3>1, <3>2, FS_AddElement
  <2> QED BY <2>1, <2>2, CrossChainAssumption
<1> QED BY <1>0, <1>1, CrossChainAssumption, TokenAssumption DEF UInt

-----------------------------------------------------------------------------
(* What a step does to the tokens: both stay well formed, and a rate that is *)
(* somewhere afterwards was somewhere before, or is the one home offers.     *)

Offered(tok) == {0} \cup tok[Home].sInterestRate..INITIAL_RATE

RatesOffered(tok, offered) ==
    \A u \in Accounts : tok.sUserToInterestRate[u] \in offered

TokensInv(tok) ==
    /\ tok \in [Chains -> TokenStorage]
    /\ \A c \in Chains : WellFormed(tok[c]) /\ RatesOffered(tok[c], Offered(tok))
    /\ tok[Home].sInterestRate <= INITIAL_RATE

\* A call on one chain that keeps its token well formed, changes no offer and
\* leaves rates that were offered.
LEMMA OneTokenChanges ==
  ASSUME NEW tok, TokensInv(tok), NEW c \in Chains, NEW new, WellFormed(new),
         new.sInterestRate = tok[c].sInterestRate,
         RatesOffered(new, Offered(tok))
  PROVE  /\ TokensInv([tok EXCEPT ![c] = new])
         /\ Offered([tok EXCEPT ![c] = new]) = Offered(tok)
<1> DEFINE after == [tok EXCEPT ![c] = new]
<1>1. Home \in Chains
  BY DEF Chains
<1>2. after \in [Chains -> TokenStorage]
  BY DEF TokensInv, WellFormed
<1>3. after[Home].sInterestRate = tok[Home].sInterestRate
  BY <1>1 DEF TokensInv
<1>4. Offered(after) = Offered(tok)
  BY <1>3 DEF Offered
<1>5. \A d \in Chains : after[d] = IF d = c THEN new ELSE tok[d]
  BY DEF TokensInv
<1> HIDE DEF after
<1>6. TokensInv(after)
  BY <1>2, <1>3, <1>4, <1>5 DEF TokensInv
<1> QED BY <1>4, <1>6 DEF after

\* Only mint writes a rate, and only setInterestRete the rate that is offered.
LEMMA MintRates ==
  ASSUME NEW tok \in TokenStorage, NEW u \in Accounts, NEW amount, NEW rate
  PROVE  /\ AfterMint(tok, u, amount, rate).sInterestRate = tok.sInterestRate
         /\ AfterMint(tok, u, amount, rate).sUserToInterestRate
              = [tok.sUserToInterestRate EXCEPT ![u] = rate]
BY DEF AfterMint, TokenStorage

LEMMA BurnRates ==
  ASSUME NEW tok \in TokenStorage, NEW t, NEW u \in Accounts, NEW amount
  PROVE  /\ AfterBurn(tok, t, u, amount).sInterestRate = tok.sInterestRate
         /\ AfterBurn(tok, t, u, amount).sUserToInterestRate = tok.sUserToInterestRate
BY DEF AfterBurn, TokenStorage

LEMMA TransferRates ==
  ASSUME NEW tok \in TokenStorage, NEW t, NEW u \in Accounts, NEW v \in Accounts,
         NEW amount
  PROVE  /\ AfterTransfer(tok, t, u, v, amount).sInterestRate = tok.sInterestRate
         /\ AfterTransfer(tok, t, u, v, amount).sUserToInterestRate
              = tok.sUserToInterestRate
BY DEF AfterTransfer, MoveBalance, TokenStorage

LEMMA TransferFromRates ==
  ASSUME NEW tok \in TokenStorage, NEW t, NEW spender \in Accounts,
         NEW u \in Accounts, NEW v \in Accounts, NEW amount
  PROVE  /\ AfterTransferFrom(tok, t, spender, u, v, amount).sInterestRate
              = tok.sInterestRate
         /\ AfterTransferFrom(tok, t, spender, u, v, amount).sUserToInterestRate
              = tok.sUserToInterestRate
BY DEF AfterTransferFrom, MoveBalance, TokenStorage

LEMMA ApproveRates ==
  ASSUME NEW tok \in TokenStorage, NEW u \in Accounts, NEW v \in Accounts, NEW amount
  PROVE  /\ AfterApprove(tok, u, v, amount).sInterestRate = tok.sInterestRate
         /\ AfterApprove(tok, u, v, amount).sUserToInterestRate
              = tok.sUserToInterestRate
BY DEF AfterApprove, TokenStorage

Minted(tok, c, u, amount, rate) ==
    [tok EXCEPT ![c] = AfterMint(tok[c], u, amount, rate)]

\* A mint with a rate that was offered.
LEMMA MintOffered ==
  ASSUME NEW tok, TokensInv(tok), NEW c \in Chains, NEW t \in Nat,
         NEW caller \in Accounts, NEW u \in Accounts, NEW amount \in UInt,
         NEW rate \in UInt, rate \in Offered(tok),
         CanMint(tok[c], t, caller, u, amount)
  PROVE  /\ TokensInv(Minted(tok, c, u, amount, rate))
         /\ Offered(Minted(tok, c, u, amount, rate)) = Offered(tok)
<1> DEFINE new == AfterMint(tok[c], u, amount, rate)
<1>1. WellFormed(tok[c]) /\ tok[c] \in TokenStorage
  BY DEF TokensInv, WellFormed
<1>2. WellFormed(new)
  BY <1>1, MintWellFormed
<1>3. /\ new.sInterestRate = tok[c].sInterestRate
      /\ new.sUserToInterestRate = [tok[c].sUserToInterestRate EXCEPT ![u] = rate]
  BY <1>1, MintRates
<1>4. tok[c].sUserToInterestRate \in [Accounts -> UInt]
  BY <1>1 DEF TokenStorage
<1> HIDE DEF new
<1>5. RatesOffered(new, Offered(tok))
  BY <1>3, <1>4 DEF RatesOffered, TokensInv
<1> QED BY <1>2, <1>3, <1>5, OneTokenChanges DEF new, Minted

\* A call that writes no rate.
LEMMA NoRateWritten ==
  ASSUME NEW tok, TokensInv(tok), NEW c \in Chains, NEW new, WellFormed(new),
         new.sInterestRate = tok[c].sInterestRate,
         new.sUserToInterestRate = tok[c].sUserToInterestRate
  PROVE  /\ TokensInv([tok EXCEPT ![c] = new])
         /\ Offered([tok EXCEPT ![c] = new]) = Offered(tok)
<1>1. RatesOffered(new, Offered(tok))
  BY DEF RatesOffered, TokensInv
<1> QED BY <1>1, OneTokenChanges

-----------------------------------------------------------------------------
(* The messages: nonces grow with every message of a sender, and the first   *)
(* attempts have been made of exactly those up to the inbound nonce.         *)

InOrder(c) ==
    /\ \A u \in Accounts : inboundNonce[c][u] <= outboundNonce[c][u]
    /\ \A i \in DOMAIN sent[c] :
          /\ sent[c][i].nonce <= outboundNonce[c][sent[c][i].sender]
          /\ sent[c][i].state = "UNTOUCHED" <=>
                inboundNonce[c][sent[c][i].sender] < sent[c][i].nonce
    /\ \A i, j \in DOMAIN sent[c] :
          i < j /\ sent[c][i].sender = sent[c][j].sender =>
             sent[c][i].nonce < sent[c][j].nonce

MessagesInv ==
    /\ sent \in [Chains -> Seq(Message)]
    /\ outboundNonce \in [Chains -> [Accounts -> Nat]]
    /\ inboundNonce \in [Chains -> [Accounts -> Nat]]
    /\ \A c \in Chains :
          /\ Len(sent[c]) <= MaxMessages[c]
          /\ InOrder(c)
          /\ \A i \in DOMAIN sent[c] : sent[c][i].rate \in Offered(token)

CrossChainInv ==
    /\ TokensInv(token)
    /\ sUserToAmountDeposited \in [Accounts -> UInt]
    /\ now \in 0..MaxTime
    /\ issued \in [Chains -> 0..MaxIssued]
    /\ MessagesInv

LEMMA InitCrossChainInv == Init => CrossChainInv
<1> SUFFICES ASSUME Init PROVE CrossChainInv
  OBVIOUS
<1>1. WellFormed(Deployed(Deployer))
  BY DeployedWellFormed, Addresses
<1>2. ASSUME NEW c \in Chains
      PROVE  WellFormed(token[c]) /\ RatesOffered(token[c], Offered(token))
  <2> DEFINE minters == IF c = Home THEN {Pool, VaultAddress} ELSE {Pool}
  <2>1. token[c] = [Deployed(Deployer) EXCEPT !.minters = minters]
    BY DEF Init
  <2>2. minters \in SUBSET Accounts
    BY Addresses
  <2> HIDE DEF minters
  <2>3. WellFormed(token[c])
    BY <1>1, <2>1, <2>2 DEF WellFormed, TokenStorage
  <2>4. \A u \in Accounts : token[c].sUserToInterestRate[u] = 0
    BY <2>1 DEF Deployed
  <2> QED BY <2>3, <2>4 DEF RatesOffered, Offered
<1>3. token[Home].sInterestRate = INITIAL_RATE
  BY DEF Init, Deployed, Chains
<1>4. token \in [Chains -> TokenStorage]
  <2>1. token = [c \in Chains |-> token[c]]
    BY DEF Init
  <2> QED BY <1>2, <2>1 DEF WellFormed
<1>5. TokensInv(token)
  BY <1>2, <1>3, <1>4, TokenAssumption DEF TokensInv
<1>6. MessagesInv
  <2>1. \A c \in Chains : sent[c] = <<>> /\ Len(sent[c]) = 0 /\ DOMAIN sent[c] = {}
    BY DEF Init
  <2>2. \A c \in Chains : Len(sent[c]) <= MaxMessages[c]
    BY <2>1, CrossChainAssumption DEF Chains
  <2>3. ASSUME NEW c \in Chains PROVE InOrder(c)
    BY <2>1 DEF InOrder, Init, Zero
  <2>4. sent \in [Chains -> Seq(Message)]
    BY DEF Init
  <2> QED BY <2>1, <2>2, <2>3, <2>4 DEF MessagesInv, Init, Zero
<1> QED BY <1>5, <1>6, Addresses, CrossChainAssumption DEF CrossChainInv, Init, Zero

\* Messages of which nothing changes keep their invariant while the offer
\* only grows.
LEMMA MessagesKept ==
  ASSUME MessagesInv, UNCHANGED Bridge, Offered(token) \subseteq Offered(token')
  PROVE  MessagesInv'
BY DEF MessagesInv, InOrder, Bridge

-----------------------------------------------------------------------------
(* Sending. *)

\* What ccipSend does to the token of the source chain, and to its message.
LEMMA SendKeepsToken ==
  ASSUME TokensInv(token), now \in Nat, NEW c \in Chains, NEW u \in Users,
         NEW amount \in UInt, NEW fee \in UInt, CanCcipSend(c, u, amount, fee)
  PROVE  /\ WellFormed(AfterBurn(AtPool(c, u, amount), now, Pool, amount))
         /\ AfterBurn(AtPool(c, u, amount), now, Pool, amount).sInterestRate
              = token[c].sInterestRate
         /\ AfterBurn(AtPool(c, u, amount), now, Pool, amount).sUserToInterestRate
              = token[c].sUserToInterestRate
         /\ Resolve(AtPool(c, u, amount), now, Pool, amount) \in UInt
         /\ amount - fee \in UInt
<1> DEFINE approved == Approved(c, u, amount)
           atPool == AtPool(c, u, amount)
           after == AfterBurn(atPool, now, Pool, amount)
<1>1. u \in Accounts /\ Pool \in Accounts /\ Router \in Accounts
  BY Addresses
<1>2. WellFormed(token[c]) /\ token[c] \in TokenStorage
  BY DEF TokensInv, WellFormed
<1>3. WellFormed(approved) /\ approved \in TokenStorage
  BY <1>1, <1>2, AllowanceWellFormed DEF Approved, AfterApprove, WellFormed
<1>4. CanTransferFrom(approved, now, Router, u, Pool, amount)
  BY DEF CanCcipSend
<1>5. WellFormed(atPool) /\ atPool \in TokenStorage
  <2> HIDE DEF approved
  <2>1. WellFormed(AfterTransferFrom(approved, now, Router, u, Pool, amount))
    BY <1>1, <1>3, <1>4, TransferFromWellFormed
  <2> QED BY <2>1 DEF AtPool, approved, WellFormed
<1>6. CanBurn(atPool, now, Pool, Pool, amount) /\ fee <= amount
  BY DEF CanCcipSend, CanLockOrBurn
<1>7. /\ atPool.sInterestRate = token[c].sInterestRate
      /\ atPool.sUserToInterestRate = token[c].sUserToInterestRate
  <2>1. /\ approved.sInterestRate = token[c].sInterestRate
        /\ approved.sUserToInterestRate = token[c].sUserToInterestRate
    BY <1>1, <1>2, ApproveRates DEF Approved
  <2>2. atPool = AfterTransferFrom(approved, now, Router, u, Pool, amount)
    BY DEF AtPool
  <2> HIDE DEF approved, atPool
  <2> QED BY <1>1, <1>3, <2>1, <2>2, TransferFromRates
<1>8. Resolve(atPool, now, Pool, amount) \in UInt
  <2> HIDE DEF atPool
  <2>1. Resolve(atPool, now, Pool, amount) \in Nat
    BY <1>1, <1>5, <1>6, ResolveIsNat DEF CanBurn
  <2>2. atPool.balances[Pool] \in UInt
    BY <1>1, <1>5, StorageTypes
  <2> QED BY <1>6, <2>1, <2>2, TokenAssumption DEF CanBurn, UInt
<1>9. WellFormed(after)
  <2> HIDE DEF atPool
  <2> QED BY <1>1, <1>5, <1>6, BurnWellFormed
<1>10. /\ after.sInterestRate = token[c].sInterestRate
       /\ after.sUserToInterestRate = token[c].sUserToInterestRate
  <2> HIDE DEF atPool
  <2> QED BY <1>1, <1>5, <1>7, BurnRates
<1>11. amount - fee \in UInt
  BY <1>6, TokenAssumption DEF UInt
<1> QED BY <1>8, <1>9, <1>10, <1>11

\* A new message carries the next nonce of its sender and has not been tried.
LEMMA NewMessageInOrder ==
  ASSUME MessagesInv, NEW c \in Chains, NEW m \in Message,
         m.nonce = outboundNonce[c][m.sender] + 1, m.state = "UNTOUCHED",
         m.rate \in Offered(token), Offered(token') = Offered(token),
         Len(sent[c]) < MaxMessages[c],
         sent' = [sent EXCEPT ![c] = Append(@, m)],
         outboundNonce' = [outboundNonce EXCEPT ![c][m.sender] = @ + 1],
         inboundNonce' = inboundNonce
  PROVE  MessagesInv'
<1> DEFINE u == m.sender
<1>1. u \in Accounts
  BY Addresses DEF Message
<1>2. /\ sent[c] \in Seq(Message) /\ sent'[c] = Append(sent[c], m)
      /\ sent' \in [Chains -> Seq(Message)]
  BY DEF MessagesInv
<1>3. /\ Len(sent'[c]) = Len(sent[c]) + 1
      /\ sent'[c][Len(sent[c]) + 1] = m
      /\ \A i \in 1..Len(sent[c]) : sent'[c][i] = sent[c][i]
  BY <1>2, AppendProperties
<1>4. Len(sent[c]) \in Nat /\ DOMAIN sent[c] = 1..Len(sent[c])
  BY <1>2
<1>5. DOMAIN sent'[c] = DOMAIN sent[c] \cup {Len(sent[c]) + 1}
  BY <1>2, <1>3, <1>4
<1>6. \A d \in Chains \ {c} : sent'[d] = sent[d] /\ outboundNonce'[d] = outboundNonce[d]
  BY DEF MessagesInv
<1>7. /\ outboundNonce' \in [Chains -> [Accounts -> Nat]]
      /\ \A v \in Accounts : outboundNonce'[c][v] =
            IF v = u THEN outboundNonce[c][v] + 1 ELSE outboundNonce[c][v]
  BY <1>1 DEF MessagesInv
<1>8. \A i \in DOMAIN sent[c] : sent[c][i] \in Message /\ sent[c][i].sender \in Accounts
  <2> SUFFICES ASSUME NEW i \in DOMAIN sent[c]
               PROVE  sent[c][i] \in Message /\ sent[c][i].sender \in Accounts
    OBVIOUS
  <2>1. sent[c][i] \in Message
    BY <1>2, <1>4
  <2> QED BY <2>1, Addresses DEF Message
<1>9. \A v \in Accounts : outboundNonce[c][v] \in Nat /\ inboundNonce[c][v] \in Nat
  BY DEF MessagesInv
<1>10. InOrder(c)
  BY DEF MessagesInv
<1> HIDE DEF u
<1>11. InOrder(c)'
  <2>1. ASSUME NEW v \in Accounts PROVE inboundNonce'[c][v] <= outboundNonce'[c][v]
    BY <1>7, <1>9, <1>10 DEF InOrder
  <2>2. ASSUME NEW i \in DOMAIN sent'[c]
        PROVE  /\ sent'[c][i].nonce <= outboundNonce'[c][sent'[c][i].sender]
               /\ sent'[c][i].state = "UNTOUCHED" <=>
                     inboundNonce'[c][sent'[c][i].sender] < sent'[c][i].nonce
    <3>1. CASE i \in DOMAIN sent[c]
      <4>1. sent'[c][i] = sent[c][i] /\ sent[c][i].nonce \in Nat
        BY <1>3, <1>4, <1>8, <3>1 DEF Message
      <4> QED BY <1>7, <1>8, <1>9, <1>10, <3>1, <4>1, SMTT(30) DEF InOrder
    <3>2. CASE i = Len(sent[c]) + 1
      BY <1>1, <1>3, <1>7, <1>9, <1>10, <3>2 DEF InOrder, u
    <3> QED BY <1>5, <3>1, <3>2
  <2>3. ASSUME NEW i \in DOMAIN sent'[c], NEW j \in DOMAIN sent'[c], i < j,
               sent'[c][i].sender = sent'[c][j].sender
        PROVE  sent'[c][i].nonce < sent'[c][j].nonce
    <3>1. i \in DOMAIN sent[c] /\ sent'[c][i] = sent[c][i]
      BY <1>3, <1>4, <1>5, <2>3
    <3>2. CASE j \in DOMAIN sent[c]
      BY <1>3, <1>4, <1>10, <2>3, <3>1, <3>2 DEF InOrder
    <3>3. CASE j = Len(sent[c]) + 1
      <4>1. sent[c][i].sender = u /\ sent'[c][j].nonce = outboundNonce[c][u] + 1
        BY <1>3, <2>3, <3>1, <3>3 DEF u
      <4>2. sent[c][i].nonce <= outboundNonce[c][u] /\ sent[c][i].nonce \in Nat
        BY <1>8, <1>10, <3>1, <4>1 DEF InOrder, Message
      <4> QED BY <1>1, <1>9, <3>1, <4>1, <4>2
    <3> QED BY <1>5, <3>2, <3>3
  <2> QED BY <2>1, <2>2, <2>3 DEF InOrder
<1>12. ASSUME NEW d \in Chains, d # c PROVE InOrder(d)'
  BY <1>6, <1>12 DEF InOrder, MessagesInv
<1>13. Len(sent'[c]) <= MaxMessages[c]
  BY <1>3, <1>4, CrossChainAssumption
<1>14. \A i \in DOMAIN sent'[c] : sent'[c][i].rate \in Offered(token')
  BY <1>3, <1>4, <1>5 DEF MessagesInv
<1> QED BY <1>2, <1>6, <1>7, <1>11, <1>12, <1>13, <1>14 DEF MessagesInv

-----------------------------------------------------------------------------
(* Executing. *)

\* What an attempt does to the messages.
Tried(c, i, outcome) == sent' = [sent EXCEPT ![c][i].state = outcome]

\* An attempt changes the state of its message and nothing else of it.
LEMMA AttemptChangesState ==
  ASSUME MessagesInv, NEW c \in Chains, NEW i \in DOMAIN sent[c],
         NEW outcome \in {"SUCCESS", "FAILURE"},
         Tried(c, i, outcome)
  PROVE  /\ sent' \in [Chains -> Seq(Message)]
         /\ \A d \in Chains \ {c} : sent'[d] = sent[d]
         /\ DOMAIN sent'[c] = DOMAIN sent[c]
         /\ Len(sent'[c]) = Len(sent[c])
         /\ \A j \in DOMAIN sent[c] :
               /\ sent[c][j] \in Message
               /\ sent[c][j].sender \in Accounts
               /\ sent'[c][j].nonce = sent[c][j].nonce
               /\ sent'[c][j].sender = sent[c][j].sender
               /\ sent'[c][j].rate = sent[c][j].rate
               /\ sent'[c][j].amount = sent[c][j].amount
               /\ sent'[c][j].burnt = sent[c][j].burnt
               /\ sent'[c][j].receiver = sent[c][j].receiver
               /\ sent'[c][j].state = IF j = i THEN outcome ELSE sent[c][j].state
<1> DEFINE tried == [sent[c][i] EXCEPT !.state = outcome]
<1>1. sent \in [Chains -> Seq(Message)]
  BY DEF MessagesInv
<1>2. sent[c] \in Seq(Message) /\ i \in 1..Len(sent[c])
  BY <1>1
<1>3. sent[c][i] \in Message
  BY <1>2
<1>4. tried \in Message
  BY <1>3 DEF Message
<1>5. /\ tried.nonce = sent[c][i].nonce /\ tried.sender = sent[c][i].sender
      /\ tried.rate = sent[c][i].rate /\ tried.state = outcome
      /\ tried.amount = sent[c][i].amount /\ tried.burnt = sent[c][i].burnt
      /\ tried.receiver = sent[c][i].receiver
  BY <1>3 DEF Message
<1>6. sent' = [sent EXCEPT ![c] = [sent[c] EXCEPT ![i] = tried]]
  BY <1>1, <1>2, <1>3 DEF Message, Tried
<1> HIDE DEF tried
<1>7. /\ [sent[c] EXCEPT ![i] = tried] \in Seq(Message)
      /\ Len([sent[c] EXCEPT ![i] = tried]) = Len(sent[c])
      /\ \A j \in 1..Len(sent[c]) :
            [sent[c] EXCEPT ![i] = tried][j] = IF j = i THEN tried ELSE sent[c][j]
  BY <1>2, <1>4, ExceptSeq
<1>8. sent'[c] = [sent[c] EXCEPT ![i] = tried]
  BY <1>1, <1>6
<1>9. sent' \in [Chains -> Seq(Message)] /\ \A d \in Chains \ {c} : sent'[d] = sent[d]
  BY <1>1, <1>6, <1>7
<1>10. DOMAIN sent[c] = 1..Len(sent[c]) /\ DOMAIN sent'[c] = DOMAIN sent[c]
  BY <1>2, <1>7, <1>8
<1>11. ASSUME NEW j \in DOMAIN sent[c]
       PROVE  sent[c][j] \in Message /\ sent[c][j].sender \in Accounts
  <2>1. sent[c][j] \in Message
    BY <1>2, <1>10, <1>11
  <2> QED BY <2>1, Addresses DEF Message
<1> QED BY <1>5, <1>7, <1>8, <1>9, <1>10, <1>11

\* The first attempt of a message takes the next inbound nonce, and a later one
\* none.
FirstTry(c, i) ==
    /\ sent[c][i].nonce = inboundNonce[c][sent[c][i].sender] + 1
    /\ inboundNonce' = [inboundNonce EXCEPT ![c][sent[c][i].sender] = @ + 1]

Retry(c, i) == sent[c][i].state = "FAILURE" /\ inboundNonce' = inboundNonce

LEMMA AttemptInOrder ==
  ASSUME MessagesInv, NEW c \in Chains, NEW i \in DOMAIN sent[c],
         NEW outcome \in {"SUCCESS", "FAILURE"},
         Tried(c, i, outcome),
         Offered(token') = Offered(token),
         outboundNonce' = outboundNonce,
         FirstTry(c, i) \/ Retry(c, i)
  PROVE  MessagesInv'
<1> DEFINE u == sent[c][i].sender
<1>1. /\ sent' \in [Chains -> Seq(Message)]
      /\ \A d \in Chains \ {c} : sent'[d] = sent[d]
      /\ DOMAIN sent'[c] = DOMAIN sent[c]
      /\ Len(sent'[c]) = Len(sent[c])
      /\ \A j \in DOMAIN sent[c] :
            /\ sent[c][j] \in Message
            /\ sent[c][j].sender \in Accounts
            /\ sent'[c][j].nonce = sent[c][j].nonce
            /\ sent'[c][j].sender = sent[c][j].sender
            /\ sent'[c][j].rate = sent[c][j].rate
            /\ sent'[c][j].amount = sent[c][j].amount
            /\ sent'[c][j].burnt = sent[c][j].burnt
            /\ sent'[c][j].receiver = sent[c][j].receiver
            /\ sent'[c][j].state = IF j = i THEN outcome ELSE sent[c][j].state
  BY AttemptChangesState
<1>2. /\ inboundNonce' \in [Chains -> [Accounts -> Nat]]
      /\ \A d \in Chains \ {c} : inboundNonce'[d] = inboundNonce[d]
  <2>1. inboundNonce \in [Chains -> [Accounts -> Nat]]
    BY DEF MessagesInv
  <2>2. u \in Accounts
    BY <1>1
  <2>3. \/ inboundNonce' = [inboundNonce EXCEPT ![c][u] = @ + 1]
        \/ inboundNonce' = inboundNonce
    BY DEF FirstTry, Retry
  <2> HIDE DEF u
  <2> QED BY <2>1, <2>2, <2>3
<1>3. \A v \in Accounts : inboundNonce[c][v] \in Nat /\ outboundNonce[c][v] \in Nat
  BY DEF MessagesInv
<1>4. \A j \in DOMAIN sent[c] : sent[c][j].nonce \in Nat
  BY <1>1 DEF Message
<1>5. /\ u \in Accounts /\ i \in DOMAIN sent[c]
      /\ sent[c][i].nonce <= outboundNonce[c][u]
      /\ InOrder(c)
  BY <1>1 DEF MessagesInv, InOrder
<1>6. /\ \A j \in DOMAIN sent[c] : sent'[c][j].nonce <= outboundNonce'[c][sent'[c][j].sender]
      /\ \A j, k \in DOMAIN sent[c] :
            j < k /\ sent'[c][j].sender = sent'[c][k].sender =>
               sent'[c][j].nonce < sent'[c][k].nonce
  <2>1. ASSUME NEW j \in DOMAIN sent[c]
        PROVE  sent'[c][j].nonce <= outboundNonce'[c][sent'[c][j].sender]
    BY <1>1, <1>5 DEF InOrder
  <2>2. ASSUME NEW j \in DOMAIN sent[c], NEW k \in DOMAIN sent[c],
               j < k, sent'[c][j].sender = sent'[c][k].sender
        PROVE  sent'[c][j].nonce < sent'[c][k].nonce
    BY <1>1, <1>5, <2>2 DEF InOrder
  <2> QED BY <2>1, <2>2
<1>7. InOrder(c)'
  <2>1. CASE /\ sent[c][i].nonce = inboundNonce[c][u] + 1
             /\ inboundNonce' = [inboundNonce EXCEPT ![c][u] = @ + 1]
    <3>1. \A v \in Accounts : inboundNonce'[c][v] =
             IF v = u THEN inboundNonce[c][v] + 1 ELSE inboundNonce[c][v]
      BY <1>5, <2>1 DEF MessagesInv
    <3>2. \A v \in Accounts : inboundNonce'[c][v] <= outboundNonce'[c][v]
      BY <1>3, <1>5, <2>1, <3>1 DEF InOrder
    <3>3. ASSUME NEW j \in DOMAIN sent[c]
          PROVE  sent'[c][j].state = "UNTOUCHED" <=>
                    inboundNonce'[c][sent'[c][j].sender] < sent'[c][j].nonce
      <4>1. CASE j = i
        <5>1. sent'[c][j].state # "UNTOUCHED" /\ sent'[c][j].sender = u
          BY <1>1, <4>1
        <5>2. inboundNonce'[c][u] = sent'[c][j].nonce
          BY <1>1, <1>5, <2>1, <3>1, <4>1
        <5>3. sent'[c][j].nonce \in Nat
          BY <1>1, <1>4
        <5> HIDE DEF u
        <5> QED BY <5>1, <5>2, <5>3
      <4>2. CASE j # i /\ sent[c][j].sender = u
        <5>1. sent[c][j].nonce # sent[c][i].nonce
          <6>1. i \in Int /\ j \in Int
            BY <1>1, <1>5 DEF MessagesInv
          <6>2. i < j \/ j < i
            BY <4>2, <6>1
          <6>3. \A k, l \in DOMAIN sent[c] :
                   k < l /\ sent[c][k].sender = sent[c][l].sender =>
                      sent[c][k].nonce < sent[c][l].nonce
            BY <1>5 DEF InOrder
          <6>4. sent[c][j].nonce < sent[c][i].nonce \/ sent[c][i].nonce < sent[c][j].nonce
            BY <1>5, <4>2, <6>2, <6>3
          <6> QED BY <1>4, <1>5, <6>4
        <5>2. sent[c][j].state = "UNTOUCHED" <=> inboundNonce[c][u] < sent[c][j].nonce
          BY <1>5, <4>2 DEF InOrder
        <5>3. inboundNonce[c][u] < sent[c][j].nonce
                <=> inboundNonce[c][u] + 1 < sent[c][j].nonce
          BY <1>3, <1>4, <1>5, <2>1, <5>1
        <5> HIDE DEF u
        <5> QED BY <1>1, <1>5, <3>1, <4>2, <5>2, <5>3
      <4>3. CASE sent[c][j].sender # u
        <5>1. sent[c][j].state = "UNTOUCHED" <=>
                 inboundNonce[c][sent[c][j].sender] < sent[c][j].nonce
          BY <1>5 DEF InOrder
        <5>2. j # i
          BY <4>3
        <5> HIDE DEF u
        <5> QED BY <1>1, <3>1, <4>3, <5>1, <5>2
      <4> QED BY <4>1, <4>2, <4>3
    <3> QED BY <1>1, <1>6, <3>2, <3>3 DEF InOrder
  <2>2. CASE sent[c][i].state = "FAILURE" /\ inboundNonce' = inboundNonce
    <3>1. \A v \in Accounts : inboundNonce'[c][v] <= outboundNonce'[c][v]
      BY <1>5, <2>2 DEF InOrder
    <3>2. ASSUME NEW j \in DOMAIN sent[c]
          PROVE  sent'[c][j].state = "UNTOUCHED" <=>
                    inboundNonce'[c][sent'[c][j].sender] < sent'[c][j].nonce
      <4>1. sent'[c][j].state = "UNTOUCHED" <=> sent[c][j].state = "UNTOUCHED"
        BY <1>1, <2>2
      <4>2. sent[c][j].state = "UNTOUCHED" <=>
                inboundNonce[c][sent[c][j].sender] < sent[c][j].nonce
        BY <1>5 DEF InOrder
      <4> QED BY <1>1, <2>2, <4>1, <4>2
    <3> QED BY <1>1, <1>6, <3>1, <3>2 DEF InOrder
  <2> QED BY <2>1, <2>2 DEF FirstTry, Retry
<1>8. ASSUME NEW d \in Chains, d # c PROVE InOrder(d)'
  <2>1. sent'[d] = sent[d] /\ inboundNonce'[d] = inboundNonce[d]
    BY <1>1, <1>2, <1>8
  <2>2. InOrder(d)
    BY DEF MessagesInv
  <2> QED BY <2>1, <2>2 DEF InOrder
<1>9. ASSUME NEW d \in Chains
      PROVE  /\ Len(sent'[d]) <= MaxMessages[d]
             /\ \A j \in DOMAIN sent'[d] : sent'[d][j].rate \in Offered(token')
  <2>1. /\ Len(sent[d]) <= MaxMessages[d]
        /\ \A j \in DOMAIN sent[d] : sent[d][j].rate \in Offered(token)
    BY DEF MessagesInv
  <2>2. CASE d = c
    BY <1>1, <2>1, <2>2
  <2>3. CASE d # c
    BY <1>1, <2>1, <2>3
  <2> QED BY <2>2, <2>3
<1>10. outboundNonce' \in [Chains -> [Accounts -> Nat]]
  BY DEF MessagesInv
<1> QED BY <1>1, <1>2, <1>7, <1>8, <1>9, <1>10 DEF MessagesInv

\* An attempt that succeeds mints, with the rate of the message.
LEMMA AttemptKeepsTokens ==
  ASSUME TokensInv(token), MessagesInv, now \in Nat, NEW c \in Chains,
         NEW i \in DOMAIN sent[c], NEW outcome, TrialExecute(c, i, outcome)
  PROVE  TokensInv(token') /\ Offered(token') = Offered(token)
<1> DEFINE m == sent[c][i]
           d == Other(c)
<1>1. m \in Message /\ m.rate \in Offered(token)
  BY DEF MessagesInv
<1>2. /\ m.receiver \in Accounts /\ m.amount \in UInt /\ m.rate \in UInt
  BY <1>1, Addresses DEF Message
<1>3. d \in Chains
  BY DEF Other, Chains
<1>4. CASE outcome = "SUCCESS"
  <2>1. CanMint(token[d], now, Pool, m.receiver, m.amount)
    BY <1>4 DEF TrialExecute, CanReleaseOrMint
  <2>2. token' = Minted(token, d, m.receiver, m.amount, m.rate)
    BY <1>4 DEF TrialExecute, Released, Minted
  <2> HIDE DEF m, d
  <2> QED BY <1>1, <1>2, <1>3, <2>1, <2>2, MintOffered, Addresses
<1>5. CASE outcome # "SUCCESS"
  BY <1>5 DEF TrialExecute
<1> QED BY <1>4, <1>5

-----------------------------------------------------------------------------
(* Every step. *)

LEMMA DepositKeepsInv ==
  ASSUME CrossChainInv, NEW u \in Users, NEW value \in Amounts, Deposit(u, value)
  PROVE  CrossChainInv'
<1>1. u \in Accounts /\ VaultAddress \in Accounts /\ value \in UInt
  BY Addresses
<1>2. now \in Nat /\ Home \in Chains /\ token[Home] \in TokenStorage
  BY CrossChainAssumption DEF CrossChainInv, TokensInv, Chains
<1>3. DepositRate(token[Home], u) \in UInt /\ DepositRate(token[Home], u) \in Offered(token)
  <2>1. token[Home].sInterestRate \in UInt /\ token[Home].sUserToInterestRate[u] \in UInt
    BY <1>1, <1>2 DEF TokenStorage
  <2>2. token[Home].sInterestRate \in Offered(token)
    BY <2>1, TokenAssumption DEF Offered, CrossChainInv, TokensInv, UInt
  <2>3. token[Home].sUserToInterestRate[u] \in Offered(token)
    BY <1>1, <1>2 DEF CrossChainInv, TokensInv, RatesOffered
  <2> QED BY <2>1, <2>2, <2>3 DEF DepositRate
<1>4. CanMint(token[Home], now, VaultAddress, u, value)
  BY DEF Deposit, CanDeposit
<1>5. token' = Minted(token, Home, u, value, DepositRate(token[Home], u))
  BY DEF Deposit, AfterDeposit, Minted
<1>6. TokensInv(token') /\ Offered(token') = Offered(token)
  <2> DEFINE rate == DepositRate(token[Home], u)
  <2> HIDE DEF rate
  <2> QED BY <1>1, <1>2, <1>3, <1>4, <1>5, MintOffered DEF CrossChainInv, rate
<1>7. sUserToAmountDeposited' \in [Accounts -> UInt]
  <2>1. sUserToAmountDeposited[u] \in UInt /\ sUserToAmountDeposited[u] + value <= MaxUint
    BY <1>1 DEF CrossChainInv, Deposit, CanDeposit
  <2>2. sUserToAmountDeposited[u] + value \in UInt
    BY <1>1, <2>1, TokenAssumption DEF UInt
  <2> QED BY <1>1, <2>2 DEF CrossChainInv, Deposit
<1>8. MessagesInv'
  BY <1>6, MessagesKept DEF CrossChainInv, Deposit
<1> QED BY <1>6, <1>7, <1>8 DEF CrossChainInv, Deposit

LEMMA RedeemKeepsInv ==
  ASSUME CrossChainInv, NEW u \in Users, NEW amount \in Amounts, Redeem(u, amount)
  PROVE  CrossChainInv'
<1> DEFINE new == AfterBurn(token[Home], now, u, amount)
<1>1. u \in Accounts /\ VaultAddress \in Accounts /\ amount \in UInt
  BY Addresses
<1>2. /\ now \in Nat /\ Home \in Chains
      /\ token[Home] \in TokenStorage /\ WellFormed(token[Home])
  BY CrossChainAssumption DEF CrossChainInv, TokensInv, Chains
<1>3. WellFormed(new)
  BY <1>1, <1>2, BurnWellFormed DEF Redeem, CanRedeem
<1>4. /\ new.sInterestRate = token[Home].sInterestRate
      /\ new.sUserToInterestRate = token[Home].sUserToInterestRate
  BY <1>1, <1>2, BurnRates
<1>5. token' = [token EXCEPT ![Home] = new]
  BY DEF Redeem, AfterRedeem
<1> HIDE DEF new
<1>6. TokensInv(token') /\ Offered(token') = Offered(token)
  BY <1>2, <1>3, <1>4, <1>5, NoRateWritten DEF CrossChainInv
<1>7. sUserToAmountDeposited' \in [Accounts -> UInt]
  <2>1. sUserToAmountDeposited[u] \in UInt /\ sUserToAmountDeposited[u] >= amount
    BY <1>1 DEF CrossChainInv, Redeem, CanRedeem
  <2>2. sUserToAmountDeposited[u] - amount \in UInt
    BY <1>1, <2>1, TokenAssumption DEF UInt
  <2> QED BY <1>1, <2>2 DEF CrossChainInv, Redeem
<1>8. MessagesInv'
  BY <1>6, MessagesKept DEF CrossChainInv, Redeem
<1> QED BY <1>6, <1>7, <1>8 DEF CrossChainInv, Redeem

LEMMA TransferKeepsInv ==
  ASSUME CrossChainInv, NEW c \in Chains, NEW u \in Users, NEW to \in Holders,
         NEW amount \in Amounts, Transfer(c, u, to, amount)
  PROVE  CrossChainInv'
<1> DEFINE new == AfterTransfer(token[c], now, u, to, amount)
<1>1. u \in Accounts /\ to \in Accounts /\ amount \in UInt
  BY Addresses
<1>2. now \in Nat /\ token[c] \in TokenStorage /\ WellFormed(token[c])
  BY CrossChainAssumption DEF CrossChainInv, TokensInv
<1>3. WellFormed(new)
  BY <1>1, <1>2, TransferWellFormed DEF Transfer
<1>4. /\ new.sInterestRate = token[c].sInterestRate
      /\ new.sUserToInterestRate = token[c].sUserToInterestRate
  BY <1>1, <1>2, TransferRates
<1>5. token' = [token EXCEPT ![c] = new]
  BY DEF Transfer
<1> HIDE DEF new
<1>6. TokensInv(token') /\ Offered(token') = Offered(token)
  BY <1>3, <1>4, <1>5, NoRateWritten DEF CrossChainInv
<1>7. MessagesInv'
  BY <1>6, MessagesKept DEF CrossChainInv, Transfer
<1> QED BY <1>6, <1>7 DEF CrossChainInv, Transfer

\* A cut of the rate only adds to what was ever offered.
LEMMA RateCutKeepsInv ==
  ASSUME CrossChainInv, NEW r \in Rates, SetInterestRete(r)
  PROVE  CrossChainInv'
<1> DEFINE new == AfterSetInterestRete(token[Home], r)
<1>1. /\ Home \in Chains /\ token[Home] \in TokenStorage /\ WellFormed(token[Home])
      /\ token \in [Chains -> TokenStorage]
  BY DEF CrossChainInv, TokensInv, Chains
<1>2. r \in UInt /\ r <= token[Home].sInterestRate
  BY Addresses DEF SetInterestRete, CanSetInterestRete
<1>3. WellFormed(new) /\ new \in TokenStorage
  BY <1>1, <1>2, Addresses, AdministrationWellFormed DEF WellFormed
<1>4. new.sInterestRate = r /\ new.sUserToInterestRate = token[Home].sUserToInterestRate
  BY <1>1 DEF AfterSetInterestRete, TokenStorage
<1>5. token' = [token EXCEPT ![Home] = new]
  BY DEF SetInterestRete
<1> HIDE DEF new
<1>6. /\ token' \in [Chains -> TokenStorage] /\ token'[Home] = new
      /\ \A c \in Chains : c # Home => token'[c] = token[c]
  BY <1>1, <1>3, <1>5
<1>7. token[Home].sInterestRate \in UInt /\ token[Home].sInterestRate <= INITIAL_RATE
  BY <1>1 DEF CrossChainInv, TokensInv, TokenStorage
<1>8. Offered(token) \subseteq Offered(token')
  BY <1>2, <1>4, <1>6, <1>7, TokenAssumption DEF Offered, UInt
<1>9. TokensInv(token')
  <2>1. ASSUME NEW c \in Chains
        PROVE  WellFormed(token'[c]) /\ RatesOffered(token'[c], Offered(token'))
    <3>1. RatesOffered(token[c], Offered(token)) /\ WellFormed(token[c])
      BY DEF CrossChainInv, TokensInv
    <3>2. token'[c].sUserToInterestRate = token[c].sUserToInterestRate
      BY <1>4, <1>6
    <3> QED BY <1>3, <1>6, <1>8, <3>1, <3>2 DEF RatesOffered
  <2>2. token'[Home].sInterestRate <= INITIAL_RATE
    BY <1>2, <1>4, <1>6, <1>7, TokenAssumption DEF UInt
  <2> QED BY <1>6, <2>1, <2>2 DEF TokensInv
<1>10. MessagesInv'
  BY <1>8, MessagesKept DEF CrossChainInv, SetInterestRete
<1> QED BY <1>9, <1>10 DEF CrossChainInv, SetInterestRete

LEMMA IssueKeepsInv ==
  ASSUME CrossChainInv, NEW c \in Chains, NEW amount \in Issues,
         OwnerMintsToPool(c, amount)
  PROVE  CrossChainInv'
<1> DEFINE granted == AfterGrantRole(token[c], "BURN_MINTER_ROLE", Deployer)
           ready == [token EXCEPT ![c] = granted]
<1>1. Pool \in Accounts /\ Deployer \in Accounts /\ amount \in UInt /\ 0 \in UInt
  BY Addresses
<1>2. /\ now \in Nat /\ token[c] \in TokenStorage /\ WellFormed(token[c])
      /\ token \in [Chains -> TokenStorage]
  BY CrossChainAssumption DEF CrossChainInv, TokensInv
<1>3. WellFormed(granted)
  BY <1>1, <1>2, AdministrationWellFormed
<1>4. /\ granted.sInterestRate = token[c].sInterestRate
      /\ granted.sUserToInterestRate = token[c].sUserToInterestRate
  BY <1>2 DEF AfterGrantRole, TokenStorage
<1>5. CanMint(granted, now, Deployer, Pool, amount)
  BY DEF OwnerMintsToPool
<1>6. token' = [token EXCEPT ![c] = AfterMint(granted, Pool, amount, 0)]
  BY DEF OwnerMintsToPool
<1> HIDE DEF granted
<1>7. TokensInv(ready) /\ Offered(ready) = Offered(token)
  BY <1>3, <1>4, NoRateWritten DEF CrossChainInv
<1>8. ready[c] = granted
  BY <1>2
<1>9. token' = Minted(ready, c, Pool, amount, 0)
  BY <1>2, <1>6, <1>8 DEF Minted
<1>10. 0 \in Offered(ready)
  BY DEF Offered
<1> HIDE DEF ready
<1>11. TokensInv(token') /\ Offered(token') = Offered(token)
  BY <1>1, <1>2, <1>5, <1>7, <1>8, <1>9, <1>10, MintOffered
<1>12. issued' \in [Chains -> 0..MaxIssued]
  <2>1. /\ issued[Home] \in Nat /\ issued[Remote] \in Nat /\ MaxIssued \in Nat
        /\ amount \in Nat /\ (c = Home \/ c = Remote)
    BY <1>1, CrossChainAssumption, TokenAssumption DEF CrossChainInv, Chains, UInt
  <2>2. issued[c] + amount \in 0..MaxIssued
    BY <2>1 DEF OwnerMintsToPool
  <2> QED BY <2>2 DEF CrossChainInv, OwnerMintsToPool
<1>13. MessagesInv'
  BY <1>11, MessagesKept DEF CrossChainInv, OwnerMintsToPool
<1> QED BY <1>11, <1>12, <1>13 DEF CrossChainInv, OwnerMintsToPool

LEMMA SendKeepsInv ==
  ASSUME CrossChainInv, NEW c \in Chains, NEW u \in Senders,
         NEW receiver \in Users \cup {Pool}, NEW amount \in Amounts, NEW fee \in Fees,
         CcipSend(c, u, receiver, amount, fee)
  PROVE  CrossChainInv'
<1> DEFINE new == AfterBurn(AtPool(c, u, amount), now, Pool, amount)
           burnt == Resolve(AtPool(c, u, amount), now, Pool, amount)
           m == [sender |-> u, receiver |-> receiver, amount |-> amount - fee,
                 rate |-> token[c].sUserToInterestRate[u], burnt |-> burnt,
                 nonce |-> outboundNonce[c][u] + 1, state |-> "UNTOUCHED"]
<1>1. u \in Users /\ u \in Accounts /\ amount \in UInt /\ fee \in UInt
  BY Addresses
<1>2. now \in Nat /\ token[c] \in TokenStorage
  BY CrossChainAssumption DEF CrossChainInv, TokensInv
<1>3. /\ WellFormed(new) /\ new.sInterestRate = token[c].sInterestRate
      /\ new.sUserToInterestRate = token[c].sUserToInterestRate
      /\ burnt \in UInt /\ amount - fee \in UInt
  BY <1>1, <1>2, SendKeepsToken DEF CrossChainInv, CcipSend, SendMessage
<1>4. token' = [token EXCEPT ![c] = new]
  BY DEF CcipSend
<1>5. TokensInv(token') /\ Offered(token') = Offered(token)
  <2> HIDE DEF new
  <2> QED BY <1>3, <1>4, NoRateWritten DEF CrossChainInv
<1>6. sent' = [sent EXCEPT ![c] = Append(@, m)]
  BY DEF CcipSend, SendMessage
<1> HIDE DEF new, burnt
<1>7. m \in Message
  <2>1. token[c].sUserToInterestRate[u] \in UInt
    BY <1>1, <1>2 DEF TokenStorage
  <2>2. outboundNonce[c][u] + 1 \in Nat
    BY <1>1 DEF CrossChainInv, MessagesInv
  <2> QED BY <1>3, <2>1, <2>2 DEF Message
<1>8. /\ m.sender = u /\ m.nonce = outboundNonce[c][u] + 1 /\ m.state = "UNTOUCHED"
      /\ m.rate = token[c].sUserToInterestRate[u]
  OBVIOUS
<1>9. m.rate \in Offered(token)
  BY <1>1, <1>8 DEF CrossChainInv, TokensInv, RatesOffered
<1> HIDE DEF m
<1>10. /\ Len(sent[c]) < MaxMessages[c] /\ inboundNonce' = inboundNonce
       /\ outboundNonce' = [outboundNonce EXCEPT ![c][m.sender] = @ + 1]
  BY <1>8 DEF CcipSend, SendMessage
<1>11. MessagesInv'
  BY <1>5, <1>6, <1>7, <1>8, <1>9, <1>10, NewMessageInOrder DEF CrossChainInv
<1> QED BY <1>5, <1>11 DEF CrossChainInv, CcipSend, SendMessage

LEMMA ExecuteKeepsInv ==
  ASSUME CrossChainInv, NEW c \in Chains, NEW i,
         Execute(c, i) \/ ManuallyExecute(c, i)
  PROVE  CrossChainInv'
<1>1. i \in DOMAIN sent[c] /\ now \in Nat
  BY CrossChainAssumption DEF Execute, ManuallyExecute, CrossChainInv
<1>2. PICK outcome \in {"SUCCESS", "FAILURE"} : TrialExecute(c, i, outcome)
  BY DEF Execute, ManuallyExecute
<1>3. TokensInv(token') /\ Offered(token') = Offered(token)
  BY <1>1, <1>2, AttemptKeepsTokens DEF CrossChainInv
<1>4. Tried(c, i, outcome)
  BY <1>2 DEF TrialExecute, Tried
<1>5. /\ outboundNonce' = outboundNonce
      /\ FirstTry(c, i) \/ Retry(c, i)
  BY DEF Execute, ManuallyExecute, FirstTry, Retry
<1>6. MessagesInv'
  BY <1>1, <1>3, <1>4, <1>5, AttemptInOrder DEF CrossChainInv
<1> QED BY <1>3, <1>6 DEF CrossChainInv, Execute, ManuallyExecute

LEMMA NextCrossChainInv == CrossChainInv /\ [Next]_vars => CrossChainInv'
<1> SUFFICES ASSUME CrossChainInv, [Next]_vars PROVE CrossChainInv'
  OBVIOUS
<1>1. ASSUME NEW u \in Users, NEW n \in Amounts, Deposit(u, n) PROVE CrossChainInv'
  BY <1>1, DepositKeepsInv
<1>2. ASSUME NEW u \in Users, NEW n \in Amounts, Redeem(u, n) PROVE CrossChainInv'
  BY <1>2, RedeemKeepsInv
<1>3. ASSUME NEW u \in Users, NEW n \in Amounts, NEW c \in Chains, NEW to \in Holders,
             Transfer(c, u, to, n)
      PROVE  CrossChainInv'
  BY <1>3, TransferKeepsInv
<1>4. ASSUME NEW c \in Chains, NEW u \in Senders, NEW to \in Users \cup {Pool},
             NEW n \in Amounts, NEW fee \in Fees, CcipSend(c, u, to, n, fee)
      PROVE  CrossChainInv'
  BY <1>4, SendKeepsInv
<1>5. ASSUME NEW c \in Chains, NEW n \in Issues, OwnerMintsToPool(c, n)
      PROVE  CrossChainInv'
  BY <1>5, IssueKeepsInv
<1>6. ASSUME NEW c \in Chains, NEW i \in 1..MaxMessages[c],
             Execute(c, i) \/ ManuallyExecute(c, i)
      PROVE  CrossChainInv'
  BY <1>6, ExecuteKeepsInv
<1>7. ASSUME NEW r \in Rates, SetInterestRete(r) PROVE CrossChainInv'
  BY <1>7, RateCutKeepsInv
<1>8. CASE Tick
  <2>1. now' \in 0..MaxTime
    BY <1>8, CrossChainAssumption DEF Tick, CrossChainInv
  <2>2. MessagesInv'
    BY <1>8, MessagesKept DEF Tick, CrossChainInv
  <2> QED BY <1>8, <2>1, <2>2 DEF Tick, CrossChainInv
<1>9. CASE UNCHANGED vars
  <2>1. MessagesInv'
    BY <1>9, MessagesKept DEF vars, CrossChainInv, Bridge
  <2> QED BY <1>9, <2>1 DEF vars, CrossChainInv
<1> QED BY <1>1, <1>2, <1>3, <1>4, <1>5, <1>6, <1>7, <1>8, <1>9 DEF Next

LEMMA CrossChainInvHolds == Spec => []CrossChainInv
BY InitCrossChainInv, NextCrossChainInv, PTL DEF Spec

\* Both tokens, the vault's ledger, the messages and the nonces keep their types
\* whatever is deposited, transferred, bridged, executed and retried.
THEOREM BridgeTypeCorrect == Spec => []TypeOK
<1>1. CrossChainInv => TypeOK
  <2> SUFFICES ASSUME CrossChainInv PROVE TypeOK
    OBVIOUS
  <2>1. ASSUME NEW c \in Chains, NEW i \in DOMAIN sent[c] PROVE sent[c][i] \in Message
    BY DEF CrossChainInv, MessagesInv
  <2> QED BY <2>1 DEF CrossChainInv, TokensInv, MessagesInv, TypeOK
<1> QED BY <1>1, CrossChainInvHolds, PTL

\* The ledgers of the token of either chain add up to its supply, whatever comes
\* and goes (mint and burn by pools and vault, transfers).
THEOREM BridgedLedgersAddUp ==
  Spec => [](\A c \in Chains :
                /\ Total(token[c].balances) = token[c].totalSupply
                /\ Total(token[c].sUserToAmountMinted) = token[c].totalSupply)
<1>1. CrossChainInv => \A c \in Chains :
                          /\ Total(token[c].balances) = token[c].totalSupply
                          /\ Total(token[c].sUserToAmountMinted) = token[c].totalSupply
  BY DEF CrossChainInv, TokensInv, WellFormed
<1> QED BY <1>1, CrossChainInvHolds, PTL

\* Every rate, of an account or in a message, is 0 or was within what home offers
\* (deposit, lockOrBurn, releaseOrMint, setInterestRete).
THEOREM RatesComeFromHome == Spec => []RateProvenance
<1>1. CrossChainInv => RateProvenance
  BY DEF CrossChainInv, TokensInv, MessagesInv, RatesOffered, Offered, RateProvenance
<1> QED BY <1>1, CrossChainInvHolds, PTL

\* First attempts follow each sender's order, on both lanes (NonceManager).
THEOREM AttemptsFollowNonces == Spec => []FirstAttemptsInOrder
<1>1. CrossChainInv => FirstAttemptsInOrder
  <2> SUFFICES ASSUME CrossChainInv, NEW c \in Chains, NEW j \in DOMAIN sent[c],
                      NEW i \in 1..(j - 1), sent[c][i].sender = sent[c][j].sender,
                      sent[c][j].state # "UNTOUCHED"
               PROVE  sent[c][i].state # "UNTOUCHED"
    BY DEF FirstAttemptsInOrder
  <2>1. sent[c] \in Seq(Message) /\ InOrder(c)
    BY DEF CrossChainInv, MessagesInv
  <2>2. i \in DOMAIN sent[c] /\ i < j
    BY <2>1
  <2>3. sent[c][i] \in Message /\ sent[c][j] \in Message
    BY <2>1, <2>2
  <2>4. inboundNonce[c][sent[c][j].sender] \in Nat
    BY <2>3, Addresses DEF CrossChainInv, MessagesInv, Message
  <2>5. ~(inboundNonce[c][sent[c][j].sender] < sent[c][j].nonce)
    BY <2>1 DEF InOrder
  <2>6. sent[c][i].nonce < sent[c][j].nonce
    BY <2>1, <2>2 DEF InOrder
  <2>7. ~(inboundNonce[c][sent[c][i].sender] < sent[c][i].nonce)
    BY <2>3, <2>4, <2>5, <2>6 DEF Message
  <2> QED BY <2>1, <2>2, <2>7 DEF InOrder
<1> QED BY <1>1, CrossChainInvHolds, PTL

-----------------------------------------------------------------------------
(* What arrives.  A message asks for more than was burnt only when it        *)
(* carries the sentinel, and no balance can hold that.                       *)

TooMuch(n) == n * PRECISION_FACTOR > MaxUint

ArrivalsInv ==
    \A c \in Chains : \A i \in DOMAIN sent[c] :
        /\ sent[c][i].amount <= sent[c][i].burnt \/ TooMuch(sent[c][i].amount)
        /\ sent[c][i].state = "SUCCESS" /\ sent[c][i].receiver # Pool =>
              ~TooMuch(sent[c][i].amount)

\* The balance check reads the receiver's balance after the mint.
LEMMA TooMuchIsRefused ==
  ASSUME TokensInv(token), now \in Nat, NEW d \in Chains, NEW m \in Message,
         m.receiver # Pool, CanReleaseOrMint(d, m)
  PROVE  ~TooMuch(m.amount)
<1> DEFINE u == m.receiver
           tok == token[d]
           new == Released(d, m)
           b == new.balances[u]
           g == CalculateAccumulateInterest(new, now, u)
<1>1. u \in Accounts /\ m.amount \in UInt /\ m.amount \in Nat /\ m.rate \in UInt
  BY Addresses, TokenAssumption DEF Message, UInt
<1>2. WellFormed(tok) /\ tok \in TokenStorage
  BY DEF TokensInv, WellFormed
<1>3. CanMint(tok, now, Pool, u, m.amount)
  BY DEF CanReleaseOrMint
<1>4. new = AfterMint(tok, u, m.amount, m.rate)
  BY DEF Released
<1>5. WellFormed(new) /\ new \in TokenStorage
  <2> HIDE DEF tok, new, u
  <2>1. WellFormed(new)
    BY <1>1, <1>2, <1>3, <1>4, MintWellFormed, Addresses
  <2> QED BY <2>1 DEF WellFormed
<1>6. CanReadBalance(new, now, u)
  BY DEF CanReleaseOrMint, BalancesMatch
<1>7. b = tok.balances[u] + m.amount /\ tok.balances[u] \in Nat
  <2>1. tok.balances[u] \in UInt /\ tok.totalSupply \in UInt
    BY <1>1, <1>2, StorageTypes
  <2>2. tok.balances[u] <= tok.totalSupply
    BY <1>1, <1>2, EntryAtMostTotal, StorageTypes DEF WellFormed
  <2>3. tok.balances[u] + m.amount \in UInt
    BY <1>1, <1>3, <2>1, <2>2, TokenAssumption DEF CanMint, UInt
  <2>4. b = Wrap(tok.balances[u] + m.amount)
    <3> HIDE DEF tok, u
    <3> QED BY <1>1, <1>2, <1>4 DEF AfterMint, TokenStorage
  <2> QED BY <2>1, <2>3, <2>4, WrapInRange, TokenAssumption DEF UInt
<1>8. g \in Nat /\ PRECISION_FACTOR \in Nat /\ PRECISION_FACTOR <= g
  <2> HIDE DEF new, u
  <2>1. /\ new.sUserToInterestRate[u] \in Nat
        /\ now - new.sUserToLastUpdatedTimeStamp[u] \in Nat
    <3>1. /\ new.sUserToInterestRate[u] \in UInt
          /\ new.sUserToLastUpdatedTimeStamp[u] \in UInt
      BY <1>1, <1>5, StorageTypes
    <3> QED BY <1>6, <3>1, TokenAssumption DEF CanReadBalance, UInt
  <2> DEFINE r == new.sUserToInterestRate[u]
             e == now - new.sUserToLastUpdatedTimeStamp[u]
  <2>2. g = PRECISION_FACTOR + r * e
    BY DEF CalculateAccumulateInterest
  <2> HIDE DEF r, e, g
  <2>3. r * e \in Nat
    BY <2>1 DEF r, e
  <2> QED BY <2>2, <2>3, TokenAssumption
<1>9. b * g <= MaxUint
  BY <1>6 DEF CanReadBalance
<1> HIDE DEF b, g, tok, u
<1>10. b \in Nat /\ m.amount <= b
  BY <1>1, <1>7
<1>11. m.amount * PRECISION_FACTOR \in Nat /\ m.amount * PRECISION_FACTOR <= b * g
  BY <1>1, <1>8, <1>10, ProductMonotone
<1>12. b * g \in Nat
  BY <1>8, <1>10, ProductMonotone
<1> QED BY <1>9, <1>11, <1>12, TokenAssumption DEF TooMuch

LEMMA NextArrivalsInv ==
  ASSUME CrossChainInv, ArrivalsInv, [Next]_vars
  PROVE  ArrivalsInv'
<1>1. ASSUME sent' = sent PROVE ArrivalsInv'
  BY <1>1 DEF ArrivalsInv
<1>2. ASSUME NEW c \in Chains, NEW u \in Senders, NEW to \in Users \cup {Pool},
             NEW n \in Amounts, NEW fee \in Fees, CcipSend(c, u, to, n, fee)
      PROVE  ArrivalsInv'
  <2> DEFINE burnt == Resolve(AtPool(c, u, n), now, Pool, n)
             m == [sender |-> u, receiver |-> to, amount |-> n - fee,
                   rate |-> token[c].sUserToInterestRate[u], burnt |-> burnt,
                   nonce |-> outboundNonce[c][u] + 1, state |-> "UNTOUCHED"]
  <2>1. sent' = [sent EXCEPT ![c] = Append(@, m)]
    BY <1>2 DEF CcipSend, SendMessage
  <2>2. m.amount <= m.burnt \/ TooMuch(m.amount)
    <3>1. n \in Nat /\ fee \in Nat
      BY Addresses, TokenAssumption DEF UInt
    <3>2. CASE n = MaxUint
      BY <3>2, FeeAssumption DEF TooMuch
    <3>3. CASE n # MaxUint
      BY <3>1, <3>3 DEF Resolve
    <3> QED BY <3>2, <3>3
  <2>3. m.state = "UNTOUCHED"
    OBVIOUS
  <2> HIDE DEF m
  <2>4. sent \in [Chains -> Seq(Message)]
    BY DEF CrossChainInv, MessagesInv
  <2>5. /\ sent'[c] = Append(sent[c], m)
        /\ \A d \in Chains \ {c} : sent'[d] = sent[d]
    BY <2>1, <2>4
  <2>6. ASSUME NEW i \in DOMAIN sent'[c]
        PROVE  \/ sent'[c][i] = m
               \/ i \in DOMAIN sent[c] /\ sent'[c][i] = sent[c][i]
    BY <2>4, <2>5
  <2>7. ASSUME NEW i \in DOMAIN sent'[c]
        PROVE  /\ \/ sent'[c][i].amount <= sent'[c][i].burnt
                  \/ TooMuch(sent'[c][i].amount)
               /\ sent'[c][i].state = "SUCCESS" /\ sent'[c][i].receiver # Pool =>
                     ~TooMuch(sent'[c][i].amount)
    BY <2>2, <2>3, <2>6 DEF ArrivalsInv
  <2>8. ASSUME NEW d \in Chains, d # c, NEW i \in DOMAIN sent'[d]
        PROVE  /\ \/ sent'[d][i].amount <= sent'[d][i].burnt
                  \/ TooMuch(sent'[d][i].amount)
               /\ sent'[d][i].state = "SUCCESS" /\ sent'[d][i].receiver # Pool =>
                     ~TooMuch(sent'[d][i].amount)
    BY <2>5, <2>8 DEF ArrivalsInv
  <2> QED BY <2>7, <2>8 DEF ArrivalsInv
<1>3. ASSUME NEW c \in Chains, NEW i, Execute(c, i) \/ ManuallyExecute(c, i)
      PROVE  ArrivalsInv'
  <2>1. i \in DOMAIN sent[c] /\ now \in Nat /\ MessagesInv /\ TokensInv(token)
    BY <1>3, CrossChainAssumption DEF Execute, ManuallyExecute, CrossChainInv
  <2>2. PICK outcome \in {"SUCCESS", "FAILURE"} : TrialExecute(c, i, outcome)
    BY <1>3 DEF Execute, ManuallyExecute
  <2>3. Tried(c, i, outcome)
    BY <2>2 DEF TrialExecute, Tried
  <2>4. /\ \A d \in Chains \ {c} : sent'[d] = sent[d]
        /\ DOMAIN sent'[c] = DOMAIN sent[c]
        /\ \A j \in DOMAIN sent[c] :
              /\ sent[c][j] \in Message
              /\ sent'[c][j].amount = sent[c][j].amount
              /\ sent'[c][j].burnt = sent[c][j].burnt
              /\ sent'[c][j].receiver = sent[c][j].receiver
              /\ sent'[c][j].state = IF j = i THEN outcome ELSE sent[c][j].state
    BY <2>1, <2>3, AttemptChangesState
  <2>5. outcome = "SUCCESS" /\ sent[c][i].receiver # Pool => ~TooMuch(sent[c][i].amount)
    <3>1. Other(c) \in Chains /\ sent[c][i] \in Message
      BY <2>1, <2>4 DEF Other, Chains
    <3> QED BY <2>1, <2>2, <3>1, TooMuchIsRefused DEF TrialExecute
  <2> QED BY <2>1, <2>4, <2>5 DEF ArrivalsInv
<1> QED
  BY <1>1, <1>2, <1>3 DEF Next, vars, Deposit, Redeem, Transfer, OwnerMintsToPool,
     SetInterestRete, Tick, Bridge

\* A user never receives more than was burnt for the message, also when the amount
\* was type(uint256).max (lockOrBurn, burn and the off-ramp's balance check).
THEOREM ArrivalsWereBurnt == Spec => []ArrivesAtMostBurnt
<1>1. Init => ArrivalsInv
  BY DEF Init, ArrivalsInv
<1>2. CrossChainInv /\ ArrivalsInv /\ [Next]_vars => ArrivalsInv'
  BY NextArrivalsInv
<1>3. ArrivalsInv => ArrivesAtMostBurnt
  BY DEF ArrivalsInv, ArrivesAtMostBurnt
<1> QED BY <1>1, <1>2, <1>3, CrossChainInvHolds, PTL DEF Spec

-----------------------------------------------------------------------------
(* Sums over messages.  w gives every message its weight. *)

Weighed(s, w) == [i \in DOMAIN s |-> w[s[i]]]

LEMMA WeighedAppend ==
  ASSUME NEW s \in Seq(Message), NEW m \in Message, NEW w \in [Message -> UInt]
  PROVE  /\ Total(Weighed(s, w)) \in Nat
         /\ Total(Weighed(Append(s, m), w)) = Total(Weighed(s, w)) + w[m]
<1> DEFINE n == Len(s)
<1>1. /\ n \in Nat /\ DOMAIN s = 1..n /\ \A i \in 1..n : s[i] \in Message
  OBVIOUS
<1>2. /\ DOMAIN Append(s, m) = 1..(n + 1) /\ Append(s, m)[n + 1] = m
      /\ \A i \in 1..n : Append(s, m)[i] = s[i]
  <2>1. Append(s, m) \in Seq(Message) /\ Len(Append(s, m)) = n + 1
    BY AppendProperties
  <2> QED BY <2>1, AppendProperties
<1>3. /\ Weighed(s, w) \in [1..n -> UInt] /\ w[m] \in UInt
      /\ \A i \in 1..n : Weighed(s, w)[i] = w[s[i]]
  BY <1>1 DEF Weighed
<1> HIDE DEF n
<1>4. Weighed(s, w) \in Seq(UInt) /\ Len(Weighed(s, w)) = n
  BY <1>1, <1>3, SeqDef
<1>5. Weighed(Append(s, m), w) = Append(Weighed(s, w), w[m])
  <2> DEFINE old == Weighed(s, w)
  <2>1. /\ DOMAIN Append(old, w[m]) = 1..(n + 1)
        /\ Append(old, w[m])[n + 1] = w[m]
        /\ \A i \in 1..n : Append(old, w[m])[i] = old[i]
    <3> HIDE DEF old
    <3>1. old \in Seq(UInt) /\ Len(old) = n
      BY <1>4 DEF old
    <3>2. Append(old, w[m]) \in Seq(UInt) /\ Len(Append(old, w[m])) = n + 1
      BY <1>3, <3>1, AppendProperties
    <3> QED BY <1>3, <3>1, <3>2, AppendProperties
  <2>2. Append(old, w[m]) = [i \in 1..(n + 1) |-> Append(old, w[m])[i]]
    BY <1>3, <1>4, <2>1, AppendProperties
  <2>3. \A i \in 1..(n + 1) : Append(old, w[m])[i] = w[Append(s, m)[i]]
    BY <1>1, <1>2, <1>3, <2>1
  <2> HIDE DEF old
  <2> QED BY <1>1, <1>2, <2>2, <2>3 DEF Weighed, old
<1> QED BY <1>3, <1>4, <1>5, SumAppend

LEMMA WeighedExcept ==
  ASSUME NEW s \in Seq(Message), NEW i \in DOMAIN s, NEW m \in Message,
         NEW w \in [Message -> UInt]
  PROVE  /\ Total(Weighed(s, w)) \in Nat
         /\ Total(Weighed([s EXCEPT ![i] = m], w)) = Total(Weighed(s, w)) - w[s[i]] + w[m]
<1>1. /\ Len(s) \in Nat /\ DOMAIN s = 1..Len(s) /\ \A j \in DOMAIN s : s[j] \in Message
  OBVIOUS
<1>2. IsFiniteSet(1..Len(s))
  BY <1>1, FS_Interval
<1>3. Summable(Weighed(s, w)) /\ DOMAIN Weighed(s, w) = DOMAIN s /\ w[m] \in UInt
      /\ Weighed(s, w)[i] = w[s[i]]
  BY <1>1, <1>2 DEF Weighed, Summable
<1>4. Weighed([s EXCEPT ![i] = m], w) = [Weighed(s, w) EXCEPT ![i] = w[m]]
  BY <1>1 DEF Weighed
<1> DEFINE f == Weighed(s, w)
<1>5. Summable(f) /\ i \in DOMAIN f /\ w[m] \in UInt /\ f[i] = w[s[i]]
  BY <1>3
<1> HIDE DEF f
<1>6. Total(f) \in Nat /\ Total([f EXCEPT ![i] = w[m]]) = Total(f) - f[i] + w[m]
  BY <1>5, SumExcept
<1> QED BY <1>4, <1>5, <1>6 DEF f

Untried(m) == IF m.state = "SUCCESS" THEN 0 ELSE m.burnt

\* What was burnt for messages that have not succeeded.
Underway(c) == Total([i \in DOMAIN sent[c] |-> Untried(sent[c][i])])

ByBurnt == [m \in Message |-> m.burnt]
ByMinted == [m \in Message |-> MintedFor(m)]
ByMintedToPool == [m \in Message |-> MintedToPool(m)]
ByUntried == [m \in Message |-> Untried(m)]

LEMMA Weights ==
  /\ ByBurnt \in [Message -> UInt] /\ ByMinted \in [Message -> UInt]
  /\ ByMintedToPool \in [Message -> UInt] /\ ByUntried \in [Message -> UInt]
<1>1. \A m \in Message : m.burnt \in UInt /\ m.amount \in UInt /\ 0 \in UInt
  BY Addresses DEF Message
<1> QED BY <1>1 DEF ByBurnt, ByMinted, ByMintedToPool, ByUntried, MintedFor, MintedToPool, Untried

LEMMA SumsOfWeights ==
  ASSUME sent \in [Chains -> Seq(Message)], NEW c \in Chains
  PROVE  /\ Burnt(c) = Total(Weighed(sent[c], ByBurnt))
         /\ Arrived(c) = Total(Weighed(sent[c], ByMinted))
         /\ ArrivedAtPool(c) = Total(Weighed(sent[c], ByMintedToPool))
         /\ Underway(c) = Total(Weighed(sent[c], ByUntried))
<1>1. \A i \in DOMAIN sent[c] : sent[c][i] \in Message
  OBVIOUS
<1> QED BY <1>1 DEF Burnt, Arrived, ArrivedAtPool, Underway, Weighed, ByBurnt, ByMinted,
                    ByMintedToPool, ByUntried

LEMMA SumsAreNat ==
  ASSUME sent \in [Chains -> Seq(Message)], NEW c \in Chains
  PROVE  Burnt(c) \in Nat /\ Arrived(c) \in Nat /\ ArrivedAtPool(c) \in Nat /\ Underway(c) \in Nat
<1>1. sent[c] \in Seq(Message)
  OBVIOUS
<1>2. ASSUME NEW w \in [Message -> UInt] PROVE Total(Weighed(sent[c], w)) \in Nat
  <2>1. IsFiniteSet(DOMAIN sent[c])
    BY <1>1, FS_Interval
  <2>2. Summable(Weighed(sent[c], w))
    BY <1>1, <2>1 DEF Summable, Weighed
  <2> QED BY <2>2, SumUnitsFinite
<1> QED BY <1>2, Weights, SumsOfWeights

\* A new message adds what was burnt for it.
LEMMA SendAddsToSums ==
  ASSUME sent \in [Chains -> Seq(Message)], NEW c \in Chains, NEW m \in Message,
         m.state = "UNTOUCHED", sent' = [sent EXCEPT ![c] = Append(@, m)]
  PROVE  /\ Burnt(c)' = Burnt(c) + m.burnt /\ Underway(c)' = Underway(c) + m.burnt
         /\ Arrived(c)' = Arrived(c) /\ ArrivedAtPool(c)' = ArrivedAtPool(c)
         /\ \A d \in Chains \ {c} :
               /\ Burnt(d)' = Burnt(d) /\ Underway(d)' = Underway(d)
               /\ Arrived(d)' = Arrived(d) /\ ArrivedAtPool(d)' = ArrivedAtPool(d)
<1>1. /\ sent[c] \in Seq(Message) /\ sent'[c] = Append(sent[c], m)
      /\ sent' \in [Chains -> Seq(Message)]
      /\ \A d \in Chains \ {c} : sent'[d] = sent[d]
  OBVIOUS
<1>2. ASSUME NEW w \in [Message -> UInt]
      PROVE  Total(Weighed(sent'[c], w)) = Total(Weighed(sent[c], w)) + w[m]
             /\ Total(Weighed(sent[c], w)) \in Nat
  BY <1>1, WeighedAppend
<1>3. /\ ByBurnt[m] = m.burnt /\ ByUntried[m] = m.burnt
      /\ ByMinted[m] = 0 /\ ByMintedToPool[m] = 0
  BY DEF ByBurnt, ByUntried, ByMinted, ByMintedToPool, MintedFor, MintedToPool, Untried
<1>4. /\ Burnt(c)' = Total(Weighed(sent'[c], ByBurnt))
      /\ Arrived(c)' = Total(Weighed(sent'[c], ByMinted))
      /\ ArrivedAtPool(c)' = Total(Weighed(sent'[c], ByMintedToPool))
      /\ Underway(c)' = Total(Weighed(sent'[c], ByUntried))
  <2>1. \A i \in DOMAIN sent'[c] : sent'[c][i] \in Message
    BY <1>1
  <2> QED BY <2>1 DEF Burnt, Arrived, ArrivedAtPool, Underway, Weighed, ByBurnt, ByMinted,
                      ByMintedToPool, ByUntried
<1>5. \A d \in Chains \ {c} :
         /\ Burnt(d)' = Burnt(d) /\ Underway(d)' = Underway(d)
         /\ Arrived(d)' = Arrived(d) /\ ArrivedAtPool(d)' = ArrivedAtPool(d)
  BY <1>1 DEF Burnt, Arrived, ArrivedAtPool, Underway
<1> QED BY <1>2, <1>3, <1>4, <1>5, SumsOfWeights, Weights

\* An attempt that succeeds moves its message from what is under way to what
\* has arrived; one that fails leaves all sums alone.
LEMMA AttemptMovesSums ==
  ASSUME MessagesInv, NEW c \in Chains, NEW i \in DOMAIN sent[c],
         NEW outcome \in {"SUCCESS", "FAILURE"},
         Tried(c, i, outcome), sent[c][i].state # "SUCCESS"
  PROVE  /\ Burnt(c)' = Burnt(c)
         /\ Underway(c)' = Underway(c) - (IF outcome = "SUCCESS" THEN sent[c][i].burnt ELSE 0)
         /\ Arrived(c)' = Arrived(c) + (IF outcome = "SUCCESS" THEN sent[c][i].amount ELSE 0)
         /\ ArrivedAtPool(c)' = ArrivedAtPool(c)
               + (IF outcome = "SUCCESS" /\ sent[c][i].receiver = Pool
                  THEN sent[c][i].amount ELSE 0)
         /\ \A d \in Chains \ {c} :
               /\ Burnt(d)' = Burnt(d) /\ Underway(d)' = Underway(d)
               /\ Arrived(d)' = Arrived(d) /\ ArrivedAtPool(d)' = ArrivedAtPool(d)
<1> DEFINE m == sent[c][i]
           tried == [m EXCEPT !.state = outcome]
<1>1. sent \in [Chains -> Seq(Message)]
  BY DEF MessagesInv
<1>2. sent[c] \in Seq(Message) /\ i \in 1..Len(sent[c])
  BY <1>1
<1>3. m \in Message
  BY <1>2
<1>4. /\ tried \in Message /\ tried.state = outcome /\ tried.amount = m.amount
      /\ tried.burnt = m.burnt /\ tried.receiver = m.receiver
  BY <1>3 DEF Message
<1>5. sent' = [sent EXCEPT ![c] = [sent[c] EXCEPT ![i] = tried]]
  BY <1>1, <1>2, <1>3 DEF Message, Tried
<1>6. m.burnt \in Int /\ m.amount \in Int
  BY <1>3, TokenAssumption DEF Message, UInt
<1> HIDE DEF m, tried
<1>7. /\ sent'[c] = [sent[c] EXCEPT ![i] = tried] /\ sent' \in [Chains -> Seq(Message)]
      /\ \A d \in Chains \ {c} : sent'[d] = sent[d]
  <2>1. [sent[c] EXCEPT ![i] = tried] \in Seq(Message)
    BY <1>2, <1>4, ExceptSeq
  <2> QED BY <1>1, <1>5, <2>1
<1>8. ASSUME NEW w \in [Message -> UInt]
      PROVE  Total(Weighed(sent'[c], w)) = Total(Weighed(sent[c], w)) - w[m] + w[tried]
             /\ Total(Weighed(sent[c], w)) \in Nat
  <2>1. sent[c][i] = m /\ i \in DOMAIN sent[c]
    BY DEF m
  <2> DEFINE s == sent[c]
  <2>2. s \in Seq(Message) /\ i \in DOMAIN s /\ s[i] = m /\ sent'[c] = [s EXCEPT ![i] = tried]
    BY <1>2, <1>7, <2>1
  <2> HIDE DEF s
  <2>3. /\ Total(Weighed(s, w)) \in Nat
        /\ Total(Weighed([s EXCEPT ![i] = tried], w)) = Total(Weighed(s, w)) - w[s[i]] + w[tried]
    BY <1>4, <2>2, WeighedExcept
  <2> QED BY <2>2, <2>3 DEF s
<1>9. /\ ByBurnt[m] = m.burnt /\ ByBurnt[tried] = m.burnt
      /\ ByUntried[m] = m.burnt
      /\ ByUntried[tried] = IF outcome = "SUCCESS" THEN 0 ELSE m.burnt
      /\ ByMinted[m] = 0
      /\ ByMinted[tried] = IF outcome = "SUCCESS" THEN m.amount ELSE 0
      /\ ByMintedToPool[m] = 0
      /\ ByMintedToPool[tried]
           = IF outcome = "SUCCESS" /\ m.receiver = Pool THEN m.amount ELSE 0
  <2>1. m.state # "SUCCESS"
    BY DEF m
  <2> QED BY <1>3, <1>4, <2>1 DEF ByBurnt, ByUntried, ByMinted, ByMintedToPool, MintedFor,
                                   MintedToPool, Untried
<1>10. /\ Burnt(c)' = Total(Weighed(sent'[c], ByBurnt))
       /\ Arrived(c)' = Total(Weighed(sent'[c], ByMinted))
       /\ ArrivedAtPool(c)' = Total(Weighed(sent'[c], ByMintedToPool))
       /\ Underway(c)' = Total(Weighed(sent'[c], ByUntried))
  <2>1. \A j \in DOMAIN sent'[c] : sent'[c][j] \in Message
    BY <1>7
  <2> QED BY <2>1 DEF Burnt, Arrived, ArrivedAtPool, Underway, Weighed, ByBurnt, ByMinted,
                      ByMintedToPool, ByUntried
<1>11. \A d \in Chains \ {c} :
          /\ Burnt(d)' = Burnt(d) /\ Underway(d)' = Underway(d)
          /\ Arrived(d)' = Arrived(d) /\ ArrivedAtPool(d)' = ArrivedAtPool(d)
  BY <1>7 DEF Burnt, Arrived, ArrivedAtPool, Underway
<1> QED
  <2>1. Total(Weighed(sent'[c], ByBurnt)) = Total(Weighed(sent[c], ByBurnt))
    BY <1>6, <1>8, <1>9, Weights
  <2>2. Total(Weighed(sent'[c], ByUntried)) = Total(Weighed(sent[c], ByUntried))
           - (IF outcome = "SUCCESS" THEN m.burnt ELSE 0)
    BY <1>6, <1>8, <1>9, Weights
  <2>3. Total(Weighed(sent'[c], ByMinted)) = Total(Weighed(sent[c], ByMinted))
           + (IF outcome = "SUCCESS" THEN m.amount ELSE 0)
    BY <1>6, <1>8, <1>9, Weights
  <2>4. Total(Weighed(sent'[c], ByMintedToPool)) = Total(Weighed(sent[c], ByMintedToPool))
           + (IF outcome = "SUCCESS" /\ m.receiver = Pool THEN m.amount ELSE 0)
    BY <1>6, <1>8, <1>9, Weights
  <2> QED BY <1>1, <1>10, <1>11, <2>1, <2>2, <2>3, <2>4, SumsOfWeights DEF m

-----------------------------------------------------------------------------
(* What every step does to the ledgers. *)

LEMMA TwoChains ==
  ASSUME NEW c \in Chains
  PROVE  /\ Other(c) \in Chains /\ Other(c) # c /\ Other(Other(c)) = c
         /\ \A d \in Chains : d = c \/ d = Other(c)
         /\ Home \in Chains /\ Remote \in Chains /\ Other(Home) = Remote
         /\ (c = Home /\ Other(c) = Remote) \/ (c = Remote /\ Other(c) = Home)
BY CrossChainAssumption DEF Chains, Other

\* An approval writes an allowance and nothing else.
LEMMA ApproveEffect ==
  ASSUME NEW tok, WellFormed(tok), NEW u \in Accounts, NEW v \in Accounts, NEW amount \in UInt
  PROVE  LET new == AfterApprove(tok, u, v, amount)
         IN  /\ WellFormed(new)
             /\ new.totalSupply = tok.totalSupply
             /\ new.balances = tok.balances
             /\ new.sUserToAmountMinted = tok.sUserToAmountMinted
             /\ new.sUserToInterestRate = tok.sUserToInterestRate
             /\ SameSettings(tok, new)
BY AllowanceWellFormed DEF AfterApprove, WellFormed, TokenStorage, SameSettings

LEMMA TransferFromEffect ==
  ASSUME NEW tok, WellFormed(tok), NEW t \in Nat, NEW spender \in Accounts,
         NEW u \in Accounts, NEW v \in Accounts, NEW amount \in UInt
  PROVE  LET new == AfterTransferFrom(tok, t, spender, u, v, amount)
             moved == AfterTransfer(tok, t, u, v, amount)
         IN  /\ new.totalSupply = moved.totalSupply
             /\ new.balances = moved.balances
             /\ new.sUserToAmountMinted = moved.sUserToAmountMinted
             /\ new.sUserToInterestRate = moved.sUserToInterestRate
             /\ SameSettings(moved, new)
<1>1. tok \in TokenStorage
  BY DEF WellFormed
<1> QED
  BY <1>1 DEF AfterTransferFrom, AfterTransfer, MoveBalance, TokenStorage, SameSettings

\* ccipSend moves the sender's tokens to the pool and burns the amount from
\* what the pool then has.
LEMMA SendEffect ==
  ASSUME TokensInv(token), now \in Nat, NEW c \in Chains, NEW u \in Users,
         NEW amount \in UInt, NEW fee \in UInt, CanCcipSend(c, u, amount, fee)
  PROVE  LET tok == token[c]
             new == AfterBurn(AtPool(c, u, amount), now, Pool, amount)
             value == Resolve(Approved(c, u, amount), now, u, amount)
             burnt == Resolve(AtPool(c, u, amount), now, Pool, amount)
         IN  /\ value \in UInt /\ value <= tok.balances[u]
             /\ burnt \in UInt /\ burnt <= tok.balances[Pool] + value
             /\ CanReadBalance(tok, now, Pool)
             /\ new.totalSupply = tok.totalSupply - burnt
             /\ \A v \in Accounts :
                   /\ new.balances[v] = tok.balances[v] - (IF v = u THEN value ELSE 0)
                                           + (IF v = Pool THEN value - burnt ELSE 0)
                   /\ new.sUserToAmountMinted[v]
                        = tok.sUserToAmountMinted[v] - (IF v = Pool THEN burnt ELSE 0)
             /\ new.sUserToInterestRate = tok.sUserToInterestRate
             /\ SameSettings(tok, new)
<1> DEFINE tok == token[c]
           approved == Approved(c, u, amount)
           atPool == AtPool(c, u, amount)
           moved == AfterTransfer(approved, now, u, Pool, amount)
           new == AfterBurn(atPool, now, Pool, amount)
           value == Resolve(approved, now, u, amount)
           burnt == Resolve(atPool, now, Pool, amount)
<1>1. /\ u \in Accounts /\ Pool \in Accounts /\ Router \in Accounts /\ u # Pool
      /\ WellFormed(tok) /\ tok \in TokenStorage
  BY Addresses DEF TokensInv, WellFormed
<1>2. /\ WellFormed(approved)
      /\ approved.totalSupply = tok.totalSupply /\ approved.balances = tok.balances
      /\ approved.sUserToAmountMinted = tok.sUserToAmountMinted
      /\ approved.sUserToInterestRate = tok.sUserToInterestRate
      /\ SameSettings(tok, approved)
  <2> HIDE DEF tok
  <2>1. approved = AfterApprove(tok, u, Router, amount)
    BY DEF Approved, tok
  <2>2. LET after == AfterApprove(tok, u, Router, amount)
        IN  /\ WellFormed(after)
            /\ after.totalSupply = tok.totalSupply /\ after.balances = tok.balances
            /\ after.sUserToAmountMinted = tok.sUserToAmountMinted
            /\ after.sUserToInterestRate = tok.sUserToInterestRate
            /\ SameSettings(tok, after)
    BY <1>1, ApproveEffect
  <2> HIDE DEF approved
  <2> QED BY <2>1, <2>2
<1>3. /\ CanTransferFrom(approved, now, Router, u, Pool, amount)
      /\ CanTransfer(approved, now, u, Pool, amount)
      /\ CanBurn(atPool, now, Pool, Pool, amount)
  BY DEF CanCcipSend, CanLockOrBurn, CanTransferFrom
<1>4. atPool = AfterTransferFrom(approved, now, Router, u, Pool, amount)
  BY DEF AtPool
<1> HIDE DEF tok, approved, atPool
<1>5. WellFormed(atPool)
  BY <1>1, <1>2, <1>3, <1>4, TransferFromWellFormed
<1>6. /\ value \in UInt /\ value <= approved.balances[u]
      /\ \A v \in Accounts :
            moved.balances[v] = approved.balances[v] - (IF v = u THEN value ELSE 0)
                                   + (IF v = Pool THEN value ELSE 0)
      /\ moved.totalSupply = approved.totalSupply
      /\ moved.sUserToAmountMinted = approved.sUserToAmountMinted
      /\ moved.sUserToInterestRate = approved.sUserToInterestRate
      /\ SameSettings(approved, moved)
  BY <1>1, <1>2, <1>3, TransferEffect
<1>7. /\ atPool.totalSupply = moved.totalSupply /\ atPool.balances = moved.balances
      /\ atPool.sUserToAmountMinted = moved.sUserToAmountMinted
      /\ atPool.sUserToInterestRate = moved.sUserToInterestRate
      /\ SameSettings(moved, atPool)
  BY <1>1, <1>2, <1>4, TransferFromEffect
<1>8. /\ burnt \in UInt /\ burnt <= atPool.balances[Pool]
      /\ new.totalSupply = atPool.totalSupply - burnt
      /\ \A v \in Accounts :
            /\ new.balances[v] = atPool.balances[v] - (IF v = Pool THEN burnt ELSE 0)
            /\ new.sUserToAmountMinted[v]
                 = atPool.sUserToAmountMinted[v] - (IF v = Pool THEN burnt ELSE 0)
      /\ new.sUserToInterestRate = atPool.sUserToInterestRate
      /\ SameSettings(atPool, new)
  BY <1>1, <1>3, <1>5, BurnEffect
<1>9. CanReadBalance(tok, now, Pool)
  <2>1. CanReadBalance(approved, now, Pool)
    BY <1>3 DEF CanTransfer, CanMintAccuredInterest
  <2> QED BY <1>2, <2>1 DEF CanReadBalance, CalculateAccumulateInterest, SameSettings
<1> HIDE DEF moved, new, value, burnt
<1>10. \A v \in Accounts : tok.balances[v] \in Int
  BY <1>1, StorageTypes, TokenAssumption DEF UInt
<1>11. value \in Int /\ burnt \in Int
  BY <1>6, <1>8, TokenAssumption DEF UInt
<1>12. burnt <= tok.balances[Pool] + value
  BY <1>1, <1>2, <1>6, <1>7, <1>8, <1>10, <1>11
<1>13. \A v \in Accounts :
          new.balances[v] = tok.balances[v] - (IF v = u THEN value ELSE 0)
                               + (IF v = Pool THEN value - burnt ELSE 0)
  BY <1>1, <1>2, <1>6, <1>7, <1>8, <1>10, <1>11
<1>14. SameSettings(tok, new)
  BY <1>2, <1>6, <1>7, <1>8 DEF SameSettings
<1>15. /\ new.totalSupply = tok.totalSupply - burnt
       /\ new.sUserToInterestRate = tok.sUserToInterestRate
       /\ \A v \in Accounts :
             new.sUserToAmountMinted[v]
               = tok.sUserToAmountMinted[v] - (IF v = Pool THEN burnt ELSE 0)
  BY <1>2, <1>6, <1>7, <1>8
<1>16. value <= tok.balances[u]
  BY <1>2, <1>6
<1> QED
  BY <1>6, <1>8, <1>9, <1>12, <1>13, <1>14, <1>15, <1>16 DEF tok, new, value, burnt, approved, atPool

-----------------------------------------------------------------------------
(* Conservation.  The supplies are accounted for exactly.  What somebody can *)
(* still move is bounded as well: a pool that was asked to take more than    *)
(* its balance could be read with counts for nothing, because neither a      *)
(* transfer to it nor a burn by it succeeds any more.                        *)

Worth(tok) ==
    tok.totalSupply - (IF TooMuch(tok.balances[Pool]) THEN tok.balances[Pool] ELSE 0)

WorthInv ==
    Worth(token[Home]) + Worth(token[Remote]) + Underway(Home) + Underway(Remote)
      <= Total(sUserToAmountDeposited) + issued[Home] + issued[Remote]

Conserved == SupplyConserved /\ PoolLedger /\ WorthInv

HomeInv ==
    /\ Total(sUserToAmountDeposited) <= Funds
    /\ \A u \in Users : sUserToAmountDeposited[u] <= token[Home].sUserToAmountMinted[u]
    /\ VaultAddress \in token[Home].minters
    /\ \A c \in Chains, u \in Accounts : token[c].sUserToLastUpdatedTimeStamp[u] = 0

LedgerInv == Conserved /\ HomeInv

LEMMA LedgerTypes ==
  ASSUME CrossChainInv
  PROVE  /\ Total(sUserToAmountDeposited) \in Nat
         /\ \A u \in Accounts : sUserToAmountDeposited[u] \in Nat
         /\ sUserToAmountDeposited \in Ledger
         /\ \A c \in Chains :
               /\ token[c] \in TokenStorage /\ WellFormed(token[c])
               /\ token[c].totalSupply \in Nat /\ issued[c] \in Nat
               /\ \A u \in Accounts : /\ token[c].balances[u] \in Nat
                                      /\ token[c].balances[u] <= token[c].totalSupply
                                      /\ token[c].sUserToAmountMinted[u] \in Nat
               /\ Worth(token[c]) \in Nat /\ Worth(token[c]) <= token[c].totalSupply
               /\ Burnt(c) \in Nat /\ Arrived(c) \in Nat
               /\ ArrivedAtPool(c) \in Nat /\ Underway(c) \in Nat
<1>1. sUserToAmountDeposited \in Ledger
  BY DEF CrossChainInv, Ledger
<1>2. \A u \in Accounts : sUserToAmountDeposited[u] \in Nat
  BY <1>1, TokenAssumption DEF Ledger, UInt
<1>3. ASSUME NEW c \in Chains
      PROVE  /\ token[c] \in TokenStorage /\ WellFormed(token[c])
             /\ token[c].totalSupply \in Nat /\ issued[c] \in Nat
             /\ \A u \in Accounts : /\ token[c].balances[u] \in Nat
                                    /\ token[c].balances[u] <= token[c].totalSupply
                                    /\ token[c].sUserToAmountMinted[u] \in Nat
             /\ Worth(token[c]) \in Nat /\ Worth(token[c]) <= token[c].totalSupply
  <2>1. token[c] \in TokenStorage /\ WellFormed(token[c])
    BY DEF CrossChainInv, TokensInv
  <2>2. /\ token[c].totalSupply \in Nat
        /\ \A u \in Accounts : token[c].balances[u] \in Nat /\ token[c].sUserToAmountMinted[u] \in Nat
    BY <2>1, StorageTypes, TokenAssumption DEF UInt
  <2>3. \A u \in Accounts : token[c].balances[u] <= token[c].totalSupply
    BY <2>1, StorageTypes, EntryAtMostTotal DEF WellFormed
  <2>4. issued[c] \in Nat
    BY CrossChainAssumption DEF CrossChainInv
  <2>5. Worth(token[c]) \in Nat /\ Worth(token[c]) <= token[c].totalSupply
    BY <2>2, <2>3, Addresses DEF Worth
  <2> QED BY <2>1, <2>2, <2>3, <2>4, <2>5
<1>4. \A c \in Chains : /\ Burnt(c) \in Nat /\ Arrived(c) \in Nat
                        /\ ArrivedAtPool(c) \in Nat /\ Underway(c) \in Nat
  BY SumsAreNat DEF CrossChainInv, MessagesInv
<1> QED BY <1>1, <1>2, <1>3, <1>4, TotalIsNat

\* A pool that can be read counts for all it has.
LEMMA ReadablePoolCounts ==
  ASSUME CrossChainInv, NEW c \in Chains, CanReadBalance(token[c], now, Pool)
  PROVE  /\ Worth(token[c]) = token[c].totalSupply
         /\ ~TooMuch(token[c].balances[Pool])
<1> DEFINE tok == token[c]
           b == tok.balances[Pool]
           r == tok.sUserToInterestRate[Pool]
           e == now - tok.sUserToLastUpdatedTimeStamp[Pool]
           g == CalculateAccumulateInterest(tok, now, Pool)
<1>1. tok \in TokenStorage /\ Pool \in Accounts /\ now \in Nat
  BY LedgerTypes, Addresses, CrossChainAssumption DEF CrossChainInv
<1>2. b \in Nat /\ r \in Nat /\ e \in Nat
  <2>1. b \in UInt /\ r \in UInt /\ tok.sUserToLastUpdatedTimeStamp[Pool] \in UInt
    BY <1>1, StorageTypes
  <2> QED BY <1>1, <2>1, TokenAssumption DEF UInt, CanReadBalance
<1>3. g = PRECISION_FACTOR + r * e /\ b * g <= MaxUint
  BY DEF CalculateAccumulateInterest, CanReadBalance
<1>4. tok.totalSupply \in Nat
  BY LedgerTypes
<1> HIDE DEF b, r, e, g
<1>5. r * e \in Nat
  BY <1>2
<1>6. g \in Nat /\ PRECISION_FACTOR \in Nat /\ PRECISION_FACTOR <= g
  BY <1>3, <1>5, TokenAssumption
<1>7. b * PRECISION_FACTOR <= b * g /\ b * PRECISION_FACTOR \in Nat /\ b * g \in Nat
  BY <1>2, <1>6, ProductMonotone
<1>8. ~TooMuch(b)
  BY <1>3, <1>7, TokenAssumption DEF TooMuch
<1> QED BY <1>4, <1>8 DEF Worth, b

\* A call on chain c while no message moves: what it adds to the supply was
\* deposited, or issued to the pool.
LEMMA LocalStep ==
  ASSUME CrossChainInv, Conserved, NEW c \in Chains, NEW new,
         token' = [token EXCEPT ![c] = new], sent' = sent,
         NEW x \in Int, NEW p \in Int,
         new.totalSupply = token[c].totalSupply + x,
         new.sUserToAmountMinted[Pool] = token[c].sUserToAmountMinted[Pool] + p,
         Worth(new) \in Int, Worth(new) <= Worth(token[c]) + x,
         issued'[c] = issued[c] + p, issued'[Other(c)] = issued[Other(c)],
         Total(sUserToAmountDeposited)' = Total(sUserToAmountDeposited) + x - p
  PROVE  Conserved'
<1> DEFINE d == Other(c)
<1>1. /\ d \in Chains /\ d # c /\ Other(d) = c
      /\ \A e \in Chains : e = c \/ e = d
      /\ (c = Home /\ d = Remote) \/ (c = Remote /\ d = Home)
  BY TwoChains
<1> HIDE DEF d
<1>2. token'[c] = new /\ token'[d] = token[d]
  BY <1>1 DEF CrossChainInv, TokensInv
<1>3. \A e \in Chains : /\ Burnt(e)' = Burnt(e) /\ Arrived(e)' = Arrived(e)
                        /\ ArrivedAtPool(e)' = ArrivedAtPool(e) /\ Underway(e)' = Underway(e)
  BY DEF Burnt, Arrived, ArrivedAtPool, Underway
<1>4. \A e \in Chains :
         /\ token[e].totalSupply \in Nat /\ issued[e] \in Nat /\ Worth(token[e]) \in Nat
         /\ token[e].sUserToAmountMinted[Pool] \in Nat
         /\ Burnt(e) \in Nat /\ Arrived(e) \in Nat
         /\ ArrivedAtPool(e) \in Nat /\ Underway(e) \in Nat
  BY LedgerTypes, Addresses
<1>5. Total(sUserToAmountDeposited) \in Nat
  BY LedgerTypes
<1>6. issued'[d] = issued[d]
  BY DEF d
<1>7. SupplyConserved'
  <2>1. token[c].totalSupply + token[d].totalSupply + Burnt(c) + Burnt(d) - Arrived(c) - Arrived(d)
          = Total(sUserToAmountDeposited) + issued[c] + issued[d]
    BY <1>1, <1>4, <1>5 DEF Conserved, SupplyConserved
  <2>2. token'[c].totalSupply + token'[d].totalSupply + Burnt(c)' + Burnt(d)'
             - Arrived(c)' - Arrived(d)'
          = Total(sUserToAmountDeposited)' + issued'[c] + issued'[d]
    BY <1>1, <1>2, <1>3, <1>4, <1>5, <1>6, <2>1
  <2>3. \A e \in Chains : token'[e].totalSupply \in Int /\ issued'[e] \in Int
    BY <1>1, <1>2, <1>4, <1>6
  <2>4. Total(sUserToAmountDeposited)' \in Int
    BY <1>5
  <2> QED BY <1>1, <1>3, <1>4, <2>2, <2>3, <2>4 DEF SupplyConserved
<1>8. PoolLedger'
  <2>1. \A e \in Chains : token[e].sUserToAmountMinted[Pool] + Burnt(e)
                             = issued[e] + ArrivedAtPool(Other(e))
    BY DEF Conserved, PoolLedger
  <2>2. token'[c].sUserToAmountMinted[Pool] + Burnt(c)' = issued'[c] + ArrivedAtPool(Other(c))'
    BY <1>1, <1>2, <1>3, <1>4, <2>1, TwoChains
  <2>3. token'[d].sUserToAmountMinted[Pool] + Burnt(d)' = issued'[d] + ArrivedAtPool(Other(d))'
    BY <1>1, <1>2, <1>3, <1>6, <2>1, TwoChains
  <2> QED BY <1>1, <2>2, <2>3 DEF PoolLedger
<1>9. WorthInv'
  <2>1. Worth(token[c]) + Worth(token[d]) + Underway(c) + Underway(d)
          <= Total(sUserToAmountDeposited) + issued[c] + issued[d]
    BY <1>1, <1>4, <1>5 DEF Conserved, WorthInv
  <2>2. Worth(token'[c]) + Worth(token'[d]) + Underway(c)' + Underway(d)'
          <= Total(sUserToAmountDeposited)' + issued'[c] + issued'[d]
    BY <1>1, <1>2, <1>3, <1>4, <1>5, <1>6, <2>1
  <2>3. \A e \in Chains : Worth(token'[e]) \in Int /\ issued'[e] \in Int
    BY <1>1, <1>2, <1>4, <1>6
  <2>4. Total(sUserToAmountDeposited)' \in Int
    BY <1>5
  <2>5. \A e \in Chains : Worth(token[e])' = Worth(token'[e])
    BY DEF Worth
  <2> QED BY <1>1, <1>3, <1>4, <2>2, <2>3, <2>4, <2>5 DEF WorthInv
<1> QED BY <1>7, <1>8, <1>9 DEF Conserved

\* A call that leaves the vault's ledger alone takes nothing from the minted
\* ledger of a user, no role and no clock.
LEMMA HomeKept ==
  ASSUME CrossChainInv, HomeInv, NEW c \in Chains, NEW new,
         token' = [token EXCEPT ![c] = new],
         sUserToAmountDeposited' = sUserToAmountDeposited,
         new.sUserToLastUpdatedTimeStamp = token[c].sUserToLastUpdatedTimeStamp,
         token[c].minters \subseteq new.minters,
         \A u \in Users : /\ new.sUserToAmountMinted[u] \in Int
                          /\ token[c].sUserToAmountMinted[u] <= new.sUserToAmountMinted[u]
  PROVE  HomeInv'
<1>1. token \in [Chains -> TokenStorage] /\ Home \in Chains
  BY DEF CrossChainInv, TokensInv, Chains
<1>2. \A d \in Chains : token'[d] = IF d = c THEN new ELSE token[d]
  BY <1>1
<1>3. \A u \in Users : /\ sUserToAmountDeposited[u] \in Int
                       /\ token[Home].sUserToAmountMinted[u] \in Int
  BY <1>1, LedgerTypes, Addresses
<1>4. \A u \in Users : sUserToAmountDeposited[u] <= token'[Home].sUserToAmountMinted[u]
  BY <1>1, <1>2, <1>3 DEF HomeInv
<1>5. Total(sUserToAmountDeposited)' = Total(sUserToAmountDeposited)
  OBVIOUS
<1> QED BY <1>1, <1>2, <1>4, <1>5 DEF HomeInv

LEMMA DepositKeepsLedgers ==
  ASSUME CrossChainInv, LedgerInv, NEW u \in Users, NEW value \in Amounts, Deposit(u, value)
  PROVE  LedgerInv'
<1> DEFINE tok == token[Home]
           rate == DepositRate(tok, u)
           new == AfterMint(tok, u, value, rate)
           dep == sUserToAmountDeposited
<1>1. /\ u \in Accounts /\ u # Pool /\ Pool \in Accounts /\ VaultAddress \in Accounts
      /\ value \in UInt /\ value \in Nat /\ Home \in Chains /\ now \in Nat
      /\ WellFormed(tok)
  BY Addresses, LedgerTypes, TokenAssumption, CrossChainAssumption DEF CrossChainInv, Chains, UInt
<1>2. rate \in UInt
  BY <1>1, StorageTypes DEF DepositRate, WellFormed, TokenStorage
<1>3. CanMint(tok, now, VaultAddress, u, value)
  BY DEF Deposit, CanDeposit
<1>4. token' = [token EXCEPT ![Home] = new]
  BY DEF Deposit, AfterDeposit
<1>5. /\ new.totalSupply = tok.totalSupply + value
      /\ \A v \in Accounts :
            /\ new.balances[v] = tok.balances[v] + (IF v = u THEN value ELSE 0)
            /\ new.sUserToAmountMinted[v]
                 = tok.sUserToAmountMinted[v] + (IF v = u THEN value ELSE 0)
      /\ SameSettings(tok, new)
  <2> HIDE DEF tok, rate
  <2> QED BY <1>1, <1>2, <1>3, MintEffect
<1>6. /\ dep \in Ledger /\ dep[u] \in Nat /\ Total(dep) \in Nat
      /\ dep' = [dep EXCEPT ![u] = dep[u] + value] /\ dep[u] + value \in UInt
  <2>1. dep[u] + value <= MaxUint
    BY DEF Deposit, CanDeposit
  <2> QED BY <1>1, <2>1, LedgerTypes, TokenAssumption DEF Deposit, UInt
<1>7. Total(dep)' = Total(dep) + value
  <2>1. Total([dep EXCEPT ![u] = dep[u] + value]) = Total(dep) - dep[u] + (dep[u] + value)
    BY <1>1, <1>6, TotalExcept
  <2> QED BY <1>1, <1>6, <2>1
<1>8. /\ tok.balances[Pool] \in Nat /\ tok.sUserToAmountMinted[Pool] \in Nat
      /\ Worth(tok) \in Nat /\ tok.totalSupply \in Nat
      /\ issued[Home] \in Nat /\ issued[Other(Home)] \in Nat
  BY <1>1, LedgerTypes, TwoChains
<1> HIDE DEF new, rate
<1>9. Worth(new) = Worth(tok) + value
  BY <1>1, <1>5, <1>8 DEF Worth
<1>10. Conserved'
  <2> HIDE DEF dep
  <2> DEFINE x == value
             p == 0
  <2>1. /\ x \in Int /\ p \in Int
        /\ token' = [token EXCEPT ![Home] = new] /\ sent' = sent
        /\ new.totalSupply = tok.totalSupply + x
        /\ new.sUserToAmountMinted[Pool] = tok.sUserToAmountMinted[Pool] + p
        /\ Worth(new) \in Int /\ Worth(new) <= Worth(tok) + x
        /\ issued'[Home] = issued[Home] + p /\ issued'[Other(Home)] = issued[Other(Home)]
        /\ Total(dep)' = Total(dep) + x - p
    <3>1. /\ sent' = sent /\ issued' = issued
      BY DEF Deposit, Bridge
    <3>2. new.sUserToAmountMinted[Pool] = tok.sUserToAmountMinted[Pool] /\ Other(Home) # Home
      BY <1>1, <1>5, <1>8, TwoChains
    <3> HIDE DEF tok
    <3> QED BY <1>1, <1>4, <1>5, <1>6, <1>7, <1>8, <1>9, <3>1, <3>2
  <2> HIDE DEF x, p
  <2> QED BY <1>1, <2>1, LocalStep DEF LedgerInv, dep
<1>11. HomeInv'
  <2>1. Total(dep)' <= Funds
    BY <1>7 DEF Deposit
  <2>2. \A d \in Chains : token'[d] = IF d = Home THEN new ELSE token[d]
    BY <1>1, <1>4 DEF CrossChainInv, TokensInv
  <2>3. \A v \in Users : /\ v \in Accounts /\ dep[v] \in Nat
                         /\ tok.sUserToAmountMinted[v] \in Nat
                         /\ dep[v] <= tok.sUserToAmountMinted[v]
    BY <1>1, LedgerTypes, Addresses DEF LedgerInv, HomeInv
  <2>4. \A v \in Users : dep'[v] = dep[v] + (IF v = u THEN value ELSE 0)
    BY <1>1, <1>6, <2>3 DEF Ledger
  <2>5. \A v \in Users : dep'[v] <= new.sUserToAmountMinted[v]
    BY <1>1, <1>5, <2>3, <2>4
  <2> HIDE DEF dep
  <2> QED BY <1>1, <1>5, <2>1, <2>2, <2>5 DEF LedgerInv, HomeInv, SameSettings, dep
<1> QED BY <1>10, <1>11 DEF LedgerInv

\* What the vault holds for a user is no sentinel.
LEMMA DepositsFit ==
  ASSUME CrossChainInv, HomeInv, NEW u \in Users
  PROVE  sUserToAmountDeposited[u] <= Funds /\ sUserToAmountDeposited[u] < MaxUint
<1>1. /\ sUserToAmountDeposited[u] \in Nat /\ Total(sUserToAmountDeposited) \in Nat
      /\ sUserToAmountDeposited[u] <= Total(sUserToAmountDeposited)
  BY LedgerTypes, Addresses, EntryAtMostTotal
<1> QED BY <1>1, SupplyAssumption, CrossChainAssumption, TokenAssumption DEF HomeInv, UInt

LEMMA RedeemKeepsLedgers ==
  ASSUME CrossChainInv, LedgerInv, NEW u \in Users, NEW amount \in Amounts, Redeem(u, amount)
  PROVE  LedgerInv'
<1> DEFINE tok == token[Home]
           new == AfterBurn(tok, now, u, amount)
           dep == sUserToAmountDeposited
<1>1. /\ u \in Accounts /\ u # Pool /\ Pool \in Accounts /\ VaultAddress \in Accounts
      /\ amount \in UInt /\ amount \in Nat /\ Home \in Chains /\ now \in Nat
      /\ WellFormed(tok)
  BY Addresses, LedgerTypes, TokenAssumption, CrossChainAssumption DEF CrossChainInv, Chains, UInt
<1>2. /\ CanBurn(tok, now, VaultAddress, u, amount) /\ amount <= dep[u]
      /\ dep' = [dep EXCEPT ![u] = dep[u] - amount]
      /\ dep \in Ledger /\ dep[u] \in Nat /\ Total(dep) \in Nat
  BY <1>1, LedgerTypes DEF Redeem, CanRedeem
<1>3. amount # MaxUint /\ dep[u] - amount \in UInt
  <2>1. dep[u] <= Funds /\ dep[u] < MaxUint
    BY DepositsFit DEF LedgerInv
  <2> QED BY <1>1, <1>2, <2>1, TokenAssumption DEF UInt
<1>4. Resolve(tok, now, u, amount) = amount
  BY <1>3 DEF Resolve
<1>5. token' = [token EXCEPT ![Home] = new]
  BY DEF Redeem, AfterRedeem
<1>6. /\ new.totalSupply = tok.totalSupply - amount
      /\ \A v \in Accounts :
            /\ new.balances[v] = tok.balances[v] - (IF v = u THEN amount ELSE 0)
            /\ new.sUserToAmountMinted[v]
                 = tok.sUserToAmountMinted[v] - (IF v = u THEN amount ELSE 0)
      /\ SameSettings(tok, new)
  <2> HIDE DEF tok
  <2> QED BY <1>1, <1>2, <1>4, BurnEffect
<1>7. Total(dep)' = Total(dep) - amount
  <2>1. Total([dep EXCEPT ![u] = dep[u] - amount]) = Total(dep) - dep[u] + (dep[u] - amount)
    BY <1>1, <1>2, <1>3, TotalExcept
  <2> QED BY <1>1, <1>2, <2>1
<1>8. /\ tok.balances[Pool] \in Nat /\ tok.sUserToAmountMinted[Pool] \in Nat
      /\ Worth(tok) \in Nat /\ tok.totalSupply \in Nat
      /\ issued[Home] \in Nat /\ issued[Other(Home)] \in Nat
  BY <1>1, LedgerTypes, TwoChains
<1> HIDE DEF new
<1>9. Worth(new) = Worth(tok) - amount
  BY <1>1, <1>6, <1>8 DEF Worth
<1>10. Conserved'
  <2> HIDE DEF dep
  <2> DEFINE x == -amount
             p == 0
  <2>1. /\ x \in Int /\ p \in Int
        /\ token' = [token EXCEPT ![Home] = new] /\ sent' = sent
        /\ new.totalSupply = tok.totalSupply + x
        /\ new.sUserToAmountMinted[Pool] = tok.sUserToAmountMinted[Pool] + p
        /\ Worth(new) \in Int /\ Worth(new) <= Worth(tok) + x
        /\ issued'[Home] = issued[Home] + p /\ issued'[Other(Home)] = issued[Other(Home)]
        /\ Total(dep)' = Total(dep) + x - p
    <3>1. /\ sent' = sent /\ issued' = issued
      BY DEF Redeem, Bridge
    <3>2. new.sUserToAmountMinted[Pool] = tok.sUserToAmountMinted[Pool] /\ Other(Home) # Home
      BY <1>1, <1>6, <1>8, TwoChains
    <3> HIDE DEF tok
    <3> QED BY <1>1, <1>2, <1>5, <1>6, <1>7, <1>8, <1>9, <3>1, <3>2
  <2> HIDE DEF x, p
  <2> QED BY <1>1, <2>1, LocalStep DEF LedgerInv, dep
<1>11. HomeInv'
  <2>1. Total(dep)' <= Funds
    <3>1. Total(dep) <= Funds /\ Funds \in Nat
      BY CrossChainAssumption, TokenAssumption DEF LedgerInv, HomeInv, UInt
    <3> QED BY <1>1, <1>2, <1>7, <3>1
  <2>2. \A d \in Chains : token'[d] = IF d = Home THEN new ELSE token[d]
    BY <1>1, <1>5 DEF CrossChainInv, TokensInv
  <2>3. \A v \in Users : /\ v \in Accounts /\ dep[v] \in Nat
                         /\ tok.sUserToAmountMinted[v] \in Nat
                         /\ dep[v] <= tok.sUserToAmountMinted[v]
    BY <1>1, LedgerTypes, Addresses DEF LedgerInv, HomeInv
  <2>4. \A v \in Users : dep'[v] = dep[v] - (IF v = u THEN amount ELSE 0)
    BY <1>1, <1>2, <2>3 DEF Ledger
  <2>5. \A v \in Users : dep'[v] <= new.sUserToAmountMinted[v]
    BY <1>1, <1>6, <2>3, <2>4
  <2> HIDE DEF dep
  <2> QED BY <1>1, <1>6, <2>1, <2>2, <2>5 DEF LedgerInv, HomeInv, SameSettings, dep
<1> QED BY <1>10, <1>11 DEF LedgerInv

LEMMA TransferKeepsLedgers ==
  ASSUME CrossChainInv, LedgerInv, NEW c \in Chains, NEW u \in Users, NEW to \in Holders,
         NEW amount \in Amounts, Transfer(c, u, to, amount)
  PROVE  LedgerInv'
<1> DEFINE tok == token[c]
           new == AfterTransfer(tok, now, u, to, amount)
           value == Resolve(tok, now, u, amount)
<1>1. /\ u \in Accounts /\ to \in Accounts /\ Pool \in Accounts /\ u # Pool
      /\ amount \in UInt /\ now \in Nat /\ WellFormed(tok)
  BY Addresses, LedgerTypes, CrossChainAssumption DEF CrossChainInv
<1>2. /\ CanTransfer(tok, now, u, to, amount) /\ token' = [token EXCEPT ![c] = new]
      /\ UNCHANGED <<sUserToAmountDeposited, sent, issued>>
  BY DEF Transfer, Bridge
<1>3. /\ value \in UInt
      /\ \A v \in Accounts :
            new.balances[v] = tok.balances[v] - (IF v = u THEN value ELSE 0)
                                 + (IF v = to THEN value ELSE 0)
      /\ new.totalSupply = tok.totalSupply
      /\ new.sUserToAmountMinted = tok.sUserToAmountMinted
      /\ SameSettings(tok, new)
  <2> HIDE DEF tok
  <2> QED BY <1>1, <1>2, TransferEffect
<1>4. /\ tok.balances[Pool] \in Nat /\ Worth(tok) \in Nat /\ tok.totalSupply \in Nat
      /\ \A v \in Accounts : tok.sUserToAmountMinted[v] \in Nat
      /\ issued[c] \in Nat /\ issued[Other(c)] \in Nat /\ Total(sUserToAmountDeposited) \in Nat
  BY <1>1, LedgerTypes, TwoChains
<1> HIDE DEF new, value
<1>5. Worth(new) \in Int /\ Worth(new) <= Worth(tok)
  <2>0. value \in Nat
    BY <1>3, TokenAssumption DEF UInt
  <2>1. CASE to = Pool
    <3>1. CanReadBalance(tok, now, Pool)
      BY <1>2, <2>1 DEF CanTransfer, CanMintAccuredInterest
    <3>2. Worth(tok) = tok.totalSupply
      BY <3>1, ReadablePoolCounts
    <3>3. new.balances[Pool] \in Nat
      BY <1>1, <1>3, <1>4, <2>0, <2>1
    <3> QED BY <1>3, <1>4, <3>2, <3>3 DEF Worth
  <2>2. CASE to # Pool
    <3>1. new.balances[Pool] = tok.balances[Pool]
      BY <1>1, <1>3, <1>4, <2>2
    <3>2. Worth(new) = Worth(tok)
      BY <1>3, <3>1 DEF Worth
    <3> QED BY <1>4, <3>2
  <2> QED BY <2>1, <2>2
<1>6. Conserved'
  <2> DEFINE x == 0
  <2>1. /\ x \in Int
        /\ new.totalSupply = tok.totalSupply + x
        /\ new.sUserToAmountMinted[Pool] = tok.sUserToAmountMinted[Pool] + x
        /\ Worth(new) \in Int /\ Worth(new) <= Worth(tok) + x
        /\ issued'[c] = issued[c] + x /\ issued'[Other(c)] = issued[Other(c)]
        /\ Total(sUserToAmountDeposited)' = Total(sUserToAmountDeposited) + x - x
    BY <1>1, <1>2, <1>3, <1>4, <1>5
  <2> HIDE DEF x
  <2> QED BY <1>2, <2>1, LocalStep DEF LedgerInv
<1>7. HomeInv'
  <2>1. \A v \in Users : /\ new.sUserToAmountMinted[v] \in Int
                         /\ tok.sUserToAmountMinted[v] <= new.sUserToAmountMinted[v]
    BY <1>3, <1>4, Addresses
  <2> QED BY <1>2, <1>3, <2>1, HomeKept DEF LedgerInv, SameSettings
<1> QED BY <1>6, <1>7 DEF LedgerInv

LEMMA RateCutKeepsLedgers ==
  ASSUME CrossChainInv, LedgerInv, NEW r \in Rates, SetInterestRete(r)
  PROVE  LedgerInv'
<1> DEFINE tok == token[Home]
           new == AfterSetInterestRete(tok, r)
<1>1. /\ Home \in Chains /\ Pool \in Accounts /\ tok \in TokenStorage
      /\ token' = [token EXCEPT ![Home] = new]
      /\ UNCHANGED <<sUserToAmountDeposited, sent, issued>>
  BY Addresses, LedgerTypes DEF Chains, SetInterestRete, Bridge
<1>2. /\ new.totalSupply = tok.totalSupply
      /\ new.balances = tok.balances
      /\ new.sUserToAmountMinted = tok.sUserToAmountMinted
      /\ new.sUserToLastUpdatedTimeStamp = tok.sUserToLastUpdatedTimeStamp
      /\ new.minters = tok.minters
  BY <1>1 DEF AfterSetInterestRete, TokenStorage
<1>3. /\ Worth(tok) \in Nat /\ tok.totalSupply \in Nat
      /\ \A v \in Accounts : tok.sUserToAmountMinted[v] \in Nat
      /\ issued[Home] \in Nat /\ issued[Other(Home)] \in Nat
      /\ Total(sUserToAmountDeposited) \in Nat
  BY <1>1, LedgerTypes, TwoChains
<1> HIDE DEF new
<1>4. Worth(new) = Worth(tok)
  BY <1>2 DEF Worth
<1>5. Conserved'
  <2> DEFINE x == 0
  <2>1. /\ x \in Int
        /\ new.totalSupply = tok.totalSupply + x
        /\ new.sUserToAmountMinted[Pool] = tok.sUserToAmountMinted[Pool] + x
        /\ Worth(new) \in Int /\ Worth(new) <= Worth(tok) + x
        /\ issued'[Home] = issued[Home] + x /\ issued'[Other(Home)] = issued[Other(Home)]
        /\ Total(sUserToAmountDeposited)' = Total(sUserToAmountDeposited) + x - x
    BY <1>1, <1>2, <1>3, <1>4
  <2> HIDE DEF x
  <2> QED BY <1>1, <2>1, LocalStep DEF LedgerInv
<1>6. HomeInv'
  <2>1. \A v \in Users : /\ new.sUserToAmountMinted[v] \in Int
                         /\ tok.sUserToAmountMinted[v] <= new.sUserToAmountMinted[v]
    BY <1>2, <1>3, Addresses
  <2> QED BY <1>1, <1>2, <2>1, HomeKept DEF LedgerInv
<1> QED BY <1>5, <1>6 DEF LedgerInv

\* What is issued enters the supply, the ledgers of the pool and no others.
LEMMA IssueKeepsLedgers ==
  ASSUME CrossChainInv, LedgerInv, NEW c \in Chains, NEW amount \in Issues,
         OwnerMintsToPool(c, amount)
  PROVE  LedgerInv'
<1> DEFINE tok == token[c]
           granted == AfterGrantRole(tok, "BURN_MINTER_ROLE", Deployer)
           new == AfterMint(granted, Pool, amount, 0)
<1>1. /\ Pool \in Accounts /\ Deployer \in Accounts /\ amount \in UInt /\ 0 \in UInt
      /\ amount \in Nat /\ now \in Nat /\ WellFormed(tok) /\ tok \in TokenStorage
  BY Addresses, LedgerTypes, TokenAssumption, CrossChainAssumption DEF CrossChainInv, UInt
<1>2. /\ CanMint(granted, now, Deployer, Pool, amount)
      /\ token' = [token EXCEPT ![c] = new]
      /\ issued' = [issued EXCEPT ![c] = issued[c] + amount]
      /\ UNCHANGED <<sUserToAmountDeposited, sent>>
  BY DEF OwnerMintsToPool, Bridge
<1>3. /\ WellFormed(granted)
      /\ granted.totalSupply = tok.totalSupply /\ granted.balances = tok.balances
      /\ granted.sUserToAmountMinted = tok.sUserToAmountMinted
      /\ granted.sUserToInterestRate = tok.sUserToInterestRate
      /\ granted.sUserToLastUpdatedTimeStamp = tok.sUserToLastUpdatedTimeStamp
      /\ granted.minters = tok.minters \cup {Deployer}
  <2>1. WellFormed(granted)
    BY <1>1, AdministrationWellFormed
  <2> QED BY <1>1, <2>1 DEF AfterGrantRole, TokenStorage
<1>4. CanReadBalance(tok, now, Pool)
  <2>1. CanReadBalance(granted, now, Pool)
    BY <1>2 DEF CanMint, CanMintAccuredInterest
  <2> HIDE DEF granted
  <2> QED BY <1>3, <2>1 DEF CanReadBalance, CalculateAccumulateInterest
<1>5. /\ new.totalSupply = tok.totalSupply + amount
      /\ \A v \in Accounts :
            new.balances[v] = tok.balances[v] + (IF v = Pool THEN amount ELSE 0)
      /\ \A v \in Accounts :
            new.sUserToAmountMinted[v]
               = tok.sUserToAmountMinted[v] + (IF v = Pool THEN amount ELSE 0)
      /\ new.sUserToLastUpdatedTimeStamp = tok.sUserToLastUpdatedTimeStamp
      /\ tok.minters \subseteq new.minters
  <2> HIDE DEF tok, granted
  <2>1. /\ new.totalSupply = granted.totalSupply + amount
        /\ \A v \in Accounts :
              /\ new.balances[v] = granted.balances[v] + (IF v = Pool THEN amount ELSE 0)
              /\ new.sUserToAmountMinted[v]
                   = granted.sUserToAmountMinted[v] + (IF v = Pool THEN amount ELSE 0)
        /\ SameSettings(granted, new)
    BY <1>1, <1>2, <1>3, MintEffect
  <2> QED BY <1>3, <2>1 DEF SameSettings
<1>6. /\ tok.balances[Pool] \in Nat /\ tok.balances[Pool] <= tok.totalSupply
      /\ Worth(tok) \in Nat /\ tok.totalSupply \in Nat
      /\ \A v \in Accounts : tok.sUserToAmountMinted[v] \in Nat
      /\ issued[c] \in Nat /\ issued[Other(c)] \in Nat /\ Total(sUserToAmountDeposited) \in Nat
      /\ issued \in [Chains -> 0..MaxIssued] /\ Other(c) # c /\ Other(c) \in Chains
  BY <1>1, LedgerTypes, TwoChains DEF CrossChainInv
<1> HIDE DEF granted, new
<1>7. Worth(tok) = tok.totalSupply
  BY <1>4, ReadablePoolCounts
<1>8. Worth(new) \in Int /\ Worth(new) <= Worth(tok) + amount
  <2>1. new.balances[Pool] = tok.balances[Pool] + amount
    BY <1>1, <1>5
  <2> QED BY <1>1, <1>5, <1>6, <1>7, <2>1 DEF Worth
<1>9. Conserved'
  <2> DEFINE x == amount
  <2>1. /\ x \in Int
        /\ new.totalSupply = tok.totalSupply + x
        /\ new.sUserToAmountMinted[Pool] = tok.sUserToAmountMinted[Pool] + x
        /\ Worth(new) \in Int /\ Worth(new) <= Worth(tok) + x
        /\ issued'[c] = issued[c] + x /\ issued'[Other(c)] = issued[Other(c)]
        /\ Total(sUserToAmountDeposited)' = Total(sUserToAmountDeposited) + x - x
    BY <1>1, <1>2, <1>5, <1>6, <1>8
  <2> HIDE DEF x
  <2> QED BY <1>2, <2>1, LocalStep DEF LedgerInv
<1>10. HomeInv'
  <2>1. \A v \in Users : /\ new.sUserToAmountMinted[v] \in Int
                         /\ tok.sUserToAmountMinted[v] <= new.sUserToAmountMinted[v]
    BY <1>1, <1>5, <1>6, Addresses
  <2> QED BY <1>2, <1>5, <2>1, HomeKept DEF LedgerInv
<1> QED BY <1>9, <1>10 DEF LedgerInv

\* A call on chain c with a message: what leaves the supply was burnt for a
\* message of c, and what enters it was minted for one of the other chain.
LEMMA BridgeStep ==
  ASSUME CrossChainInv, Conserved, NEW c \in Chains, NEW new,
         token' = [token EXCEPT ![c] = new],
         UNCHANGED <<sUserToAmountDeposited, issued>>,
         NEW out \in Int, NEW in \in Int, NEW pool \in Int, NEW tried \in Int,
         Burnt(c)' = Burnt(c) + out, Burnt(Other(c))' = Burnt(Other(c)),
         Arrived(Other(c))' = Arrived(Other(c)) + in, Arrived(c)' = Arrived(c),
         ArrivedAtPool(Other(c))' = ArrivedAtPool(Other(c)) + pool,
         ArrivedAtPool(c)' = ArrivedAtPool(c),
         Underway(c)' + Underway(Other(c))' = Underway(c) + Underway(Other(c)) + tried,
         Underway(c)' \in Int, Underway(Other(c))' \in Int,
         new.totalSupply = token[c].totalSupply - out + in,
         new.sUserToAmountMinted[Pool] = token[c].sUserToAmountMinted[Pool] - out + pool,
         Worth(new) \in Int, Worth(new) <= Worth(token[c]) - tried
  PROVE  Conserved'
<1> DEFINE d == Other(c)
<1>1. /\ d \in Chains /\ d # c /\ Other(d) = c
      /\ \A e \in Chains : e = c \/ e = d
      /\ (c = Home /\ d = Remote) \/ (c = Remote /\ d = Home)
  BY TwoChains
<1>2. token'[c] = new /\ token'[d] = token[d]
  BY <1>1 DEF CrossChainInv, TokensInv
<1>3. \A e \in Chains :
         /\ token[e].totalSupply \in Nat /\ issued[e] \in Nat /\ Worth(token[e]) \in Nat
         /\ token[e].sUserToAmountMinted[Pool] \in Nat
         /\ Burnt(e) \in Nat /\ Arrived(e) \in Nat
         /\ ArrivedAtPool(e) \in Nat /\ Underway(e) \in Nat
  BY LedgerTypes, Addresses
<1>4. Total(sUserToAmountDeposited) \in Nat
      /\ Total(sUserToAmountDeposited)' = Total(sUserToAmountDeposited)
  BY LedgerTypes
<1>5. /\ Burnt(c)' = Burnt(c) + out /\ Burnt(d)' = Burnt(d)
      /\ Arrived(d)' = Arrived(d) + in /\ Arrived(c)' = Arrived(c)
      /\ ArrivedAtPool(d)' = ArrivedAtPool(d) + pool /\ ArrivedAtPool(c)' = ArrivedAtPool(c)
      /\ Underway(c)' + Underway(d)' = Underway(c) + Underway(d) + tried
      /\ Underway(c)' \in Int /\ Underway(d)' \in Int
      /\ issued' = issued
  OBVIOUS
<1> HIDE DEF d
<1>6. SupplyConserved'
  <2>1. token[c].totalSupply + token[d].totalSupply + Burnt(c) + Burnt(d) - Arrived(c) - Arrived(d)
          = Total(sUserToAmountDeposited) + issued[c] + issued[d]
    BY <1>1, <1>3, <1>4 DEF Conserved, SupplyConserved
  <2>2. token'[c].totalSupply + token'[d].totalSupply + Burnt(c)' + Burnt(d)'
             - Arrived(c)' - Arrived(d)'
          = Total(sUserToAmountDeposited)' + issued'[c] + issued'[d]
    BY <1>1, <1>2, <1>3, <1>4, <1>5, <2>1
  <2>3. \A e \in Chains : /\ token'[e].totalSupply \in Int /\ issued'[e] \in Int
                          /\ Burnt(e)' \in Int /\ Arrived(e)' \in Int
    BY <1>1, <1>2, <1>3, <1>5
  <2> QED BY <1>1, <1>4, <2>2, <2>3 DEF SupplyConserved
<1>7. PoolLedger'
  <2>1. \A e \in Chains : token[e].sUserToAmountMinted[Pool] + Burnt(e)
                             = issued[e] + ArrivedAtPool(Other(e))
    BY DEF Conserved, PoolLedger
  <2>2. token'[c].sUserToAmountMinted[Pool] + Burnt(c)' = issued'[c] + ArrivedAtPool(d)'
    <3>1. token[c].sUserToAmountMinted[Pool] + Burnt(c) = issued[c] + ArrivedAtPool(d)
      BY <2>1 DEF d
    <3> QED BY <1>1, <1>2, <1>3, <1>5, <3>1
  <2>3. token'[d].sUserToAmountMinted[Pool] + Burnt(d)' = issued'[d] + ArrivedAtPool(c)'
    <3>1. token[d].sUserToAmountMinted[Pool] + Burnt(d) = issued[d] + ArrivedAtPool(c)
      BY <1>1, <2>1
    <3> QED BY <1>1, <1>2, <1>5, <3>1
  <2>4. Other(c) = d /\ Other(d) = c
    BY <1>1 DEF d
  <2> QED BY <1>1, <2>2, <2>3, <2>4 DEF PoolLedger
<1>8. WorthInv'
  <2>1. Worth(token[c]) + Worth(token[d]) + Underway(c) + Underway(d)
          <= Total(sUserToAmountDeposited) + issued[c] + issued[d]
    BY <1>1, <1>3, <1>4 DEF Conserved, WorthInv
  <2>2. Worth(token'[c]) + Worth(token'[d]) + Underway(c)' + Underway(d)'
          <= Total(sUserToAmountDeposited)' + issued'[c] + issued'[d]
    BY <1>1, <1>2, <1>3, <1>4, <1>5, <2>1
  <2>3. \A e \in Chains : /\ Worth(token'[e]) \in Int /\ issued'[e] \in Int
                          /\ Underway(e)' \in Int
    BY <1>1, <1>2, <1>3, <1>5
  <2>4. \A e \in Chains : Worth(token[e])' = Worth(token'[e])
    BY DEF Worth
  <2> QED BY <1>1, <1>4, <2>2, <2>3, <2>4 DEF WorthInv
<1> QED BY <1>6, <1>7, <1>8 DEF Conserved

\* What a message burns goes under way, and the pool could be read before.
LEMMA SendKeepsLedgers ==
  ASSUME CrossChainInv, LedgerInv, NEW c \in Chains, NEW u \in Senders,
         NEW receiver \in Users \cup {Pool}, NEW amount \in Amounts, NEW fee \in Fees,
         CcipSend(c, u, receiver, amount, fee)
  PROVE  LedgerInv'
<1> DEFINE tok == token[c]
           new == AfterBurn(AtPool(c, u, amount), now, Pool, amount)
           value == Resolve(Approved(c, u, amount), now, u, amount)
           burnt == Resolve(AtPool(c, u, amount), now, Pool, amount)
           m == [sender |-> u, receiver |-> receiver, amount |-> amount - fee,
                 rate |-> token[c].sUserToInterestRate[u], burnt |-> burnt,
                 nonce |-> outboundNonce[c][u] + 1, state |-> "UNTOUCHED"]
<1>1. /\ u \in Users /\ u \in Accounts /\ Pool \in Accounts /\ u # Pool
      /\ amount \in UInt /\ fee \in UInt /\ now \in Nat /\ TokensInv(token)
      /\ CanCcipSend(c, u, amount, fee)
  BY Addresses, CrossChainAssumption DEF CrossChainInv, CcipSend, SendMessage
<1>2. /\ token' = [token EXCEPT ![c] = new]
      /\ UNCHANGED <<sUserToAmountDeposited, issued>>
      /\ sent' = [sent EXCEPT ![c] = Append(@, m)]
  BY DEF CcipSend, SendMessage
<1>3. /\ value \in UInt /\ burnt \in UInt /\ burnt <= tok.balances[Pool] + value
      /\ CanReadBalance(tok, now, Pool)
      /\ new.totalSupply = tok.totalSupply - burnt
      /\ \A v \in Accounts :
            /\ new.balances[v] = tok.balances[v] - (IF v = u THEN value ELSE 0)
                                    + (IF v = Pool THEN value - burnt ELSE 0)
            /\ new.sUserToAmountMinted[v]
                 = tok.sUserToAmountMinted[v] - (IF v = Pool THEN burnt ELSE 0)
      /\ SameSettings(tok, new)
  BY <1>1, SendEffect
<1>4. m \in Message
  <2>1. /\ tok.sUserToInterestRate[u] \in UInt
        /\ outboundNonce[c][u] + 1 \in Nat
    <3>1. tok \in TokenStorage
      BY LedgerTypes
    <3>2. outboundNonce \in [Chains -> [Accounts -> Nat]]
      BY DEF CrossChainInv, MessagesInv
    <3> HIDE DEF tok
    <3> QED BY <1>1, <3>1, <3>2, StorageTypes
  <2>2. amount - fee \in UInt
    BY <1>1, TokenAssumption DEF CanCcipSend, CanLockOrBurn, UInt
  <2> HIDE DEF burnt
  <2> QED BY <1>3, <2>1, <2>2 DEF Message
<1>5. m.state = "UNTOUCHED" /\ m.burnt = burnt
  OBVIOUS
<1> HIDE DEF m
<1>6. /\ Burnt(c)' = Burnt(c) + burnt /\ Underway(c)' = Underway(c) + burnt
      /\ Arrived(c)' = Arrived(c) /\ ArrivedAtPool(c)' = ArrivedAtPool(c)
      /\ \A d \in Chains \ {c} :
            /\ Burnt(d)' = Burnt(d) /\ Underway(d)' = Underway(d)
            /\ Arrived(d)' = Arrived(d) /\ ArrivedAtPool(d)' = ArrivedAtPool(d)
  <2> HIDE DEF burnt
  <2>1. sent \in [Chains -> Seq(Message)]
    BY DEF CrossChainInv, MessagesInv
  <2> QED BY <1>2, <1>4, <1>5, <2>1, SendAddsToSums
<1>7. /\ tok.balances[Pool] \in Nat /\ tok.balances[Pool] <= tok.totalSupply
      /\ Worth(tok) \in Nat /\ tok.totalSupply \in Nat
      /\ \A v \in Accounts : tok.sUserToAmountMinted[v] \in Nat
      /\ Other(c) # c /\ Other(c) \in Chains
      /\ \A e \in Chains : /\ Burnt(e) \in Nat /\ Arrived(e) \in Nat
                           /\ ArrivedAtPool(e) \in Nat /\ Underway(e) \in Nat
  BY <1>1, LedgerTypes, TwoChains
<1>8. value \in Nat /\ burnt \in Nat
  BY <1>3, TokenAssumption DEF UInt
<1> HIDE DEF new, value, burnt
<1>9. Worth(tok) = tok.totalSupply
  BY <1>3, ReadablePoolCounts
<1>10. Worth(new) \in Int /\ Worth(new) <= Worth(tok) - burnt
  <2>1. new.balances[Pool] = tok.balances[Pool] + value - burnt
    BY <1>1, <1>3, <1>7, <1>8
  <2>2. new.balances[Pool] \in Nat
    BY <1>3, <1>7, <1>8, <2>1
  <2> QED BY <1>3, <1>7, <1>8, <1>9, <2>2 DEF Worth
<1>11. Conserved'
  <2> DEFINE zero == 0
  <2>1. /\ zero \in Int /\ burnt \in Int
        /\ Burnt(c)' = Burnt(c) + burnt /\ Burnt(Other(c))' = Burnt(Other(c))
        /\ Arrived(Other(c))' = Arrived(Other(c)) + zero /\ Arrived(c)' = Arrived(c)
        /\ ArrivedAtPool(Other(c))' = ArrivedAtPool(Other(c)) + zero
        /\ ArrivedAtPool(c)' = ArrivedAtPool(c)
        /\ Underway(c)' + Underway(Other(c))' = Underway(c) + Underway(Other(c)) + burnt
        /\ Underway(c)' \in Int /\ Underway(Other(c))' \in Int
        /\ new.totalSupply = tok.totalSupply - burnt + zero
        /\ new.sUserToAmountMinted[Pool] = tok.sUserToAmountMinted[Pool] - burnt + zero
        /\ Worth(new) \in Int /\ Worth(new) <= Worth(tok) - burnt
    BY <1>1, <1>3, <1>6, <1>7, <1>8, <1>10
  <2> HIDE DEF zero
  <2> QED BY <1>2, <2>1, BridgeStep DEF LedgerInv
<1>12. HomeInv'
  <2>1. \A v \in Users : /\ new.sUserToAmountMinted[v] \in Int
                         /\ tok.sUserToAmountMinted[v] <= new.sUserToAmountMinted[v]
    BY <1>1, <1>3, <1>7, Addresses
  <2> QED BY <1>2, <1>3, <2>1, HomeKept DEF LedgerInv, SameSettings
<1> QED BY <1>11, <1>12 DEF LedgerInv

\* A message mints what was burnt for it, or less; if it mints more, the pool
\* that receives it counts for nothing afterwards.
LEMMA ReleaseWorth ==
  ASSUME CrossChainInv, ArrivalsInv, NEW c \in Chains, NEW i \in DOMAIN sent[c],
         CanReleaseOrMint(Other(c), sent[c][i])
  PROVE  LET m == sent[c][i]
             tok == token[Other(c)]
             new == Released(Other(c), m)
         IN  /\ new.totalSupply = tok.totalSupply + m.amount
             /\ \A v \in Accounts :
                   /\ new.balances[v]
                        = tok.balances[v] + (IF v = m.receiver THEN m.amount ELSE 0)
                   /\ new.sUserToAmountMinted[v]
                        = tok.sUserToAmountMinted[v] + (IF v = m.receiver THEN m.amount ELSE 0)
                   /\ new.sUserToInterestRate[v]
                        = IF v = m.receiver THEN m.rate ELSE tok.sUserToInterestRate[v]
             /\ SameSettings(tok, new)
             /\ Worth(new) \in Int /\ Worth(new) <= Worth(tok) + m.burnt
<1> DEFINE m == sent[c][i]
           d == Other(c)
           tok == token[d]
           new == Released(d, m)
<1>1. /\ m \in Message /\ d \in Chains /\ now \in Nat /\ TokensInv(token)
      /\ Pool \in Accounts /\ m.receiver \in Accounts
      /\ m.amount \in UInt /\ m.rate \in UInt
      /\ m.amount \in Nat /\ m.burnt \in Nat
  <2>1. m \in Message
    BY DEF CrossChainInv, MessagesInv
  <2>2. m.amount \in UInt /\ m.rate \in UInt /\ m.burnt \in UInt /\ m.receiver \in Accounts
    BY <2>1, Addresses DEF Message
  <2> QED BY <2>1, <2>2, TwoChains, Addresses, CrossChainAssumption, TokenAssumption
          DEF CrossChainInv, UInt
<1>2. m.amount <= m.burnt \/ TooMuch(m.amount)
  BY DEF ArrivalsInv
<1>3. /\ CanReleaseOrMint(d, m) /\ CanMint(tok, now, Pool, m.receiver, m.amount)
      /\ CanReadBalance(tok, now, m.receiver)
  BY DEF CanReleaseOrMint, CanMint, CanMintAccuredInterest
<1>4. m.receiver # Pool => ~TooMuch(m.amount)
  <2> HIDE DEF m, d
  <2> QED BY <1>1, <1>3, TooMuchIsRefused
<1>5. m.receiver = Pool => Worth(tok) = tok.totalSupply
  <2> HIDE DEF m, d
  <2> QED BY <1>1, <1>3, ReadablePoolCounts DEF tok
<1>6. /\ WellFormed(tok) /\ tok.totalSupply \in Nat /\ Worth(tok) \in Nat
      /\ tok.balances[Pool] \in Nat /\ tok.balances[Pool] <= tok.totalSupply
  <2> HIDE DEF d
  <2> QED BY <1>1, LedgerTypes
<1>7. /\ new.totalSupply = tok.totalSupply + m.amount
      /\ \A v \in Accounts :
            /\ new.balances[v]
                 = tok.balances[v] + (IF v = m.receiver THEN m.amount ELSE 0)
            /\ new.sUserToAmountMinted[v]
                 = tok.sUserToAmountMinted[v] + (IF v = m.receiver THEN m.amount ELSE 0)
            /\ new.sUserToInterestRate[v]
                 = IF v = m.receiver THEN m.rate ELSE tok.sUserToInterestRate[v]
      /\ SameSettings(tok, new)
  <2>1. new = AfterMint(tok, m.receiver, m.amount, m.rate)
    BY DEF Released
  <2> HIDE DEF m, tok, new
  <2> QED BY <1>1, <1>3, <1>6, <2>1, MintEffect
<1> HIDE DEF m, d, tok, new
<1>8. Worth(new) \in Int /\ Worth(new) <= Worth(tok) + m.burnt
  <2>1. CASE m.receiver # Pool
    <3>1. new.balances[Pool] = tok.balances[Pool] /\ m.amount <= m.burnt
      BY <1>1, <1>2, <1>4, <1>6, <1>7, <2>1
    <3> QED BY <1>1, <1>6, <1>7, <3>1 DEF Worth
  <2>2. CASE m.receiver = Pool
    <3>1. new.balances[Pool] = tok.balances[Pool] + m.amount /\ Worth(tok) = tok.totalSupply
      BY <1>1, <1>5, <1>7, <2>2
    <3>2. CASE m.amount <= m.burnt
      BY <1>1, <1>6, <1>7, <3>1, <3>2 DEF Worth
    <3>3. CASE TooMuch(m.amount)
      <4>1. TooMuch(new.balances[Pool])
        <5>1. /\ m.amount * PRECISION_FACTOR <= new.balances[Pool] * PRECISION_FACTOR
              /\ m.amount * PRECISION_FACTOR \in Nat
              /\ new.balances[Pool] * PRECISION_FACTOR \in Nat
          <6>1. new.balances[Pool] \in Nat /\ m.amount <= new.balances[Pool]
            BY <1>1, <1>6, <3>1
          <6> QED BY <1>1, <6>1, TokenAssumption, ProductMonotone
        <5> QED BY <3>3, <5>1, TokenAssumption DEF TooMuch
      <4> QED BY <1>1, <1>6, <1>7, <3>1, <4>1 DEF Worth
    <3> QED BY <1>2, <3>2, <3>3
  <2> QED BY <2>1, <2>2
<1> QED BY <1>7, <1>8 DEF m, d, tok, new

\* An attempt that succeeds takes what was burnt from under way and mints once.
LEMMA ExecuteKeepsLedgers ==
  ASSUME CrossChainInv, ArrivalsInv, LedgerInv, NEW c \in Chains, NEW i,
         Execute(c, i) \/ ManuallyExecute(c, i)
  PROVE  LedgerInv'
<1> DEFINE m == sent[c][i]
           d == Other(c)
           tok == token[d]
           new == Released(d, m)
<1>1. /\ i \in DOMAIN sent[c] /\ m.state # "SUCCESS" /\ MessagesInv
      /\ UNCHANGED <<sUserToAmountDeposited, issued>>
  BY DEF Execute, ManuallyExecute, CrossChainInv
<1>2. PICK outcome \in {"SUCCESS", "FAILURE"} : TrialExecute(c, i, outcome)
  BY DEF Execute, ManuallyExecute
<1>3. Tried(c, i, outcome)
  BY <1>2 DEF TrialExecute, Tried
<1>4. /\ d \in Chains /\ d # c /\ Other(d) = c /\ Pool \in Accounts
      /\ \A e \in Chains : e = c \/ e = d
  BY TwoChains, Addresses
<1>5. /\ Burnt(c)' = Burnt(c)
      /\ Underway(c)' = Underway(c) - (IF outcome = "SUCCESS" THEN m.burnt ELSE 0)
      /\ Arrived(c)' = Arrived(c) + (IF outcome = "SUCCESS" THEN m.amount ELSE 0)
      /\ ArrivedAtPool(c)' = ArrivedAtPool(c)
            + (IF outcome = "SUCCESS" /\ m.receiver = Pool THEN m.amount ELSE 0)
      /\ Burnt(d)' = Burnt(d) /\ Underway(d)' = Underway(d)
      /\ Arrived(d)' = Arrived(d) /\ ArrivedAtPool(d)' = ArrivedAtPool(d)
  BY <1>1, <1>3, <1>4, AttemptMovesSums
<1>6. \A e \in Chains : /\ Burnt(e) \in Nat /\ Arrived(e) \in Nat
                        /\ ArrivedAtPool(e) \in Nat /\ Underway(e) \in Nat
  BY LedgerTypes
<1>7. CASE outcome = "FAILURE"
  <2>1. token' = token
    BY <1>2, <1>7 DEF TrialExecute
  <2>2. \A e \in Chains : /\ Burnt(e)' = Burnt(e) /\ Underway(e)' = Underway(e)
                          /\ Arrived(e)' = Arrived(e) /\ ArrivedAtPool(e)' = ArrivedAtPool(e)
    <3> HIDE DEF d, m
    <3> QED BY <1>4, <1>5, <1>6, <1>7
  <2> QED BY <1>1, <1>4, <2>1, <2>2, TwoChains DEF LedgerInv, Conserved, SupplyConserved, PoolLedger,
             WorthInv, Worth, HomeInv
<1>8. CASE outcome = "SUCCESS"
  <2>1. /\ CanReleaseOrMint(d, m) /\ token' = [token EXCEPT ![d] = new]
    BY <1>2, <1>8 DEF TrialExecute
  <2>2. /\ new.totalSupply = tok.totalSupply + m.amount
        /\ \A v \in Accounts :
              new.sUserToAmountMinted[v]
                 = tok.sUserToAmountMinted[v] + (IF v = m.receiver THEN m.amount ELSE 0)
        /\ SameSettings(tok, new)
        /\ Worth(new) \in Int /\ Worth(new) <= Worth(tok) + m.burnt
    BY <1>1, <2>1, ReleaseWorth
  <2>3. /\ m.amount \in Nat /\ m.burnt \in Nat
        /\ tok.totalSupply \in Nat /\ Worth(tok) \in Nat
        /\ \A v \in Accounts : tok.sUserToAmountMinted[v] \in Nat
    <3>1. m \in Message
      BY <1>1 DEF MessagesInv
    <3> HIDE DEF m, d
    <3> QED BY <1>4, <3>1, LedgerTypes, TokenAssumption DEF Message, UInt
  <2> DEFINE pool == IF m.receiver = Pool THEN m.amount ELSE 0
             out == 0
             in == m.amount
             tried == -m.burnt
  <2>4. \A v \in Users : /\ new.sUserToAmountMinted[v] \in Int
                         /\ tok.sUserToAmountMinted[v] <= new.sUserToAmountMinted[v]
    <3> HIDE DEF new, tok, m
    <3> QED BY <2>2, <2>3, Addresses
  <2>5. /\ out \in Int /\ in \in Int /\ pool \in Int /\ tried \in Int
        /\ Burnt(d)' = Burnt(d) + out /\ Burnt(c)' = Burnt(c)
        /\ Arrived(c)' = Arrived(c) + in /\ Arrived(d)' = Arrived(d)
        /\ ArrivedAtPool(c)' = ArrivedAtPool(c) + pool
        /\ ArrivedAtPool(d)' = ArrivedAtPool(d)
        /\ Underway(d)' + Underway(c)' = Underway(d) + Underway(c) + tried
        /\ Underway(d)' \in Int /\ Underway(c)' \in Int
        /\ new.totalSupply = tok.totalSupply - out + in
        /\ new.sUserToAmountMinted[Pool] = tok.sUserToAmountMinted[Pool] - out + pool
        /\ Worth(new) \in Int /\ Worth(new) <= Worth(tok) - tried
    <3> HIDE DEF new, tok, m, d
    <3> QED BY <1>4, <1>5, <1>6, <1>8, <2>2, <2>3
  <2>6. Conserved'
    <3> HIDE DEF new, m, pool, out, in, tried
    <3>1. Other(d) = c
      BY <1>4
    <3> HIDE DEF d
    <3> QED BY <1>1, <1>4, <2>1, <2>5, <3>1, BridgeStep DEF LedgerInv, tok
  <2>7. HomeInv'
    <3>1. new.sUserToLastUpdatedTimeStamp = tok.sUserToLastUpdatedTimeStamp
          /\ tok.minters \subseteq new.minters
      BY <2>2 DEF SameSettings
    <3> HIDE DEF new, m, d
    <3> QED BY <1>1, <1>4, <2>1, <2>4, <3>1, HomeKept DEF LedgerInv, tok
  <2> QED BY <2>6, <2>7 DEF LedgerInv
<1> QED BY <1>7, <1>8

LEMMA InitLedgerInv == Init => LedgerInv
<1> SUFFICES ASSUME Init PROVE LedgerInv
  OBVIOUS
<1>1. \A c \in Chains :
         /\ token[c].totalSupply = 0 /\ issued[c] = 0
         /\ \A u \in Accounts : /\ token[c].balances[u] = 0
                                /\ token[c].sUserToAmountMinted[u] = 0
                                /\ token[c].sUserToLastUpdatedTimeStamp[u] = 0
  BY DEF Init, Deployed
<1>2. /\ Home \in Chains /\ Remote \in Chains /\ Pool \in Accounts
      /\ \A c \in Chains : Other(c) \in Chains
      /\ \A u \in Users : u \in Accounts
      /\ Funds \in Nat
  BY Addresses, TwoChains, CrossChainAssumption, TokenAssumption DEF Chains, UInt
<1>3. \A c \in Chains : /\ Burnt(c) = 0 /\ Arrived(c) = 0
                        /\ ArrivedAtPool(c) = 0 /\ Underway(c) = 0
  <2>1. \A c \in Chains : DOMAIN sent[c] = {}
    BY DEF Init
  <2> QED BY <2>1, TotalOfZeros DEF Burnt, Arrived, ArrivedAtPool, Underway
<1>4. Total(sUserToAmountDeposited) = 0 /\ \A u \in Accounts : sUserToAmountDeposited[u] = 0
  BY TotalOfEmpty DEF Init, Zero
<1>5. Worth(token[Home]) = 0 /\ Worth(token[Remote]) = 0
  BY <1>1, <1>2 DEF Worth
<1>6. VaultAddress \in token[Home].minters
  BY <1>2 DEF Init, Deployed
<1> QED
  BY <1>1, <1>2, <1>3, <1>4, <1>5, <1>6
     DEF LedgerInv, Conserved, SupplyConserved, PoolLedger, WorthInv, HomeInv

LEMMA NextLedgerInv ==
  ASSUME CrossChainInv, ArrivalsInv, LedgerInv, [Next]_vars
  PROVE  LedgerInv'
<1>1. ASSUME NEW u \in Users, NEW n \in Amounts, Deposit(u, n) PROVE LedgerInv'
  BY <1>1, DepositKeepsLedgers
<1>2. ASSUME NEW u \in Users, NEW n \in Amounts, Redeem(u, n) PROVE LedgerInv'
  BY <1>2, RedeemKeepsLedgers
<1>3. ASSUME NEW u \in Users, NEW n \in Amounts, NEW c \in Chains, NEW to \in Holders,
             Transfer(c, u, to, n)
      PROVE  LedgerInv'
  BY <1>3, TransferKeepsLedgers
<1>4. ASSUME NEW c \in Chains, NEW u \in Senders, NEW to \in Users \cup {Pool},
             NEW n \in Amounts, NEW fee \in Fees, CcipSend(c, u, to, n, fee)
      PROVE  LedgerInv'
  BY <1>4, SendKeepsLedgers
<1>5. ASSUME NEW c \in Chains, NEW n \in Issues, OwnerMintsToPool(c, n)
      PROVE  LedgerInv'
  BY <1>5, IssueKeepsLedgers
<1>6. ASSUME NEW c \in Chains, NEW i \in 1..MaxMessages[c],
             Execute(c, i) \/ ManuallyExecute(c, i)
      PROVE  LedgerInv'
  BY <1>6, ExecuteKeepsLedgers
<1>7. ASSUME NEW r \in Rates, SetInterestRete(r) PROVE LedgerInv'
  BY <1>7, RateCutKeepsLedgers
<1>8. CASE UNCHANGED <<token, sUserToAmountDeposited, sent, issued>>
  BY <1>8 DEF LedgerInv, Conserved, SupplyConserved, PoolLedger, WorthInv, HomeInv,
              Burnt, Arrived, ArrivedAtPool, Underway, Worth
<1> QED
  BY <1>1, <1>2, <1>3, <1>4, <1>5, <1>6, <1>7, <1>8 DEF Next, vars, Tick, Bridge

LEMMA InitArrivalsInv == Init => ArrivalsInv
BY DEF Init, ArrivalsInv

LEMMA LedgerInvHolds == Spec => [](ArrivalsInv /\ LedgerInv)
<1>1. CrossChainInv /\ (ArrivalsInv /\ LedgerInv) /\ [Next]_vars => (ArrivalsInv /\ LedgerInv)'
  BY NextArrivalsInv, NextLedgerInv
<1> QED BY <1>1, InitArrivalsInv, InitLedgerInv, CrossChainInvHolds, PTL DEF Spec

\* Over both chains and everything under way no token appears or vanishes
\* (mint, burn, lockOrBurn and releaseOrMint, retries included).
THEOREM TokensAreConserved == Spec => []SupplyConserved
BY LedgerInvHolds, PTL DEF LedgerInv, Conserved

\* What lockOrBurn burns was minted straight to the pool before, by the owner or
\* for a message to the pool.
THEOREM PoolsBurnTheirOwn == Spec => []PoolLedger
BY LedgerInvHolds, PTL DEF LedgerInv, Conserved

-----------------------------------------------------------------------------
(* Redeeming. *)

\* The owner mints no more than the bound, over both chains.
IssuedInv == issued[Home] + issued[Remote] <= MaxIssued

LEMMA IssuedInvHolds == Spec => []IssuedInv
<1>1. Init => IssuedInv
  BY CrossChainAssumption DEF Init, IssuedInv, Chains
<1>2. ASSUME CrossChainInv, IssuedInv, [Next]_vars PROVE IssuedInv'
  <2>1. ASSUME NEW c \in Chains, NEW n \in Issues, OwnerMintsToPool(c, n)
        PROVE  IssuedInv'
    <3>1. /\ issued[Home] \in Int /\ issued[Remote] \in Int /\ n \in Int
          /\ Home \in Chains /\ Remote \in Chains /\ Home # Remote
          /\ c = Home \/ c = Remote
      BY <1>2, CrossChainAssumption, Addresses, TokenAssumption DEF CrossChainInv, Chains, UInt
    <3>2. issued' = [issued EXCEPT ![c] = issued[c] + n] /\ issued \in [Chains -> 0..MaxIssued]
      BY <1>2, <2>1 DEF OwnerMintsToPool, CrossChainInv
    <3>3. issued'[Home] + issued'[Remote] = issued[Home] + issued[Remote] + n
      BY <3>1, <3>2
    <3> QED BY <2>1, <3>3 DEF OwnerMintsToPool, IssuedInv
  <2>2. CASE issued' = issued
    BY <1>2, <2>2 DEF IssuedInv
  <2>3. ASSUME NEW u \in Users, NEW n \in Amounts, Deposit(u, n) \/ Redeem(u, n)
        PROVE  issued' = issued
    BY <2>3 DEF Deposit, Redeem
  <2>4. ASSUME NEW u \in Users, NEW n \in Amounts, NEW c \in Chains, NEW to \in Holders,
               Transfer(c, u, to, n)
        PROVE  issued' = issued
    BY <2>4 DEF Transfer
  <2>5. ASSUME NEW c \in Chains, NEW u \in Senders, NEW to \in Users \cup {Pool},
               NEW n \in Amounts, NEW fee \in Fees, CcipSend(c, u, to, n, fee)
        PROVE  issued' = issued
    BY <2>5 DEF CcipSend, SendMessage
  <2>6. ASSUME NEW c \in Chains, NEW i \in 1..MaxMessages[c],
               Execute(c, i) \/ ManuallyExecute(c, i)
        PROVE  issued' = issued
    BY <2>6 DEF Execute, ManuallyExecute
  <2>7. ASSUME NEW r \in Rates, SetInterestRete(r) PROVE issued' = issued
    BY <2>7 DEF SetInterestRete
  <2>8. CASE Tick \/ UNCHANGED vars
    BY <2>2, <2>8 DEF Tick, vars
  <2> QED BY <1>2, <2>1, <2>2, <2>3, <2>4, <2>5, <2>6, <2>7, <2>8 DEF Next
<1> QED BY <1>1, <1>2, CrossChainInvHolds, PTL DEF Spec

\* No user of the home chain holds more than was ever deposited and issued.
LEMMA UserBalanceBound ==
  ASSUME CrossChainInv, LedgerInv, IssuedInv, NEW u \in Users
  PROVE  token[Home].balances[u] <= Funds + MaxIssued
<1> DEFINE tok == token[Home]
<1>1. /\ u \in Accounts /\ Pool \in Accounts /\ u # Pool
      /\ Home \in Chains /\ Remote \in Chains /\ Other(Home) = Remote
  BY Addresses, TwoChains DEF Chains
<1>2. /\ WellFormed(tok) /\ tok.balances \in Ledger /\ Total(tok.balances) = tok.totalSupply
      /\ \A v \in Accounts : tok.balances[v] \in Nat /\ tok.balances[v] <= tok.totalSupply
      /\ tok.totalSupply \in Nat
      /\ \A c \in Chains : Worth(token[c]) \in Nat /\ Underway(c) \in Nat /\ issued[c] \in Nat
      /\ Total(sUserToAmountDeposited) \in Nat
  BY <1>1, LedgerTypes, StorageTypes DEF WellFormed
<1>3. tok.balances[u] + tok.balances[Pool] <= tok.totalSupply
  BY <1>1, <1>2, EntriesAtMostTotal
<1>4. tok.balances[u] <= Worth(tok)
  BY <1>1, <1>2, <1>3 DEF Worth
<1>5. Worth(tok) <= Total(sUserToAmountDeposited) + issued[Home] + issued[Remote]
  BY <1>1, <1>2 DEF LedgerInv, Conserved, WorthInv
<1>6. issued[Home] + issued[Remote] <= MaxIssued
  BY DEF IssuedInv
<1>7. Total(sUserToAmountDeposited) <= Funds /\ Funds \in Nat /\ MaxIssued \in Nat
  BY CrossChainAssumption, TokenAssumption DEF LedgerInv, HomeInv, UInt
<1> QED BY <1>1, <1>2, <1>4, <1>5, <1>6, <1>7

\* A deposit that fits the principal can be redeemed: the interest it is read
\* with does not overflow.
LEMMA DepositCanBeRedeemed ==
  ASSUME CrossChainInv, LedgerInv, IssuedInv, NEW u \in Users, NEW n \in 1..Funds,
         n <= sUserToAmountDeposited[u], n <= token[Home].balances[u]
  PROVE  CanRedeem(token[Home], sUserToAmountDeposited, now, u, n)
<1> DEFINE tok == token[Home]
           b == tok.balances[u]
           r == tok.sUserToInterestRate[u]
           g == CalculateAccumulateInterest(tok, now, u)
           most == PRECISION_FACTOR + INITIAL_RATE * MaxTime
<1>1. /\ u \in Accounts /\ Home \in Chains /\ tok \in TokenStorage
      /\ b \in Nat /\ tok.sUserToAmountMinted[u] \in Nat /\ sUserToAmountDeposited[u] \in Nat
      /\ now \in Nat /\ now <= MaxTime /\ n \in Nat /\ Funds \in Nat /\ MaxIssued \in Nat
      /\ MaxTime \in Nat /\ INITIAL_RATE \in Nat /\ PRECISION_FACTOR \in Nat /\ MaxUint \in Nat
  BY Addresses, LedgerTypes, CrossChainAssumption, TokenAssumption
     DEF Chains, CrossChainInv, UInt
<1>2. r \in Nat /\ r <= INITIAL_RATE
  <2>1. r \in UInt /\ r \in Offered(token) /\ tok.sInterestRate \in Nat
    BY <1>1, StorageTypes, TokenAssumption
       DEF CrossChainInv, TokensInv, RatesOffered, TokenStorage, UInt
  <2> QED BY <1>1, <2>1, TokenAssumption DEF Offered, UInt
<1>3. tok.sUserToLastUpdatedTimeStamp[u] = 0
  BY <1>1 DEF LedgerInv, HomeInv
<1>4. g = PRECISION_FACTOR + r * now
  BY <1>1, <1>3 DEF CalculateAccumulateInterest
<1>5. b <= Funds + MaxIssued
  BY UserBalanceBound
<1> HIDE DEF b, r, g, most, tok
<1>6. r * now <= INITIAL_RATE * MaxTime /\ r * now \in Nat /\ INITIAL_RATE * MaxTime \in Nat
  BY <1>1, <1>2, ProductMonotone
<1>7. g \in Nat /\ most \in Nat /\ g <= most
  BY <1>1, <1>4, <1>6 DEF most
<1>8. Funds + MaxIssued \in Nat /\ 1 <= Funds + MaxIssued /\ 1 \in Nat
  BY <1>1
<1>9. (Funds + MaxIssued) * most <= MaxUint
  BY SupplyAssumption DEF most
<1>10. /\ b * g <= (Funds + MaxIssued) * most /\ 1 * g <= (Funds + MaxIssued) * most
       /\ b * g \in Nat /\ 1 * g \in Nat /\ (Funds + MaxIssued) * most \in Nat
  BY <1>1, <1>5, <1>7, <1>8, ProductMonotone
<1>11. b * g <= MaxUint /\ g <= MaxUint
  <2>1. 1 * g = g
    BY <1>7
  <2> QED BY <1>1, <1>7, <1>9, <1>10, <2>1
<1>12. CanReadBalance(tok, now, u)
  BY <1>1, <1>3, <1>11 DEF CanReadBalance, b, g
<1>13. CanMintAccuredInterest(tok, now, u)
  BY <1>1, <1>12, BalanceAtLeastPrincipal DEF CanMintAccuredInterest
<1>14. Resolve(tok, now, u, n) = n
  BY <1>1, SupplyAssumption DEF Resolve
<1>15. VaultAddress \in tok.minters /\ n <= tok.sUserToAmountMinted[u]
  <2>1. sUserToAmountDeposited[u] <= tok.sUserToAmountMinted[u]
    BY DEF LedgerInv, HomeInv, tok
  <2> QED BY <1>1, <2>1 DEF LedgerInv, HomeInv, tok
<1>16. CanBurn(tok, now, VaultAddress, u, n)
  BY <1>1, <1>13, <1>14, <1>15 DEF CanBurn, b, tok
<1> QED BY <1>1, <1>16 DEF CanRedeem, tok

\* Bridging never takes what redeem needs: on the home chain a user with a
\* deposit and the principal for it can redeem (redeem, burn, balanceOf).
THEOREM BridgeNeverBlocksRedeem == Spec => []RedeemNeverStuck
<1>1. CrossChainInv /\ LedgerInv /\ IssuedInv => RedeemNeverStuck
  BY DepositCanBeRedeemed DEF RedeemNeverStuck
<1> QED BY <1>1, CrossChainInvHolds, LedgerInvHolds, IssuedInvHolds, PTL

-----------------------------------------------------------------------------
(* What balanceOf shows of a user. *)

BalanceKept(c, u) ==
    BalanceOf(token'[c], now', u) < BalanceOf(token[c], now, u) =>
       token'[c].balances[u] < token[c].balances[u]

\* A rate that does not fall lets the balance fall only with the principal.
LEMMA RateKeepsBalance ==
  ASSUME CrossChainInv, CrossChainInv', LedgerInv, LedgerInv', now <= now',
         NEW c \in Chains, NEW u \in Users,
         token[c].sUserToInterestRate[u] <= token'[c].sUserToInterestRate[u]
  PROVE  BalanceKept(c, u)
<1> DEFINE tok == token[c]
           new == token'[c]
           later == now'
<1>1. u \in Accounts
  BY Addresses
<1>2. /\ tok \in TokenStorage /\ new \in TokenStorage /\ now \in Nat /\ later \in Nat
      /\ tok.balances[u] \in Nat /\ new.balances[u] \in Nat
  <2>1. tok \in TokenStorage /\ now \in Nat
    BY CrossChainAssumption DEF CrossChainInv, TokensInv
  <2>2. new \in TokenStorage /\ later \in Nat
    BY CrossChainAssumption DEF CrossChainInv, TokensInv
  <2> HIDE DEF tok, new, later
  <2> QED BY <1>1, <2>1, <2>2, StorageTypes, TokenAssumption DEF UInt
<1>3. /\ tok.sUserToLastUpdatedTimeStamp[u] = 0
      /\ new.sUserToLastUpdatedTimeStamp[u] = 0
  BY <1>1 DEF LedgerInv, HomeInv
<1>4. now <= later /\ tok.sUserToInterestRate[u] <= new.sUserToInterestRate[u]
  OBVIOUS
<1> HIDE DEF tok, new, later
<1>5. tok.balances[u] <= new.balances[u] =>
         /\ BalanceOf(tok, now, u) \in Nat /\ BalanceOf(new, later, u) \in Nat
         /\ BalanceOf(tok, now, u) <= BalanceOf(new, later, u)
  BY <1>1, <1>2, <1>3, <1>4, BalanceMonotone
<1>6. BalanceOf(new, later, u) < BalanceOf(tok, now, u) => new.balances[u] < tok.balances[u]
  BY <1>2, <1>5
<1> QED BY <1>6 DEF BalanceKept, tok, new, later

\* An arriving message may lower the receiver's rate; that the balance grows
\* by what is minted all the same is what the off-ramp checks.
LEMMA ExecuteKeepsBalance ==
  ASSUME CrossChainInv, CrossChainInv', ArrivalsInv, LedgerInv, LedgerInv',
         NEW c \in Chains, NEW i, Execute(c, i) \/ ManuallyExecute(c, i),
         NEW e \in Chains, NEW u \in Users
  PROVE  BalanceKept(e, u)
<1> DEFINE m == sent[c][i]
           d == Other(c)
           tok == token[d]
           new == Released(d, m)
<1>1. i \in DOMAIN sent[c] /\ now' = now /\ d \in Chains /\ u \in Accounts /\ u # Pool
      /\ now \in Nat
  BY TwoChains, Addresses, CrossChainAssumption DEF Execute, ManuallyExecute, CrossChainInv
<1>2. PICK outcome \in {"SUCCESS", "FAILURE"} : TrialExecute(c, i, outcome)
  BY DEF Execute, ManuallyExecute
<1>3. \A f \in Chains : token[f].sUserToInterestRate[u] \in Int /\ tok \in TokenStorage
  <2>1. \A f \in Chains : token[f] \in TokenStorage
    BY LedgerTypes
  <2> QED BY <1>1, <2>1, StorageTypes, TokenAssumption DEF UInt
<1>4. CASE token'[e].sUserToInterestRate[u] = token[e].sUserToInterestRate[u]
  <2>1. now <= now' /\ token[e].sUserToInterestRate[u] <= token'[e].sUserToInterestRate[u]
    BY <1>1, <1>3, <1>4
  <2> QED BY <2>1, RateKeepsBalance
<1>5. CASE outcome = "SUCCESS" /\ e = d /\ u = m.receiver
  <2>1. CanReleaseOrMint(d, m) /\ token' = [token EXCEPT ![d] = new]
    BY <1>2, <1>5 DEF TrialExecute
  <2>2. BalanceOf(new, now, u) = BalanceOf(tok, now, u) + m.amount
    BY <1>1, <1>5, <2>1 DEF CanReleaseOrMint, BalancesMatch
  <2>3. m.amount \in Nat
    <3>1. sent \in [Chains -> Seq(Message)]
      BY DEF CrossChainInv, MessagesInv
    <3>2. m \in Message
      BY <1>1, <3>1
    <3> QED BY <3>2, TokenAssumption DEF Message, UInt
  <2>4. BalanceOf(tok, now, u) \in Nat
    <3>1. CanReadBalance(tok, now, u)
      BY <1>1, <1>5, <2>1 DEF CanReleaseOrMint, BalancesMatch
    <3> HIDE DEF tok
    <3> QED BY <1>1, <1>3, <3>1, BalanceOfIsNat
  <2>5. token'[e] = new /\ token[e] = tok
    BY <1>1, <1>5, <2>1 DEF CrossChainInv, TokensInv
  <2> HIDE DEF m, d, tok, new
  <2> QED BY <1>1, <2>2, <2>3, <2>4, <2>5 DEF BalanceKept
<1>6. outcome = "SUCCESS" /\ e = d /\ u # m.receiver =>
         token'[e].sUserToInterestRate[u] = token[e].sUserToInterestRate[u]
  <2> SUFFICES ASSUME outcome = "SUCCESS", e = d, u # m.receiver
               PROVE  token'[e].sUserToInterestRate[u] = token[e].sUserToInterestRate[u]
    OBVIOUS
  <2>1. CanReleaseOrMint(d, m) /\ token' = [token EXCEPT ![d] = new]
    BY <1>2 DEF TrialExecute
  <2>2. new.sUserToInterestRate[u] = tok.sUserToInterestRate[u]
    BY <1>1, <2>1, ReleaseWorth
  <2>3. token'[e] = new
    BY <1>1, <2>1 DEF CrossChainInv, TokensInv
  <2> QED BY <2>2, <2>3
<1>7. outcome # "SUCCESS" \/ e # d => token'[e] = token[e]
  <2>1. outcome # "SUCCESS" => token' = token
    BY <1>2 DEF TrialExecute
  <2>2. outcome = "SUCCESS" => token' = [token EXCEPT ![d] = new]
    BY <1>2 DEF TrialExecute
  <2> HIDE DEF d, new
  <2> QED BY <2>1, <2>2 DEF CrossChainInv, TokensInv
<1> QED BY <1>4, <1>5, <1>6, <1>7

\* Every other step leaves the rates of users, or gives one to a user without.
LEMMA OtherStepsKeepRates ==
  ASSUME CrossChainInv, [Next]_vars, NEW e \in Chains, NEW v \in Users,
         ~ \E c \in Chains : \E i \in 1..MaxMessages[c] : Execute(c, i) \/ ManuallyExecute(c, i)
  PROVE  now <= now' /\ token[e].sUserToInterestRate[v] <= token'[e].sUserToInterestRate[v]
<1>1. /\ v \in Accounts /\ v # Pool /\ now \in Nat /\ Home \in Chains
      /\ \A c \in Chains : token[c] \in TokenStorage /\ WellFormed(token[c])
      /\ token[e].sUserToInterestRate[v] \in Nat
  <2>1. \A c \in Chains : token[c] \in TokenStorage /\ WellFormed(token[c])
    BY LedgerTypes
  <2> QED BY <2>1, Addresses, StorageTypes, TokenAssumption, CrossChainAssumption
          DEF CrossChainInv, UInt, Chains
<1>2. ASSUME NEW c \in Chains, NEW new, token' = [token EXCEPT ![c] = new], now' = now,
             c = e => token[c].sUserToInterestRate[v] <= new.sUserToInterestRate[v]
      PROVE  now <= now' /\ token[e].sUserToInterestRate[v] <= token'[e].sUserToInterestRate[v]
  <2>1. token'[e] = IF c = e THEN new ELSE token[e]
    BY <1>2 DEF CrossChainInv, TokensInv
  <2> QED BY <1>1, <1>2, <2>1
<1>3. ASSUME NEW u \in Users, NEW n \in Amounts, Deposit(u, n)
      PROVE  now <= now' /\ token[e].sUserToInterestRate[v] <= token'[e].sUserToInterestRate[v]
  <2> DEFINE tok == token[Home]
             rate == DepositRate(tok, u)
             new == AfterMint(tok, u, n, rate)
  <2>1. token' = [token EXCEPT ![Home] = new] /\ now' = now
    BY <1>3 DEF Deposit, AfterDeposit
  <2>2. tok.sUserToInterestRate[v] \in Nat /\ rate \in Nat
        /\ (u = v => tok.sUserToInterestRate[v] <= rate)
    <3>1. tok.sUserToInterestRate[v] \in UInt /\ tok.sUserToInterestRate[u] \in UInt
          /\ tok.sInterestRate \in UInt
      BY <1>1, Addresses, StorageTypes DEF TokenStorage
    <3> QED BY <3>1, TokenAssumption DEF DepositRate, UInt
  <2>3. new.sUserToInterestRate[v] = IF v = u THEN rate ELSE tok.sUserToInterestRate[v]
    <3>1. new.sUserToInterestRate = [tok.sUserToInterestRate EXCEPT ![u] = rate]
      BY <1>1, Addresses, MintRates
    <3> QED BY <1>1, <3>1 DEF TokenStorage
  <2>4. tok.sUserToInterestRate[v] <= new.sUserToInterestRate[v]
    BY <2>2, <2>3
  <2> HIDE DEF new
  <2> QED BY <1>1, <1>2, <2>1, <2>4
<1>4. ASSUME NEW u \in Users, NEW n \in Amounts, Redeem(u, n)
      PROVE  now <= now' /\ token[e].sUserToInterestRate[v] <= token'[e].sUserToInterestRate[v]
  <2> DEFINE new == AfterBurn(token[Home], now, u, n)
  <2>1. token' = [token EXCEPT ![Home] = new] /\ now' = now
    BY <1>4 DEF Redeem, AfterRedeem
  <2>2. new.sUserToInterestRate = token[Home].sUserToInterestRate
    BY <1>1, Addresses, BurnRates
  <2> HIDE DEF new
  <2> QED BY <1>1, <1>2, <2>1, <2>2
<1>5. ASSUME NEW c \in Chains, NEW u \in Users, NEW to \in Holders, NEW n \in Amounts,
             Transfer(c, u, to, n)
      PROVE  now <= now' /\ token[e].sUserToInterestRate[v] <= token'[e].sUserToInterestRate[v]
  <2> DEFINE new == AfterTransfer(token[c], now, u, to, n)
  <2>1. token' = [token EXCEPT ![c] = new] /\ now' = now
    BY <1>5 DEF Transfer
  <2>2. new.sUserToInterestRate = token[c].sUserToInterestRate
    BY <1>1, Addresses, TransferRates
  <2> HIDE DEF new
  <2> QED BY <1>1, <1>2, <2>1, <2>2
<1>6. ASSUME NEW c \in Chains, NEW u \in Senders, NEW to \in Users \cup {Pool},
             NEW n \in Amounts, NEW fee \in Fees, CcipSend(c, u, to, n, fee)
      PROVE  now <= now' /\ token[e].sUserToInterestRate[v] <= token'[e].sUserToInterestRate[v]
  <2> DEFINE new == AfterBurn(AtPool(c, u, n), now, Pool, n)
  <2>1. token' = [token EXCEPT ![c] = new] /\ now' = now /\ CanCcipSend(c, u, n, fee)
    BY <1>6 DEF CcipSend, SendMessage
  <2>2. new.sUserToInterestRate = token[c].sUserToInterestRate
    BY <1>1, <2>1, Addresses, SendKeepsToken DEF CrossChainInv
  <2> HIDE DEF new
  <2> QED BY <1>1, <1>2, <2>1, <2>2
<1>7. ASSUME NEW c \in Chains, NEW n \in Issues, OwnerMintsToPool(c, n)
      PROVE  now <= now' /\ token[e].sUserToInterestRate[v] <= token'[e].sUserToInterestRate[v]
  <2> DEFINE granted == AfterGrantRole(token[c], "BURN_MINTER_ROLE", Deployer)
             new == AfterMint(granted, Pool, n, 0)
  <2>1. token' = [token EXCEPT ![c] = new] /\ now' = now
    BY <1>7 DEF OwnerMintsToPool
  <2>2. granted \in TokenStorage /\ granted.sUserToInterestRate = token[c].sUserToInterestRate
    <3>1. token[c] \in TokenStorage /\ Deployer \in Accounts
      BY <1>1, Addresses
    <3> QED BY <3>1 DEF AfterGrantRole, TokenStorage
  <2> HIDE DEF granted
  <2>3. new.sUserToInterestRate = [granted.sUserToInterestRate EXCEPT ![Pool] = 0]
    BY <1>1, <2>2, Addresses, MintRates
  <2>4. new.sUserToInterestRate[v] = token[c].sUserToInterestRate[v]
    <3>1. granted.sUserToInterestRate \in [Accounts -> UInt]
      BY <2>2 DEF TokenStorage
    <3> HIDE DEF new
    <3> QED BY <1>1, <2>2, <2>3, <3>1
  <2> HIDE DEF new
  <2> QED BY <1>1, <1>2, <2>1, <2>4
<1>8. ASSUME NEW r \in Rates, SetInterestRete(r)
      PROVE  now <= now' /\ token[e].sUserToInterestRate[v] <= token'[e].sUserToInterestRate[v]
  <2> DEFINE new == AfterSetInterestRete(token[Home], r)
  <2>1. token' = [token EXCEPT ![Home] = new] /\ now' = now
    BY <1>8 DEF SetInterestRete
  <2>2. new.sUserToInterestRate = token[Home].sUserToInterestRate
    BY <1>1 DEF AfterSetInterestRete, TokenStorage
  <2> HIDE DEF new
  <2> QED BY <1>1, <1>2, <2>1, <2>2
<1>9. CASE Tick \/ UNCHANGED vars
  BY <1>1, <1>9 DEF Tick, vars
<1> QED BY <1>3, <1>4, <1>5, <1>6, <1>7, <1>8, <1>9 DEF Next

\* No arriving message lowers what balanceOf shows of a user, although it may
\* bring a lower rate (AfterMint, OffRamp's balance check).
THEOREM OnlyPrincipalLowersBalance == Spec => BalanceFallsOnlyWithPrincipal
<1> DEFINE Inv == CrossChainInv /\ ArrivalsInv /\ LedgerInv
<1>1. ASSUME Inv, Inv', [Next]_vars
      PROVE  [\A c \in Chains, u \in Users : BalanceKept(c, u)]_vars
  <2> SUFFICES ASSUME NEW c \in Chains, NEW u \in Users PROVE BalanceKept(c, u)
    OBVIOUS
  <2>1. CASE \E d \in Chains : \E i \in 1..MaxMessages[d] : Execute(d, i) \/ ManuallyExecute(d, i)
    BY <1>1, <2>1, ExecuteKeepsBalance
  <2>2. CASE ~ \E d \in Chains : \E i \in 1..MaxMessages[d] :
                  Execute(d, i) \/ ManuallyExecute(d, i)
    <3>1. now <= now' /\ token[c].sUserToInterestRate[u] <= token'[c].sUserToInterestRate[u]
      BY <1>1, <2>2, OtherStepsKeepRates
    <3> QED BY <1>1, <3>1, RateKeepsBalance
  <2> QED BY <2>1, <2>2
<1>2. Spec => [][Next]_vars
  BY DEF Spec
<1>3. Spec => []Inv
  BY CrossChainInvHolds, LedgerInvHolds, PTL
<1>4. Spec => [][\A c \in Chains, u \in Users : BalanceKept(c, u)]_vars
  BY <1>1, <1>2, <1>3, PTL
<1> QED BY <1>4 DEF BalanceFallsOnlyWithPrincipal, BalanceKept
=============================================================================
