------------------------ MODULE RebaseTokenOpsProofs -------------------------
(***************************************************************************)
(* Every call of the token leaves its storage well formed: words stay      *)
(* words, and both ledgers add up to the total supply.  The two parts      *)
(* need each other: mint adds to a balance and burn subtracts from the     *)
(* supply in unchecked blocks, and only the sums show that neither wraps.  *)
(***************************************************************************)
EXTENDS RebaseTokenOps, FiniteSetTheorems, SequenceTheorems, TLAPS

-----------------------------------------------------------------------------
(* Sums.  Total(f) counts the units of f, so what an update does to the sum *)
(* follows from the cardinality of finite sets, without induction over the  *)
(* accounts or along a sequence.                                            *)

Ledger == [Accounts -> UInt]

Summable(f) == IsFiniteSet(DOMAIN f) /\ f \in [DOMAIN f -> UInt]

\* The units of x alone, and what is left of f without x.
UnitsOf(f, x) == {x} \X (1..f[x])
Without(f, x) == [y \in DOMAIN f \ {x} |-> f[y]]

LEMMA LedgerIsSummable ==
  ASSUME NEW f \in Ledger
  PROVE  Summable(f) /\ DOMAIN f = Accounts
BY TokenAssumption DEF Ledger, Summable

LEMMA SumUnitsFinite ==
  ASSUME NEW f, Summable(f)
  PROVE  IsFiniteSet(Units(f)) /\ Total(f) \in Nat
<1>1. IsFiniteSet(1..MaxUint)
  BY FS_Interval, TokenAssumption
<1>2. IsFiniteSet((DOMAIN f) \X (1..MaxUint))
  BY <1>1, FS_Product DEF Summable
<1>3. Units(f) \in SUBSET ((DOMAIN f) \X (1..MaxUint))
  BY DEF Units
<1>4. IsFiniteSet(Units(f))
  BY <1>2, <1>3, FS_Subset
<1> QED
  BY <1>4, FS_CardinalityType DEF Total

\* There are as many units of x as its entry says.
LEMMA CardinalityUnitsOf ==
  ASSUME NEW f, Summable(f), NEW x \in DOMAIN f
  PROVE  /\ IsFiniteSet(UnitsOf(f, x))
         /\ Cardinality(UnitsOf(f, x)) = f[x]
<1>1. f[x] \in Nat
  BY TokenAssumption DEF Summable, UInt
<1>2. IsFiniteSet(1..f[x]) /\ Cardinality(1..f[x]) = f[x]
  BY <1>1, FS_Interval
<1>3. IsFiniteSet({x}) /\ Cardinality({x}) = 1
  BY FS_Singleton
<1>4. /\ IsFiniteSet({x} \X (1..f[x]))
      /\ Cardinality({x} \X (1..f[x])) = Cardinality({x}) * Cardinality(1..f[x])
  BY <1>2, <1>3, FS_Product
<1>5. 1 * f[x] = f[x]
  BY <1>1
<1> QED
  BY <1>2, <1>3, <1>4, <1>5 DEF UnitsOf

\* A sum is one entry and the rest.
LEMMA TotalWithout ==
  ASSUME NEW f, Summable(f), NEW x \in DOMAIN f
  PROVE  /\ Summable(Without(f, x))
         /\ Total(f) = Total(Without(f, x)) + f[x]
<1> DEFINE g == Without(f, x)
<1>1. DOMAIN g = DOMAIN f \ {x} /\ \A y \in DOMAIN g : g[y] = f[y]
  BY DEF Without
<1>2. Summable(g)
  <2>1. IsFiniteSet(DOMAIN g)
    BY <1>1, FS_RemoveElement DEF Summable
  <2> QED BY <2>1, <1>1 DEF Summable, Without
<1> HIDE DEF g
<1>3. Units(f) = Units(g) \cup UnitsOf(f, x)
  <2> DEFINE S == DOMAIN f
  <2>1. x \in S /\ f[x] \in 0..MaxUint /\ DOMAIN g = S \ {x}
    BY <1>1 DEF Summable, UInt
  <2>2. \A y \in S \ {x} : g[y] = f[y]
    BY <1>1
  <2>3. Units(f) = {z \in S \X (1..MaxUint) : z[2] <= f[z[1]]}
    BY DEF Units
  <2>4. Units(g) = {z \in (S \ {x}) \X (1..MaxUint) : z[2] <= g[z[1]]}
    BY <2>1 DEF Units
  <2> HIDE DEF S
  <2> QED BY <2>1, <2>2, <2>3, <2>4, TokenAssumption DEF UnitsOf
<1>4. Units(g) \cap UnitsOf(f, x) = {}
  <2> SUFFICES ASSUME NEW z \in Units(g), z \in UnitsOf(f, x) PROVE FALSE
    OBVIOUS
  <2>1. z[1] = x
    BY DEF UnitsOf
  <2>2. z[1] \in DOMAIN g
    BY DEF Units
  <2> QED BY <1>1, <2>1, <2>2
<1>5. IsFiniteSet(Units(g)) /\ IsFiniteSet(UnitsOf(f, x))
  BY <1>2, SumUnitsFinite, CardinalityUnitsOf
<1>6. Cardinality(Units(g) \cup UnitsOf(f, x))
        = Cardinality(Units(g)) + Cardinality(UnitsOf(f, x))
            - Cardinality(Units(g) \cap UnitsOf(f, x))
  BY <1>5, FS_Union
<1>7. Cardinality(Units(g) \cap UnitsOf(f, x)) = 0
  BY <1>4, FS_EmptySet
<1>8. Cardinality(Units(g)) \in Nat /\ Cardinality(UnitsOf(f, x)) \in Nat
  BY <1>5, FS_CardinalityType
<1>9. Cardinality(Units(f)) = Cardinality(Units(g)) + Cardinality(UnitsOf(f, x))
  BY <1>3, <1>6, <1>7, <1>8
<1> QED
  BY <1>2, <1>9, CardinalityUnitsOf DEF Total, g

\* Writing one entry changes the sum by the change of the entry.
LEMMA SumExcept ==
  ASSUME NEW f, Summable(f), NEW x \in DOMAIN f, NEW n \in UInt
  PROVE  /\ Total(f) \in Nat
         /\ Total([f EXCEPT ![x] = n]) \in Nat
         /\ Total([f EXCEPT ![x] = n]) = Total(f) - f[x] + n
<1> DEFINE g == [f EXCEPT ![x] = n]
<1>1. DOMAIN g = DOMAIN f /\ g[x] = n /\ Summable(g)
  BY DEF Summable
<1>2. Without(g, x) = Without(f, x)
  BY DEF Without
<1>3. Total(f) = Total(Without(f, x)) + f[x] /\ Total(f) \in Nat
  BY TotalWithout, SumUnitsFinite
<1> HIDE DEF g
<1>4. Total(g) = Total(Without(g, x)) + g[x] /\ Total(g) \in Nat
  BY <1>1, TotalWithout, SumUnitsFinite
<1>5. Total(Without(f, x)) \in Nat
  BY TotalWithout, SumUnitsFinite
<1>6. f[x] \in Int /\ n \in Int
  BY TokenAssumption DEF Summable, UInt
<1>7. Total(g) = Total(f) - f[x] + n
  BY <1>1, <1>2, <1>3, <1>4, <1>5, <1>6
<1> QED
  BY <1>3, <1>4, <1>7 DEF g

\* A word at the end of a sequence adds to its sum.
LEMMA SumAppend ==
  ASSUME NEW s \in Seq(UInt), NEW n \in UInt
  PROVE  Total(Append(s, n)) = Total(s) + n /\ Total(s) \in Nat
<1> DEFINE t == Append(s, n)
           last == Len(s) + 1
<1>1. /\ Len(s) \in Nat /\ DOMAIN s = 1..Len(s) /\ \A i \in DOMAIN s : s[i] \in UInt
      /\ s = [i \in 1..Len(s) |-> s[i]]
  OBVIOUS
<1>2. /\ t \in Seq(UInt) /\ DOMAIN t = 1..last /\ t[last] = n
      /\ \A i \in 1..Len(s) : t[i] = s[i]
  <2>1. t \in Seq(UInt) /\ Len(t) = last /\ t[last] = n
    BY AppendProperties
  <2> QED BY <2>1, AppendProperties
<1> HIDE DEF t
<1>3. IsFiniteSet(1..Len(s)) /\ IsFiniteSet(1..last)
  <2>1. 1 \in Int /\ Len(s) \in Int /\ last \in Int
    BY <1>1
  <2> HIDE DEF last
  <2> QED BY <2>1, FS_Interval
<1>4. Summable(s)
  BY <1>1, <1>3 DEF Summable
<1>5. Summable(t)
  BY <1>2, <1>3 DEF Summable
<1>6. last \in DOMAIN t /\ DOMAIN t \ {last} = 1..Len(s)
  BY <1>1, <1>2
<1>7. Without(t, last) = s
  BY <1>1, <1>2, <1>6 DEF Without
<1> HIDE DEF last
<1>8. Total(t) = Total(Without(t, last)) + t[last]
  BY <1>5, <1>6, TotalWithout
<1> QED
  BY <1>2, <1>4, <1>7, <1>8, SumUnitsFinite DEF t

\* Nothing adds up to nothing.
LEMMA TotalOfZeros ==
  ASSUME NEW f, \A x \in DOMAIN f : f[x] = 0
  PROVE  Total(f) = 0
<1>1. Units(f) = {}
  <2> SUFFICES ASSUME NEW z \in Units(f) PROVE FALSE
    OBVIOUS
  <2>1. z[1] \in DOMAIN f /\ z[2] \in 1..MaxUint /\ z[2] <= f[z[1]]
    BY DEF Units
  <2> QED BY <2>1, TokenAssumption
<1> QED
  BY <1>1, FS_EmptySet DEF Total

LEMMA TotalOfEmpty == Total([u \in Accounts |-> 0]) = 0
BY TotalOfZeros

LEMMA TotalIsNat ==
  ASSUME NEW f \in Ledger
  PROVE  Total(f) \in Nat
BY LedgerIsSummable, SumUnitsFinite

\* The same of a ledger.
LEMMA TotalExcept ==
  ASSUME NEW f \in Ledger, NEW u \in Accounts, NEW n \in UInt
  PROVE  Total([f EXCEPT ![u] = n]) = Total(f) - f[u] + n
BY LedgerIsSummable, SumExcept

LEMMA TotalSplit ==
  ASSUME NEW f \in Ledger, NEW u \in Accounts
  PROVE  Total(f) = Total([f EXCEPT ![u] = 0]) + f[u]
<1>1. 0 \in UInt /\ f[u] \in Int
  BY TokenAssumption DEF Ledger, UInt
<1> QED BY <1>1, TotalExcept, TotalIsNat

\* No entry exceeds the sum, and no two entries together do.
LEMMA EntryAtMostTotal ==
  ASSUME NEW f \in Ledger, NEW u \in Accounts
  PROVE  f[u] <= Total(f)
<1>1. [f EXCEPT ![u] = 0] \in Ledger
  BY TokenAssumption DEF Ledger, UInt
<1>2. Total([f EXCEPT ![u] = 0]) \in Nat
  BY <1>1, TotalIsNat
<1>3. f[u] \in Int
  BY TokenAssumption DEF Ledger, UInt
<1> QED
  BY <1>2, <1>3, TotalSplit

LEMMA EntriesAtMostTotal ==
  ASSUME NEW f \in Ledger, NEW u \in Accounts, NEW v \in Accounts, u # v
  PROVE  f[u] + f[v] <= Total(f)
<1> DEFINE g == [f EXCEPT ![u] = 0]
<1>1. g \in Ledger /\ g[v] = f[v]
  BY TokenAssumption DEF Ledger, UInt
<1>2. f[v] <= Total(g) /\ Total(g) \in Nat
  BY <1>1, EntryAtMostTotal, TotalIsNat
<1>3. f[u] \in Int /\ f[v] \in Int
  BY TokenAssumption DEF Ledger, UInt
<1> QED
  BY <1>2, <1>3, TotalSplit

\* An exact result that fits a word is not wrapped.
LEMMA WrapInRange ==
  ASSUME NEW n \in UInt
  PROVE  Wrap(n) = n
BY TokenAssumption DEF Wrap, UInt

-----------------------------------------------------------------------------
(* The calls. *)

WellFormed(tok) ==
    /\ tok \in TokenStorage
    /\ Total(tok.balances) = tok.totalSupply
    /\ Total(tok.sUserToAmountMinted) = tok.totalSupply

LEMMA StorageTypes ==
  ASSUME NEW tok \in TokenStorage
  PROVE  /\ tok.balances \in Ledger
         /\ tok.sUserToAmountMinted \in Ledger
         /\ tok.totalSupply \in UInt
         /\ tok.allowances \in [Accounts -> Ledger]
         /\ \A u \in Accounts : /\ tok.balances[u] \in UInt
                                /\ tok.sUserToAmountMinted[u] \in UInt
                                /\ tok.sUserToInterestRate[u] \in UInt
                                /\ tok.sUserToLastUpdatedTimeStamp[u] \in UInt
BY DEF TokenStorage, Ledger

\* The storage the constructor leaves.
LEMMA DeployedWellFormed ==
  ASSUME NEW deployer \in Accounts
  PROVE  WellFormed(Deployed(deployer))
<1>1. 0 \in UInt /\ INITIAL_RATE \in UInt
  BY TokenAssumption DEF UInt
<1>2. Deployed(deployer) \in TokenStorage
  BY <1>1 DEF Deployed, TokenStorage
<1> QED
  BY <1>2, TotalOfEmpty DEF WellFormed, Deployed

\* What balanceOf returns is a natural number.
LEMMA BalanceOfIsNat ==
  ASSUME NEW tok \in TokenStorage, NEW t \in Nat, NEW u \in Accounts,
         CanReadBalance(tok, t, u)
  PROVE  BalanceOf(tok, t, u) \in Nat
<1> DEFINE b == tok.balances[u]
           r == tok.sUserToInterestRate[u]
           s == tok.sUserToLastUpdatedTimeStamp[u]
           g == CalculateAccumulateInterest(tok, t, u)
<1>1. b \in Nat /\ r \in Nat /\ s \in Nat
  BY StorageTypes, TokenAssumption DEF UInt
<1>2. t - s \in Nat
  BY <1>1 DEF CanReadBalance
<1>3. PRECISION_FACTOR \in Nat /\ PRECISION_FACTOR > 0
  BY TokenAssumption
<1>4. r * (t - s) \in Nat
  BY <1>1, <1>2
<1>5. g \in Nat
  BY <1>3, <1>4 DEF CalculateAccumulateInterest
<1>6. b * g \in Nat
  BY <1>1, <1>5
<1>7. (b * g) \div PRECISION_FACTOR \in Nat
  BY <1>3, <1>6
<1> QED
  BY <1>7 DEF BalanceOf

LEMMA DivAtLeast ==
  ASSUME NEW q \in Nat, NEW d \in Nat, d > 0, NEW x \in Nat
  PROVE  (q * d + x) \div d >= q
<1> DEFINE n == q * d + x
           k == n \div d
<1>1. n \in Nat
  OBVIOUS
<1> HIDE DEF n
<1>2. k \in Nat /\ n = d * k + (n % d) /\ n % d < d /\ n % d \in Nat
  BY <1>1
<1> HIDE DEF k
<1>3. ASSUME k < q PROVE FALSE
  <2>1. q - k - 1 \in Nat
    BY <1>2, <1>3
  <2>2. (q - k - 1) * d \in Nat
    BY <2>1
  <2>3. (q - k - 1) * d = q * d - d * k - d
    BY <1>2
  <2>4. q * d \in Nat /\ d * k \in Nat
    BY <1>2
  <2>5. q * d + x = d * k + (n % d)
    BY <1>2 DEF n
  <2> QED
    BY <1>2, <2>2, <2>3, <2>4, <2>5
<1>4. k >= q
  BY <1>2, <1>3
<1> QED
  BY <1>4 DEF k, n

LEMMA ProductMonotone ==
  ASSUME NEW a \in Nat, NEW b \in Nat, NEW c \in Nat, NEW d \in Nat, a <= b, c <= d
  PROVE  a * c \in Nat /\ b * d \in Nat /\ a * c <= b * d
<1> DEFINE x == b - a
           y == d - c
<1>1. x \in Nat /\ y \in Nat /\ b = a + x /\ d = c + y
  OBVIOUS
<1> HIDE DEF x, y
<1>2. a * c \in Nat /\ a * y \in Nat /\ x * c \in Nat /\ x * y \in Nat
  BY <1>1
<1>3. (a + x) * (c + y) = a * c + a * y + x * c + x * y
  BY <1>1
<1> QED BY <1>1, <1>2, <1>3

\* Interest is never negative: balanceOf is at least the principal.
LEMMA BalanceAtLeastPrincipal ==
  ASSUME NEW tok \in TokenStorage, NEW t \in Nat, NEW u \in Accounts,
         CanReadBalance(tok, t, u)
  PROVE  BalanceOf(tok, t, u) >= tok.balances[u]
<1> DEFINE b == tok.balances[u]
           r == tok.sUserToInterestRate[u]
           e == t - tok.sUserToLastUpdatedTimeStamp[u]
           g == CalculateAccumulateInterest(tok, t, u)
<1>1. b \in Nat /\ r \in Nat /\ tok.sUserToLastUpdatedTimeStamp[u] \in Nat
  BY StorageTypes, TokenAssumption DEF UInt
<1>2. e \in Nat
  BY <1>1 DEF CanReadBalance
<1>3. PRECISION_FACTOR \in Nat /\ PRECISION_FACTOR > 0
  BY TokenAssumption
<1>4. r * e \in Nat
  BY <1>1, <1>2
<1>5. b * (r * e) \in Nat
  BY <1>1, <1>4
<1>6. b * g = b * PRECISION_FACTOR + b * (r * e)
  BY <1>1, <1>3, <1>4 DEF CalculateAccumulateInterest
<1> HIDE DEF b, g
<1>7. (b * g) \div PRECISION_FACTOR >= b
  BY <1>1, <1>3, <1>5, <1>6, DivAtLeast
<1> QED
  BY <1>7 DEF BalanceOf, b, g

LEMMA DivMonotone ==
  ASSUME NEW m \in Nat, NEW n \in Nat, NEW d \in Nat, d > 0, m <= n
  PROVE  m \div d <= n \div d
<1> DEFINE q == m \div d
           x == n - q * d
<1>1. q \in Nat /\ m = d * q + (m % d) /\ m % d \in Nat
  OBVIOUS
<1> HIDE DEF q
<1>2. q * d \in Nat /\ q * d = d * q
  BY <1>1
<1>3. x \in Nat /\ n = q * d + x
  BY <1>1, <1>2
<1> HIDE DEF x
<1>4. (q * d + x) \div d >= q
  BY <1>1, <1>3, DivAtLeast
<1>5. n \div d >= q /\ n \div d \in Nat
  BY <1>3, <1>4
<1> QED BY <1>1, <1>5 DEF q

\* With no less principal, rate and time, and a clock that was never set,
\* balanceOf shows no less.
LEMMA BalanceMonotone ==
  ASSUME NEW tok \in TokenStorage, NEW new \in TokenStorage, NEW u \in Accounts,
         NEW t \in Nat, NEW later \in Nat, t <= later,
         tok.sUserToLastUpdatedTimeStamp[u] = 0, new.sUserToLastUpdatedTimeStamp[u] = 0,
         tok.balances[u] <= new.balances[u],
         tok.sUserToInterestRate[u] <= new.sUserToInterestRate[u]
  PROVE  /\ BalanceOf(tok, t, u) \in Nat /\ BalanceOf(new, later, u) \in Nat
         /\ BalanceOf(tok, t, u) <= BalanceOf(new, later, u)
<1> DEFINE b == tok.balances[u]
           c == new.balances[u]
           r == tok.sUserToInterestRate[u]
           s == new.sUserToInterestRate[u]
           g == CalculateAccumulateInterest(tok, t, u)
           h == CalculateAccumulateInterest(new, later, u)
<1>1. b \in Nat /\ c \in Nat /\ r \in Nat /\ s \in Nat /\ b <= c /\ r <= s
  BY StorageTypes, TokenAssumption DEF UInt
<1>2. PRECISION_FACTOR \in Nat /\ PRECISION_FACTOR > 0
  BY TokenAssumption
<1>3. g = PRECISION_FACTOR + r * t /\ h = PRECISION_FACTOR + s * later
  BY DEF CalculateAccumulateInterest
<1> HIDE DEF b, c, r, s, g, h
<1>4. r * t \in Nat /\ s * later \in Nat /\ r * t <= s * later
  BY <1>1, ProductMonotone
<1>5. g \in Nat /\ h \in Nat /\ g <= h
  BY <1>2, <1>3, <1>4
<1> DEFINE bg == b * g
           ch == c * h
<1>6. bg \in Nat /\ ch \in Nat /\ bg <= ch
  BY <1>1, <1>5, ProductMonotone
<1>7. BalanceOf(tok, t, u) = bg \div PRECISION_FACTOR
      /\ BalanceOf(new, later, u) = ch \div PRECISION_FACTOR
  BY DEF BalanceOf, b, c, g, h
<1> HIDE DEF bg, ch
<1>8. bg \div PRECISION_FACTOR \in Nat /\ ch \div PRECISION_FACTOR \in Nat
  BY <1>2, <1>6
<1>9. bg \div PRECISION_FACTOR <= ch \div PRECISION_FACTOR
  BY <1>2, <1>6, DivMonotone
<1> QED BY <1>7, <1>8, <1>9

\* What can be read in a later block can be read now.
LEMMA ReadableEarlier ==
  ASSUME NEW tok \in TokenStorage, NEW t \in Nat, NEW u \in Accounts,
         tok.sUserToLastUpdatedTimeStamp[u] <= t,
         CanReadBalance(tok, t + 1, u)
  PROVE  CanReadBalance(tok, t, u)
<1> DEFINE b == tok.balances[u]
           r == tok.sUserToInterestRate[u]
           s == tok.sUserToLastUpdatedTimeStamp[u]
           g == CalculateAccumulateInterest(tok, t, u)
           h == CalculateAccumulateInterest(tok, t + 1, u)
<1>1. b \in Nat /\ r \in Nat /\ s \in Nat /\ t - s \in Nat
  BY StorageTypes, TokenAssumption DEF UInt
<1>2. PRECISION_FACTOR \in Nat /\ MaxUint \in Nat
  BY TokenAssumption
<1>3. r * ((t + 1) - s) = r * (t - s) + r /\ r * (t - s) \in Nat
  <2> DEFINE e == t - s
  <2>1. (t + 1) - s = e + 1
    BY <1>1
  <2> HIDE DEF e, r
  <2>2. e \in Nat /\ r \in Nat
    BY <1>1 DEF e
  <2>3. r * (e + 1) = r * e + r /\ r * e \in Nat
    BY <2>2
  <2> QED
    BY <2>1, <2>3 DEF e
<1>4. h = g + r /\ g \in Nat
  BY <1>1, <1>2, <1>3 DEF CalculateAccumulateInterest
<1> HIDE DEF b, g, h, r
<1>5. b * h = b * g + b * r
  BY <1>1, <1>4
<1>6. b * g \in Nat /\ b * r \in Nat
  BY <1>1, <1>4
<1>7. h <= MaxUint /\ b * h <= MaxUint
  BY DEF CanReadBalance, b, h
<1>8. g <= MaxUint /\ b * g <= MaxUint
  BY <1>1, <1>2, <1>4, <1>5, <1>6, <1>7
<1> QED
  BY <1>8 DEF CanReadBalance, b, g

LEMMA ResolveIsNat ==
  ASSUME NEW tok \in TokenStorage, NEW t \in Nat, NEW u \in Accounts,
         NEW amount \in UInt, CanMintAccuredInterest(tok, t, u)
  PROVE  Resolve(tok, t, u, amount) \in Nat
BY BalanceOfIsNat, TokenAssumption DEF Resolve, CanMintAccuredInterest, UInt

LEMMA MintWellFormed ==
  ASSUME NEW tok, WellFormed(tok), NEW t \in Nat,
         NEW caller, NEW u \in Accounts, NEW amount \in UInt, NEW rate \in UInt,
         CanMint(tok, t, caller, u, amount)
  PROVE  WellFormed(AfterMint(tok, u, amount, rate))
<1> DEFINE new == AfterMint(tok, u, amount, rate)
<1>1. tok \in TokenStorage
  BY DEF WellFormed
<1>2. /\ tok.balances \in Ledger /\ tok.balances[u] \in UInt
      /\ tok.sUserToAmountMinted \in Ledger
      /\ tok.sUserToAmountMinted[u] \in UInt
      /\ tok.totalSupply \in UInt
  BY <1>1, StorageTypes
<1>3. tok.sUserToAmountMinted[u] + amount \in UInt
  BY <1>2, TokenAssumption DEF CanMint, UInt
<1>4. tok.totalSupply + amount \in UInt
  BY <1>2, TokenAssumption DEF CanMint, UInt
<1>5. tok.balances[u] <= tok.totalSupply
  BY <1>2, EntryAtMostTotal DEF WellFormed
<1>6. tok.balances[u] + amount \in UInt
  BY <1>2, <1>4, <1>5, TokenAssumption DEF UInt
<1>7. Wrap(tok.balances[u] + amount) = tok.balances[u] + amount
  BY <1>6, WrapInRange
<1>8. /\ new.balances = [tok.balances EXCEPT ![u] = tok.balances[u] + amount]
      /\ new.sUserToAmountMinted = [tok.sUserToAmountMinted EXCEPT
                                      ![u] = tok.sUserToAmountMinted[u] + amount]
      /\ new.totalSupply = tok.totalSupply + amount
  BY <1>1, <1>7 DEF AfterMint, TokenStorage
<1>9. new \in TokenStorage
  BY <1>1, <1>3, <1>4, <1>6, <1>7 DEF AfterMint, TokenStorage
<1>10. Total(new.balances) = Total(tok.balances) + amount
  BY <1>2, <1>6, <1>8, TotalExcept, TotalIsNat DEF UInt
<1>11. Total(new.sUserToAmountMinted) = Total(tok.sUserToAmountMinted) + amount
  BY <1>2, <1>3, <1>8, TotalExcept, TotalIsNat DEF UInt
<1> QED
  BY <1>8, <1>9, <1>10, <1>11 DEF WellFormed

LEMMA BurnWellFormed ==
  ASSUME NEW tok, WellFormed(tok), NEW t \in Nat,
         NEW caller, NEW u \in Accounts, NEW amount \in UInt,
         CanBurn(tok, t, caller, u, amount)
  PROVE  WellFormed(AfterBurn(tok, t, u, amount))
<1> DEFINE new == AfterBurn(tok, t, u, amount)
           burnt == Resolve(tok, t, u, amount)
<1>1. tok \in TokenStorage
  BY DEF WellFormed
<1>2. /\ tok.balances \in Ledger /\ tok.balances[u] \in UInt
      /\ tok.sUserToAmountMinted \in Ledger
      /\ tok.sUserToAmountMinted[u] \in UInt
      /\ tok.totalSupply \in UInt
  BY <1>1, StorageTypes
<1>3. burnt \in Nat
  BY <1>1, ResolveIsNat DEF CanBurn
<1>4. burnt <= tok.balances[u] /\ burnt <= tok.sUserToAmountMinted[u]
  BY <1>2, <1>3, TokenAssumption DEF CanBurn, UInt
<1> HIDE DEF burnt
<1>5. tok.balances[u] <= tok.totalSupply
  BY <1>2, EntryAtMostTotal DEF WellFormed
<1>6. /\ tok.balances[u] - burnt \in UInt
      /\ tok.sUserToAmountMinted[u] - burnt \in UInt
      /\ tok.totalSupply - burnt \in UInt
  BY <1>2, <1>3, <1>4, <1>5, TokenAssumption DEF UInt
<1>7. Wrap(tok.totalSupply - burnt) = tok.totalSupply - burnt
  BY <1>6, WrapInRange
<1>8. new = [tok EXCEPT !.sUserToAmountMinted[u] = @ - burnt,
                        !.balances[u] = @ - burnt,
                        !.totalSupply = tok.totalSupply - burnt]
  BY <1>1, <1>7 DEF AfterBurn, burnt, TokenStorage
<1>9. /\ new.balances = [tok.balances EXCEPT ![u] = tok.balances[u] - burnt]
      /\ new.sUserToAmountMinted = [tok.sUserToAmountMinted EXCEPT
                                      ![u] = tok.sUserToAmountMinted[u] - burnt]
      /\ new.totalSupply = tok.totalSupply - burnt
  BY <1>1, <1>8 DEF TokenStorage
<1>10. new \in TokenStorage
  <2> DEFINE m == [tok.sUserToAmountMinted EXCEPT
                      ![u] = tok.sUserToAmountMinted[u] - burnt]
             b == [tok.balances EXCEPT ![u] = tok.balances[u] - burnt]
             s == tok.totalSupply - burnt
  <2>1. m \in [Accounts -> UInt] /\ b \in [Accounts -> UInt] /\ s \in UInt
    BY <1>2, <1>6 DEF Ledger
  <2>2. new = [tok EXCEPT !.sUserToAmountMinted = m, !.balances = b,
                          !.totalSupply = s]
    BY <1>1, <1>8 DEF TokenStorage
  <2> HIDE DEF m, b, s, new
  <2> QED
    BY <1>1, <2>1, <2>2 DEF TokenStorage
<1>11. Total(new.balances) = Total(tok.balances) - burnt
  BY <1>2, <1>3, <1>6, <1>9, TotalExcept, TotalIsNat DEF UInt
<1>12. Total(new.sUserToAmountMinted) = Total(tok.sUserToAmountMinted) - burnt
  BY <1>2, <1>3, <1>6, <1>9, TotalExcept, TotalIsNat DEF UInt
<1> QED
  BY <1>9, <1>10, <1>11, <1>12 DEF WellFormed

\* Between two different accounts a transfer moves what the first one has.
LEMMA MoveBalanceWellFormed ==
  ASSUME NEW tok, WellFormed(tok), NEW from \in Accounts, NEW to \in Accounts,
         NEW value \in Nat, value <= tok.balances[from]
  PROVE  WellFormed(MoveBalance(tok, from, to, value))
<1> DEFINE debited == [tok.balances EXCEPT ![from] = tok.balances[from] - value]
           moved == [debited EXCEPT ![to] = Wrap(debited[to] + value)]
<1>1. tok \in TokenStorage
  BY DEF WellFormed
<1>2. /\ tok.balances \in Ledger /\ tok.balances[from] \in UInt
      /\ tok.balances[to] \in UInt /\ tok.totalSupply \in UInt
  BY <1>1, StorageTypes
<1>3. tok.balances[from] - value \in UInt
  BY <1>2, TokenAssumption DEF UInt
<1>4. debited \in Ledger /\ debited[to] \in UInt
  BY <1>2, <1>3 DEF Ledger
<1>5. Total(debited) = Total(tok.balances) - value
  BY <1>2, <1>3, TotalExcept, TotalIsNat DEF UInt
<1>6. debited[to] <= Total(debited)
  BY <1>4, EntryAtMostTotal
<1> HIDE DEF debited
<1>7. Total(tok.balances) = tok.totalSupply
  BY DEF WellFormed
<1>8. debited[to] + value \in UInt
  BY <1>2, <1>4, <1>5, <1>6, <1>7, TokenAssumption DEF UInt
<1>9. Wrap(debited[to] + value) = debited[to] + value
  BY <1>8, WrapInRange
<1>10. moved = [debited EXCEPT ![to] = debited[to] + value]
  BY <1>9
<1>11. moved \in Ledger
  BY <1>4, <1>8, <1>10 DEF Ledger
<1>12. Total(moved) = Total(debited) + value
  BY <1>4, <1>8, <1>10, TotalExcept, TotalIsNat DEF UInt
<1>13. Total(moved) = Total(tok.balances)
  BY <1>2, <1>5, <1>12, TotalIsNat
<1>14. MoveBalance(tok, from, to, value) = [tok EXCEPT !.balances = moved]
  BY <1>2, <1>4 DEF MoveBalance, debited, Ledger
<1> HIDE DEF moved
<1>15. [tok EXCEPT !.balances = moved] \in TokenStorage
  BY <1>1, <1>11 DEF TokenStorage, Ledger
<1>16. /\ [tok EXCEPT !.balances = moved].balances = moved
       /\ [tok EXCEPT !.balances = moved].totalSupply = tok.totalSupply
       /\ [tok EXCEPT !.balances = moved].sUserToAmountMinted
            = tok.sUserToAmountMinted
  BY <1>1 DEF TokenStorage
<1> QED
  BY <1>13, <1>14, <1>15, <1>16 DEF WellFormed

LEMMA TransferWellFormed ==
  ASSUME NEW tok, WellFormed(tok), NEW t \in Nat,
         NEW from \in Accounts, NEW to \in Accounts, NEW amount \in UInt,
         CanTransfer(tok, t, from, to, amount)
  PROVE  WellFormed(AfterTransfer(tok, t, from, to, amount))
<1>1. Resolve(tok, t, from, amount) \in Nat
  BY ResolveIsNat DEF WellFormed, CanTransfer
<1>2. tok.balances[from] \in Nat
  BY StorageTypes, TokenAssumption DEF WellFormed, UInt
<1>3. Resolve(tok, t, from, amount) <= tok.balances[from]
  BY <1>1, <1>2 DEF CanTransfer
<1> QED
  BY <1>1, <1>3, MoveBalanceWellFormed DEF AfterTransfer

\* Changing one allowance to a word keeps the storage well formed.
LEMMA AllowanceWellFormed ==
  ASSUME NEW tok, WellFormed(tok), NEW from \in Accounts,
         NEW spender \in Accounts, NEW n \in UInt
  PROVE  WellFormed([tok EXCEPT !.allowances[from][spender] = n])
<1> DEFINE a == [tok.allowances EXCEPT ![from][spender] = n]
<1>1. tok \in TokenStorage
  BY DEF WellFormed
<1>2. a \in [Accounts -> [Accounts -> UInt]]
  BY <1>1 DEF TokenStorage
<1>3. [tok EXCEPT !.allowances[from][spender] = n] = [tok EXCEPT !.allowances = a]
  BY <1>1 DEF TokenStorage
<1> HIDE DEF a
<1>4. [tok EXCEPT !.allowances = a] \in TokenStorage
  BY <1>1, <1>2 DEF TokenStorage
<1> QED
  BY <1>1, <1>3, <1>4 DEF WellFormed, TokenStorage

LEMMA TransferFromWellFormed ==
  ASSUME NEW tok, WellFormed(tok), NEW t \in Nat, NEW spender \in Accounts,
         NEW from \in Accounts, NEW to \in Accounts, NEW amount \in UInt,
         CanTransferFrom(tok, t, spender, from, to, amount)
  PROVE  WellFormed(AfterTransferFrom(tok, t, spender, from, to, amount))
<1> DEFINE value == Resolve(tok, t, from, amount)
           moved == MoveBalance(tok, from, to, value)
           allowed == tok.allowances[from][spender]
           spent == IF allowed = MaxUint THEN 0 ELSE value
<1>1. value \in Nat
  BY ResolveIsNat DEF WellFormed, CanTransferFrom, CanTransfer
<1>2. tok.balances[from] \in Nat
  BY StorageTypes, TokenAssumption DEF WellFormed, UInt
<1>3. value <= tok.balances[from]
  BY <1>1, <1>2 DEF CanTransferFrom, CanTransfer
<1>4. WellFormed(moved)
  BY <1>1, <1>3, MoveBalanceWellFormed
<1>5. allowed \in UInt
  BY DEF WellFormed, TokenStorage
<1>6. spent <= allowed /\ spent \in Nat
  BY <1>1, <1>5, TokenAssumption DEF CanTransferFrom, UInt
<1>7. allowed - spent \in UInt
  BY <1>5, <1>6, TokenAssumption DEF UInt
<1>8. moved.allowances = tok.allowances
  BY DEF MoveBalance, WellFormed, TokenStorage
<1>9. AfterTransferFrom(tok, t, spender, from, to, amount)
        = [moved EXCEPT !.allowances[from][spender] = @ - spent]
  BY DEF AfterTransferFrom
<1> HIDE DEF moved, value, allowed, spent
<1>10. [moved EXCEPT !.allowances[from][spender] = @ - spent]
         = [moved EXCEPT !.allowances[from][spender] = allowed - spent]
  BY <1>4, <1>8 DEF WellFormed, TokenStorage, allowed
<1> QED
  BY <1>4, <1>7, <1>9, <1>10, AllowanceWellFormed

-----------------------------------------------------------------------------
(* The same calls account by account. *)

\* Calls that change nothing but the ledgers and, for mint, a rate.
SameSettings(tok, new) ==
    /\ new.sInterestRate = tok.sInterestRate
    /\ new.sUserToLastUpdatedTimeStamp = tok.sUserToLastUpdatedTimeStamp
    /\ new.minters = tok.minters

LEMMA MintEffect ==
  ASSUME NEW tok, WellFormed(tok), NEW t \in Nat,
         NEW caller \in Accounts, NEW u \in Accounts, NEW amount \in UInt, NEW rate \in UInt,
         CanMint(tok, t, caller, u, amount)
  PROVE  LET new == AfterMint(tok, u, amount, rate)
         IN  /\ new.totalSupply = tok.totalSupply + amount
             /\ \A v \in Accounts :
                   /\ new.balances[v] = tok.balances[v] + (IF v = u THEN amount ELSE 0)
                   /\ new.sUserToAmountMinted[v]
                        = tok.sUserToAmountMinted[v] + (IF v = u THEN amount ELSE 0)
                   /\ new.sUserToInterestRate[v]
                        = IF v = u THEN rate ELSE tok.sUserToInterestRate[v]
             /\ SameSettings(tok, new)
<1> DEFINE new == AfterMint(tok, u, amount, rate)
<1>1. tok \in TokenStorage
  BY DEF WellFormed
<1>2. /\ tok.balances \in Ledger /\ tok.balances[u] \in UInt /\ tok.totalSupply \in UInt
      /\ \A v \in Accounts : tok.balances[v] \in Int /\ tok.sUserToAmountMinted[v] \in Int
  <2>1. \A v \in Accounts : tok.balances[v] \in UInt /\ tok.sUserToAmountMinted[v] \in UInt
    BY <1>1, StorageTypes
  <2> QED BY <1>1, <2>1, StorageTypes, TokenAssumption DEF UInt
<1>3. tok.balances[u] <= tok.totalSupply
  BY <1>2, EntryAtMostTotal DEF WellFormed
<1>4. tok.balances[u] + amount \in UInt
  BY <1>2, <1>3, TokenAssumption DEF CanMint, UInt
<1>5. Wrap(tok.balances[u] + amount) = tok.balances[u] + amount
  BY <1>4, WrapInRange
<1>6. /\ new.balances = [tok.balances EXCEPT ![u] = tok.balances[u] + amount]
      /\ new.sUserToAmountMinted = [tok.sUserToAmountMinted EXCEPT
                                      ![u] = tok.sUserToAmountMinted[u] + amount]
      /\ new.totalSupply = tok.totalSupply + amount
      /\ new.sUserToInterestRate = [tok.sUserToInterestRate EXCEPT ![u] = rate]
      /\ SameSettings(tok, new)
  BY <1>1, <1>5 DEF AfterMint, TokenStorage, SameSettings
<1>7. /\ tok.balances \in [Accounts -> UInt] /\ tok.sUserToAmountMinted \in [Accounts -> UInt]
      /\ tok.sUserToInterestRate \in [Accounts -> UInt]
  BY <1>1 DEF TokenStorage
<1> HIDE DEF new
<1>8. \A v \in Accounts :
         /\ new.balances[v] = tok.balances[v] + (IF v = u THEN amount ELSE 0)
         /\ new.sUserToAmountMinted[v]
              = tok.sUserToAmountMinted[v] + (IF v = u THEN amount ELSE 0)
         /\ new.sUserToInterestRate[v] = IF v = u THEN rate ELSE tok.sUserToInterestRate[v]
  BY <1>2, <1>6, <1>7
<1> QED
  BY <1>6, <1>8 DEF new

LEMMA BurnEffect ==
  ASSUME NEW tok, WellFormed(tok), NEW t \in Nat,
         NEW caller \in Accounts, NEW u \in Accounts, NEW amount \in UInt,
         CanBurn(tok, t, caller, u, amount)
  PROVE  LET new == AfterBurn(tok, t, u, amount)
             burnt == Resolve(tok, t, u, amount)
         IN  /\ burnt \in UInt
             /\ burnt <= tok.balances[u] /\ burnt <= tok.sUserToAmountMinted[u]
             /\ new.totalSupply = tok.totalSupply - burnt
             /\ \A v \in Accounts :
                   /\ new.balances[v] = tok.balances[v] - (IF v = u THEN burnt ELSE 0)
                   /\ new.sUserToAmountMinted[v]
                        = tok.sUserToAmountMinted[v] - (IF v = u THEN burnt ELSE 0)
             /\ new.sUserToInterestRate = tok.sUserToInterestRate
             /\ SameSettings(tok, new)
<1> DEFINE new == AfterBurn(tok, t, u, amount)
           burnt == Resolve(tok, t, u, amount)
<1>1. tok \in TokenStorage
  BY DEF WellFormed
<1>2. /\ tok.balances \in Ledger /\ tok.totalSupply \in UInt
      /\ tok.balances \in [Accounts -> UInt] /\ tok.sUserToAmountMinted \in [Accounts -> UInt]
      /\ tok.balances[u] \in UInt /\ tok.sUserToAmountMinted[u] \in UInt
      /\ \A v \in Accounts : tok.balances[v] \in Int /\ tok.sUserToAmountMinted[v] \in Int
  <2>1. \A v \in Accounts : tok.balances[v] \in UInt /\ tok.sUserToAmountMinted[v] \in UInt
    BY <1>1, StorageTypes
  <2> QED BY <1>1, <2>1, StorageTypes, TokenAssumption DEF UInt, Ledger
<1>3. burnt \in Nat
  BY <1>1, ResolveIsNat DEF CanBurn
<1>4. burnt <= tok.balances[u] /\ burnt <= tok.sUserToAmountMinted[u]
  BY <1>2, <1>3, TokenAssumption DEF CanBurn, UInt
<1> HIDE DEF burnt
<1>5. tok.balances[u] <= tok.totalSupply
  BY <1>2, EntryAtMostTotal DEF WellFormed
<1>6. tok.totalSupply - burnt \in UInt /\ burnt \in UInt
  BY <1>2, <1>3, <1>4, <1>5, TokenAssumption DEF UInt
<1>7. Wrap(tok.totalSupply - burnt) = tok.totalSupply - burnt
  BY <1>6, WrapInRange
<1>8. /\ new.balances = [tok.balances EXCEPT ![u] = tok.balances[u] - burnt]
      /\ new.sUserToAmountMinted = [tok.sUserToAmountMinted EXCEPT
                                      ![u] = tok.sUserToAmountMinted[u] - burnt]
      /\ new.totalSupply = tok.totalSupply - burnt
      /\ new.sUserToInterestRate = tok.sUserToInterestRate
      /\ SameSettings(tok, new)
  BY <1>1, <1>7 DEF AfterBurn, burnt, TokenStorage, SameSettings
<1> HIDE DEF new
<1>9. \A v \in Accounts :
         /\ new.balances[v] = tok.balances[v] - (IF v = u THEN burnt ELSE 0)
         /\ new.sUserToAmountMinted[v]
              = tok.sUserToAmountMinted[v] - (IF v = u THEN burnt ELSE 0)
  BY <1>2, <1>8
<1> QED
  BY <1>4, <1>6, <1>8, <1>9 DEF new, burnt

LEMMA TransferEffect ==
  ASSUME NEW tok, WellFormed(tok), NEW t \in Nat,
         NEW from \in Accounts, NEW to \in Accounts, NEW amount \in UInt,
         CanTransfer(tok, t, from, to, amount)
  PROVE  LET new == AfterTransfer(tok, t, from, to, amount)
             value == Resolve(tok, t, from, amount)
         IN  /\ value \in UInt /\ value <= tok.balances[from]
             /\ \A v \in Accounts :
                   new.balances[v] = tok.balances[v] - (IF v = from THEN value ELSE 0)
                                        + (IF v = to THEN value ELSE 0)
             /\ new.totalSupply = tok.totalSupply
             /\ new.sUserToAmountMinted = tok.sUserToAmountMinted
             /\ new.sUserToInterestRate = tok.sUserToInterestRate
             /\ SameSettings(tok, new)
<1> DEFINE value == Resolve(tok, t, from, amount)
           new == AfterTransfer(tok, t, from, to, amount)
           debited == [tok.balances EXCEPT ![from] = tok.balances[from] - value]
<1>1. tok \in TokenStorage
  BY DEF WellFormed
<1>2. /\ tok.balances \in Ledger /\ tok.balances \in [Accounts -> UInt]
      /\ tok.totalSupply \in UInt /\ tok.balances[from] \in UInt /\ tok.balances[to] \in UInt
      /\ \A v \in Accounts : tok.balances[v] \in Int
  <2>1. \A v \in Accounts : tok.balances[v] \in UInt
    BY <1>1, StorageTypes
  <2> QED BY <1>1, <2>1, StorageTypes, TokenAssumption DEF UInt, Ledger
<1>3. value \in UInt /\ value <= tok.balances[from]
  <2>1. value \in Nat
    BY <1>1, ResolveIsNat DEF CanTransfer
  <2> HIDE DEF value
  <2>2. value <= tok.balances[from]
    BY <1>2, <2>1, TokenAssumption DEF CanTransfer, UInt, value
  <2> QED BY <1>2, <2>1, <2>2, TokenAssumption DEF UInt
<1> HIDE DEF value
<1>4. debited[to] + value \in UInt
  <2>1. from # to => tok.balances[from] + tok.balances[to] <= Total(tok.balances)
    BY <1>2, EntriesAtMostTotal
  <2>2. Total(tok.balances) = tok.totalSupply
    BY DEF WellFormed
  <2>3. debited[to] = IF to = from THEN tok.balances[from] - value ELSE tok.balances[to]
    BY <1>2
  <2> HIDE DEF debited
  <2> QED BY <1>2, <1>3, <2>1, <2>2, <2>3, TokenAssumption DEF UInt
<1>5. Wrap(debited[to] + value) = debited[to] + value
  <2> HIDE DEF debited
  <2> QED BY <1>4, WrapInRange
<1>6. /\ new.balances = [debited EXCEPT ![to] = Wrap(debited[to] + value)]
      /\ new.totalSupply = tok.totalSupply
      /\ new.sUserToAmountMinted = tok.sUserToAmountMinted
      /\ new.sUserToInterestRate = tok.sUserToInterestRate
      /\ SameSettings(tok, new)
  BY <1>1 DEF AfterTransfer, MoveBalance, TokenStorage, SameSettings, value
<1>7. \A v \in Accounts :
         new.balances[v] = tok.balances[v] - (IF v = from THEN value ELSE 0)
                              + (IF v = to THEN value ELSE 0)
  <2> HIDE DEF new
  <2>1. value \in Int
    BY <1>3, TokenAssumption DEF UInt
  <2> QED BY <1>2, <1>5, <1>6, <2>1
<1> QED
  BY <1>3, <1>6, <1>7 DEF new, value

\* The owner's calls touch no ledger.
LEMMA AdministrationWellFormed ==
  ASSUME NEW tok, WellFormed(tok), NEW account \in Accounts
  PROVE  /\ \A r \in UInt : WellFormed(AfterSetInterestRete(tok, r))
         /\ \A role : WellFormed(AfterGrantRole(tok, role, account))
         /\ WellFormed(AfterRenounceMinter(tok, account))
         /\ \A o \in Accounts \cup {ZeroAddress} :
               WellFormed(AfterTransferOwnership(tok, o))
BY DEF WellFormed, TokenStorage, AfterSetInterestRete, AfterGrantRole,
       AfterRenounceMinter, AfterTransferOwnership
=============================================================================
