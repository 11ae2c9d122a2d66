-------------------------- MODULE LnurlPay_proofs ----------------------------
(***************************************************************************)
(* What holds of offers, invoices, names and answers for all texts,        *)
(* addresses, configurations and sales of names.                           *)
(***************************************************************************)
EXTENDS LnurlPay, SequenceTheorems, FiniteSetTheorems, WellFoundedInduction, TLAPS

------------------------------------------------------------------------------
(* Texts, names and addresses.                                              *)

NameCharacters == Alphanumeric \cup {Mark}

\* The classes of characters are apart.
LEMMA Classes ==
  /\ Upper = {"A", "B"}
  /\ NameCharacters \subseteq Characters
  /\ Blank \notin NameCharacters /\ Blank \notin Upper
  /\ Upper \cap NameCharacters = {}
  /\ \A c \in Upper : LowerOf[c] \in Alphanumeric
  BY DEF Upper, LowerOf, NameCharacters, Characters, Alphanumeric, Blank, Mark

\* Lower-casing a text makes a text of the same length.
LEMMA LowercaseType ==
  ASSUME NEW text \in Seq(Characters)
  PROVE  /\ lowercase(text) \in Seq(Characters)
         /\ Len(lowercase(text)) = Len(text)
  <1>1. Len(text) \in Nat /\ DOMAIN text = 1..Len(text)
    BY LenProperties
  <1>2. \A i \in 1..Len(text) : text[i] \in Characters
    BY ElementOfSeq
  <1>3. lowercase(text) \in [1..Len(text) -> Characters]
    BY <1>1, <1>2, Classes DEF lowercase, NameCharacters
  <1>. QED
    BY <1>1, <1>3, SeqDef

\* What has no capitals is lower case.
LEMMA LowercaseKeeps ==
  ASSUME NEW text \in Seq(NameCharacters)
  PROVE  lowercase(text) = text
  <1>1. \A i \in DOMAIN text : text[i] \notin Upper
    BY LenProperties, ElementOfSeq, Classes
  <1>2. text = [i \in DOMAIN text |-> text[i]]
    BY LenProperties
  <1>. QED
    BY <1>1, <1>2 DEF lowercase

\* What has no blanks is not trimmed.
LEMMA TrimKeeps ==
  ASSUME NEW text \in Seq(Characters), \A i \in DOMAIN text : text[i] # Blank
  PROVE  trim(text) = text
  <1>1. Len(text) \in Nat /\ DOMAIN text = 1..Len(text)
    BY LenProperties
  <1>2. {i \in DOMAIN text : text[i] # Blank} = 1..Len(text)
    BY <1>1
  <1>3. CASE Len(text) = 0
    BY <1>1, <1>2, <1>3, EmptySeq DEF trim
  <1>4. CASE Len(text) # 0
    <2>1. Min(1..Len(text)) = 1
      BY <1>1, <1>4 DEF Min
    <2>2. Max(1..Len(text)) = Len(text)
      BY <1>1, <1>4 DEF Max
    <2>3. 1..Len(text) # {}
      BY <1>1, <1>4
    <2>. QED
      BY <1>1, <1>2, <2>1, <2>2, <2>3, SubSeqFull DEF trim
  <1>. QED
    BY <1>3, <1>4


\* One of the sets f[i] contains no other.
HasSmallest(S, f) ==
  \E a \in S : \A i \in S : f[i] \subseteq f[a] => f[a] \subseteq f[i]

\* Strict inclusion is well founded on the sets of indices.
LEMMA Smallest ==
  ASSUME NEW n \in Nat, NEW S, S # {}, NEW f \in [S -> SUBSET (1..n)]
  PROVE  HasSmallest(S, f)
  <1>. DEFINE T == {f[i] : i \in S}
              R == StrictSubsetOrdering(1..n)
              U == SUBSET (1..n)
  <1>1. IsWellFoundedOn(R, U)
    <2>1. IsFiniteSet(1..n)
      BY FS_Interval
    <2>2. FiniteSubsetsOf(1..n) = SUBSET (1..n)
      BY <2>1, FS_FiniteSubsetsOfFinite
    <2>. QED
      BY <2>2, FS_StrictSubsetOrderingWellFounded
  <1>2. T \subseteq U /\ T # {}
    OBVIOUS
  <1>3. \E x \in T : \A y \in T : ~ (<<y, x>> \in R)
    <2>. HIDE DEF T, R, U
    <2>. QED
      BY <1>1, <1>2, WFMin
  <1>4. PICK a \in S : \A i \in S : ~ (<<f[i], f[a]>> \in R)
    BY <1>3
  <1>. QED
    BY <1>4 DEF StrictSubsetOrdering, HasSmallest

\* A set of numbers has a least one.
HasLeast(S) == \E a \in S : \A i \in S : a <= i

\* Numbers up to n are ordered as their intervals are.
LEMMA Least ==
  ASSUME NEW n \in Nat, NEW S \in SUBSET (1..n), S # {}
  PROVE  HasLeast(S)
  <1>. DEFINE f == [i \in S |-> 1..i]
  <1>1. f \in [S -> SUBSET (1..n)]
    OBVIOUS
  <1>2. HasSmallest(S, f)
    <2>. HIDE DEF f
    <2>. QED
      BY <1>1, Smallest
  <1>. QED
    BY <1>2 DEF HasSmallest, HasLeast

\* Induction over an interval, with a set in the place of a predicate.
LEMMA UpTo ==
  ASSUME NEW n \in Nat, NEW S, 0 \in S, \A k \in 1..n : k - 1 \in S => k \in S
  PROVE  0..n \subseteq S
  <1>. DEFINE B == (0..n) \ S
  <1>. SUFFICES ASSUME B # {} PROVE FALSE
    OBVIOUS
  <1>1. B \in SUBSET (1..n)
    OBVIOUS
  <1>2. HasLeast(B)
    <2>. HIDE DEF B
    <2>. QED
      BY <1>1, Least
  <1>3. PICK b \in B : \A i \in B : b <= i
    BY <1>2 DEF HasLeast
  <1>4. b - 1 \in 0..n /\ b - 1 \notin B
    BY <1>1, <1>3
  <1>. QED
    BY <1>1, <1>3, <1>4

\* A set of indices has a least and a greatest one.
LEMMA Extremes ==
  ASSUME NEW n \in Nat, NEW S \in SUBSET (1..n), S # {}
  PROVE  Min(S) \in S /\ Max(S) \in S
  <1>1. PICK a \in S : \A i \in S : a <= i
    BY Least DEF HasLeast
  <1>2. PICK b \in S : \A i \in S : b >= i
    <2>. DEFINE f == [i \in S |-> i..n]
    <2>1. f \in [S -> SUBSET (1..n)]
      OBVIOUS
    <2>2. HasSmallest(S, f)
      <3>. HIDE DEF f
      <3>. QED
        BY <2>1, Smallest
    <2>. QED
      BY <2>2 DEF HasSmallest
  <1>. QED
    BY <1>1, <1>2 DEF Min, Max

\* Trimming a text makes a text.
LEMMA TrimType ==
  ASSUME NEW text \in Seq(Characters)
  PROVE  trim(text) \in Seq(Characters)
  <1>. DEFINE solid == {i \in DOMAIN text : text[i] # Blank}
  <1>1. Len(text) \in Nat /\ DOMAIN text = 1..Len(text)
    BY LenProperties
  <1>2. CASE solid = {}
    BY <1>2, EmptySeq DEF trim
  <1>3. CASE solid # {}
    <2>1. solid \in SUBSET (1..Len(text))
      BY <1>1
    <2>2. Min(solid) \in 1..Len(text) /\ Max(solid) \in 1..Len(text)
      <3>. HIDE DEF solid
      <3>. QED
        BY <1>1, <1>3, <2>1, Extremes
    <2>3. \A i \in Min(solid)..Max(solid) : text[i] \in Characters
      <3>1. \A i \in 1..Len(text) : text[i] \in Characters
        BY ElementOfSeq
      <3>. HIDE DEF solid
      <3>. QED
        BY <1>1, <2>2, <3>1
    <2>4. SubSeq(text, Min(solid), Max(solid)) \in Seq(Characters)
      <3>. HIDE DEF solid
      <3>. QED
        BY <1>1, <2>2, <2>3, SubSeqProperties
    <2>. QED
      BY <1>3, <2>4 DEF trim
  <1>. QED
    BY <1>2, <1>3

\* The letters of a text without capitals and blanks stay as they are.
LEMMA NormalKeeps ==
  ASSUME NEW text \in Seq(NameCharacters)
  PROVE  lowercase(trim(text)) = text
  <1>1. text \in Seq(Characters)
    BY Classes, SeqMonotonic
  <1>2. \A i \in DOMAIN text : text[i] # Blank
    BY LenProperties, ElementOfSeq, Classes
  <1>. QED
    BY <1>1, <1>2, TrimKeeps, LowercaseKeeps

\* A text is read as one address at most.
LEMMA ParseUnique ==
  ASSUME NEW text, NEW x \in parse_receive_address(text), NEW y \in parse_receive_address(text)
  PROVE  x = y
  BY AddressAssumption DEF parse_receive_address, Spells

\* The text of an address could be that of a name.
LEMMA AddressText ==
  ASSUME NEW x \in ReceiveAddress
  PROVE  x.text \in Seq(NameCharacters) /\ x.text # <<>>
  <1>1. x.text \in Seq(Alphanumeric) /\ x.text # <<>>
    BY AddressAssumption
  <1>. QED
    BY <1>1, SeqMonotonic DEF NameCharacters

\* The canonical text of an address is read as that address and no other
\* (parse_receive_address), so that a callback made of it comes back to it.
THEOREM ParseCanonical ==
  ASSUME NEW x \in ReceiveAddress
  PROVE  parse_receive_address(x.text) = {x}
  <1>1. lowercase(x.text) = x.text
    BY AddressText, LowercaseKeeps
  <1>2. x \in parse_receive_address(x.text)
    BY <1>1 DEF parse_receive_address, Spells
  <1>. QED
    BY <1>2, ParseUnique

\* No spelling of a name is an address: what normalize_custom_address_name has
\* tested of the name in normal form holds of all that is normalised to it.
THEOREM SpellingIsNoAddress ==
  ASSUME NEW text \in Seq(Characters),
         parse_receive_address(lowercase(trim(text))) = {}
  PROVE  parse_receive_address(text) = {}
  <1>. SUFFICES ASSUME NEW x \in parse_receive_address(text)
                PROVE  FALSE
    OBVIOUS
  <1>1. x \in ReceiveAddress /\ lowercase(text) = x.text
    BY DEF parse_receive_address, Spells
  <1>2. \A i \in DOMAIN text : text[i] # Blank
    <2>. SUFFICES ASSUME NEW i \in DOMAIN text, text[i] = Blank
                  PROVE  FALSE
      OBVIOUS
    <2>1. lowercase(text)[i] = Blank
      BY Classes DEF lowercase
    <2>2. DOMAIN x.text = DOMAIN text
      BY <1>1 DEF lowercase
    <2>3. x.text[i] \in NameCharacters
      BY <1>1, <2>2, AddressText, LenProperties, ElementOfSeq
    <2>. QED
      BY <1>1, <2>1, <2>3, Classes
  <1>3. lowercase(trim(text)) = x.text
    BY <1>1, <1>2, TrimKeeps
  <1>. QED
    BY <1>1, <1>3, ParseCanonical

\* A normalised name is no address, stands for itself, and is what each of its
\* spellings stands for (normalize_custom_address_name is idempotent).
THEOREM NameIsNormal ==
  ASSUME NEW text \in Seq(Characters), NEW n \in normalize_custom_address_name(text)
  PROVE  /\ n = lowercase(trim(text))
         /\ n \in Seq(NameCharacters)
         /\ parse_receive_address(n) = {}
         /\ \A other : lowercase(trim(other)) = n =>
              normalize_custom_address_name(other) = {n}
         /\ normalize_custom_address_name(n) = {n}
  <1>1. /\ n = lowercase(trim(text))
        /\ Range(n) \subseteq NameCharacters
        /\ parse_receive_address(n) = {}
    BY DEF normalize_custom_address_name, NameCharacters
  <1>2. n \in Seq(Characters)
    BY <1>1, TrimType, LowercaseType
  <1>3. n \in Seq(NameCharacters)
    <2>1. Len(n) \in Nat /\ n \in [1..Len(n) -> Characters]
      BY <1>2, LenProperties
    <2>2. \A i \in 1..Len(n) : n[i] \in NameCharacters
      BY <1>1, <2>1 DEF Range
    <2>3. n \in [1..Len(n) -> NameCharacters]
      BY <2>1, <2>2
    <2>. QED
      BY <2>1, <2>3, SeqDef
  <1>4. \A other : lowercase(trim(other)) = n =>
          normalize_custom_address_name(other) = {n}
    BY <1>1 DEF normalize_custom_address_name
  <1>5. lowercase(trim(n)) = n
    BY <1>3, NormalKeeps
  <1>. QED
    BY <1>1, <1>3, <1>4, <1>5

------------------------------------------------------------------------------
(* Zap requests.                                                            *)

\* The relays tag of a request is a list of texts.
LEMMA TagType ==
  ASSUME NEW request \in Requests
  PROVE  relays_tag(request) \in Seq(RelayTexts)
  BY RequestsAssumption, EmptySeq, HeadTailProperties DEF relays_tag

\* What the loop of zap_request_relays has after each text.
IsLoop(f, list, m) ==
  f = [n \in 0..m |-> IF n = 0 THEN <<>> ELSE with_relay(f[n - 1], list[n])]

\* There is such a function.
LEMMA LoopExists ==
  ASSUME NEW list, Len(list) \in Nat
  PROVE  \E f : IsLoop(f, list, Len(list))
  <1>. DEFINE S == {m \in 0..Len(list) : \E f : IsLoop(f, list, m)}
  <1>1. 0 \in S
    <2>. DEFINE f == [n \in 0..0 |-> <<>>]
    <2>1. IsLoop(f, list, 0)
      BY DEF IsLoop
    <2>. QED
      BY <2>1
  <1>2. ASSUME NEW k \in 1..Len(list), k - 1 \in S
        PROVE  k \in S
    <2>1. PICK f : IsLoop(f, list, k - 1)
      BY <1>2
    <2>. DEFINE g == [n \in 0..k |-> IF n = k THEN with_relay(f[k - 1], list[k]) ELSE f[n]]
    <2>2. \A n \in 0..k : g[n] = IF n = 0 THEN <<>> ELSE with_relay(g[n - 1], list[n])
      <3>1. \A n \in 0..(k - 1) :
              f[n] = IF n = 0 THEN <<>> ELSE with_relay(f[n - 1], list[n])
        BY <2>1 DEF IsLoop
      <3>2. \A n \in 0..(k - 1) : g[n] = f[n]
        OBVIOUS
      <3>3. g[k] = with_relay(f[k - 1], list[k])
        OBVIOUS
      <3>. HIDE DEF g
      <3>. QED
        BY <3>1, <3>2, <3>3
    <2>3. g = [n \in 0..k |-> g[n]]
      OBVIOUS
    <2>4. IsLoop(g, list, k)
      <3>. HIDE DEF g
      <3>. QED
        BY <2>2, <2>3 DEF IsLoop
    <2>. QED
      BY <2>4
  <1>3. 0..Len(list) \subseteq S
    <2>. HIDE DEF S
    <2>. QED
      BY <1>1, <1>2, UpTo
  <1>. QED
    BY <1>3

\* The loop has nothing at first, and what with_relay makes of it at each text.
Loop(list) == CHOOSE f : IsLoop(f, list, Len(list))

LEMMA LoopSteps ==
  ASSUME NEW list, Len(list) \in Nat
  PROVE  /\ Loop(list)[0] = <<>>
         /\ \A n \in 1..Len(list) : Loop(list)[n] = with_relay(Loop(list)[n - 1], list[n])
  <1>1. IsLoop(Loop(list), list, Len(list))
    BY LoopExists DEF Loop
  <1>2. \A n \in 0..Len(list) :
          Loop(list)[n] = IF n = 0 THEN <<>> ELSE with_relay(Loop(list)[n - 1], list[n])
    BY <1>1 DEF IsLoop
  <1>. QED
    BY <1>2

LEMMA LoopEnds ==
  ASSUME NEW request
  PROVE  zap_request_relays(request) = Loop(relays_tag(request))[Len(relays_tag(request))]
  BY DEF zap_request_relays, Loop, IsLoop

\* The relay of a text, if it has one.
UrlOf(text) == CHOOSE url \in RelayUrl[text] : TRUE

LEMMA UrlsAreUnique ==
  ASSUME NEW text \in RelayTexts, RelayUrl[text] # {}
  PROVE  UrlOf(text) \in RelayUrls /\ RelayUrl[text] = {UrlOf(text)}
  BY RelayAssumption DEF UrlOf

\* How many relays are listed up to a position.
RankOf(list, n) == Cardinality({j \in FirstListed(list) : j <= n})

\* The rank grows by one at each position of a new relay.
LEMMA Ranks ==
  ASSUME NEW list \in Seq(RelayTexts)
  PROVE  /\ RankOf(list, 0) = 0
         /\ \A n \in 0..Len(list) : RankOf(list, n) \in Nat
         /\ \A n \in 1..Len(list) :
              RankOf(list, n) =
                RankOf(list, n - 1) + (IF n \in FirstListed(list) THEN 1 ELSE 0)
         /\ \A n \in 0..Len(list), m \in 0..Len(list) :
              m <= n => RankOf(list, m) <= RankOf(list, n)
  <1>. DEFINE upto == [n \in 0..Len(list) |-> {j \in FirstListed(list) : j <= n}]
  <1>1. Len(list) \in Nat /\ FirstListed(list) \subseteq 1..Len(list)
    BY LenProperties DEF FirstListed
  <1>2. /\ upto[0] = {}
        /\ \A n \in 0..Len(list) : upto[n] \in SUBSET (1..Len(list))
        /\ \A n \in 1..Len(list) : n \in FirstListed(list) =>
             upto[n] = upto[n - 1] \cup {n} /\ n \notin upto[n - 1]
        /\ \A n \in 1..Len(list) : n \notin FirstListed(list) => upto[n] = upto[n - 1]
        /\ \A n \in 0..Len(list), m \in 0..Len(list) :
             m <= n => upto[m] \in SUBSET upto[n]
    BY <1>1
  <1>3. \A n \in 0..Len(list) : RankOf(list, n) = Cardinality(upto[n])
    BY DEF RankOf
  <1>. HIDE DEF upto
  <1>4. ASSUME NEW n \in 0..Len(list)
        PROVE  IsFiniteSet(upto[n]) /\ Cardinality(upto[n]) \in Nat
    <2>1. IsFiniteSet(1..Len(list))
      BY <1>1, FS_Interval
    <2>2. IsFiniteSet(upto[n])
      BY <1>2, <2>1, FS_Subset
    <2>. QED
      BY <2>2, FS_CardinalityType
  <1>5. RankOf(list, 0) = 0
    <2>1. 0 \in 0..Len(list)
      BY <1>1
    <2>. QED
      BY <1>2, <1>3, <2>1, FS_EmptySet
  <1>6. ASSUME NEW n \in 1..Len(list)
        PROVE  RankOf(list, n) =
                 RankOf(list, n - 1) + (IF n \in FirstListed(list) THEN 1 ELSE 0)
    <2>1. n \in 0..Len(list) /\ n - 1 \in 0..Len(list)
      BY <1>1
    <2>2. IsFiniteSet(upto[n - 1]) /\ Cardinality(upto[n - 1]) \in Nat
      BY <1>4, <2>1
    <2>3. CASE n \in FirstListed(list)
      <3>1. upto[n] = upto[n - 1] \cup {n} /\ n \notin upto[n - 1]
        BY <1>2, <2>3
      <3>2. Cardinality(upto[n]) = Cardinality(upto[n - 1]) + 1
        BY <2>2, <3>1, FS_AddElement
      <3>. QED
        BY <1>3, <2>1, <2>3, <3>2
    <2>4. CASE n \notin FirstListed(list)
      BY <1>2, <1>3, <2>1, <2>2, <2>4
    <2>. QED
      BY <2>3, <2>4
  <1>7. ASSUME NEW n \in 0..Len(list), NEW m \in 0..Len(list), m <= n
        PROVE  RankOf(list, m) <= RankOf(list, n)
    <2>1. IsFiniteSet(upto[n]) /\ upto[m] \in SUBSET upto[n]
      BY <1>2, <1>4, <1>7
    <2>2. Cardinality(upto[m]) <= Cardinality(upto[n])
      BY <2>1, FS_Subset
    <2>. QED
      BY <1>3, <2>2
  <1>. QED
    BY <1>3, <1>4, <1>5, <1>6, <1>7

\* Every position of a new relay has a rank of at least one.
LEMMA RankPositive ==
  ASSUME NEW list \in Seq(RelayTexts), NEW i \in FirstListed(list)
  PROVE  RankOf(list, i) \in Nat /\ RankOf(list, i) >= 1
  <1>1. Len(list) \in Nat /\ i \in 1..Len(list) /\ i - 1 \in 0..Len(list)
    BY LenProperties DEF FirstListed
  <1>2. RankOf(list, i - 1) \in Nat /\ RankOf(list, i) = RankOf(list, i - 1) + 1
    BY <1>1, Ranks
  <1>. QED
    BY <1>2

\* A public relay is listed for the first time somewhere.
LEMMA ListedFirst ==
  ASSUME NEW list \in Seq(RelayTexts), NEW n \in 1..Len(list),
         RelayUrl[list[n]] \cap Public # {}
  PROVE  \E i \in FirstListed(list) : i <= n /\ RelayUrl[list[i]] = RelayUrl[list[n]]
  <1>. DEFINE S == {i \in 1..n : RelayUrl[list[i]] = RelayUrl[list[n]]}
  <1>1. Len(list) \in Nat /\ DOMAIN list = 1..Len(list)
    BY LenProperties
  <1>2. S \in SUBSET (1..n) /\ n \in S /\ n \in Nat
    BY <1>1
  <1>3. HasLeast(S)
    <2>. HIDE DEF S
    <2>. QED
      BY <1>2, Least
  <1>4. PICK i \in S : \A j \in S : i <= j
    BY <1>3 DEF HasLeast
  <1>5. \A j \in 1..(i - 1) : RelayUrl[list[j]] # RelayUrl[list[i]]
    BY <1>1, <1>4
  <1>. QED
    BY <1>1, <1>4, <1>5 DEF FirstListed

\* After n texts the loop has the relays listed so far, by rank, up to the limit.
LoopHas(list, n) ==
  LET relays == Loop(list)[n]
  IN  /\ relays \in Seq(RelayUrls)
      /\ Len(relays) = IF RankOf(list, n) <= MAX_RELAYS THEN RankOf(list, n) ELSE MAX_RELAYS
      /\ \A i \in FirstListed(list) :
           i <= n /\ RankOf(list, i) <= MAX_RELAYS =>
             relays[RankOf(list, i)] = UrlOf(list[i])
      /\ \A k \in 1..Len(relays) : \E i \in FirstListed(list) :
           i <= n /\ RankOf(list, i) = k /\ relays[k] = UrlOf(list[i])

\* One turn of the loop.
LEMMA LoopStep ==
  ASSUME NEW list \in Seq(RelayTexts), NEW n \in 1..Len(list), LoopHas(list, n - 1)
  PROVE  LoopHas(list, n)
  <1>. DEFINE before == Loop(list)[n - 1]
              after == Loop(list)[n]
              text == list[n]
              url == UrlOf(text)
              r == RankOf(list, n)
              q == RankOf(list, n - 1)
  <1>1. /\ Len(list) \in Nat /\ n \in Nat /\ n - 1 \in 0..Len(list) /\ n \in 0..Len(list)
        /\ FirstListed(list) \subseteq 1..Len(list)
        /\ \A i \in 1..Len(list) : list[i] \in RelayTexts
        /\ MAX_RELAYS \in Nat \ {0}
    BY LenProperties, ElementOfSeq, RelayAssumption DEF FirstListed
  <1>2. after = with_relay(before, text)
    BY <1>1, LoopSteps
  <1>3. /\ r \in Nat /\ q \in Nat
        /\ r = q + (IF n \in FirstListed(list) THEN 1 ELSE 0)
        /\ \A i \in FirstListed(list) : RankOf(list, i) \in Nat
        /\ \A i \in FirstListed(list) : i <= n - 1 => RankOf(list, i) <= q
    BY <1>1, Ranks
  <1>4. /\ before \in Seq(RelayUrls)
        /\ Len(before) \in Nat
        /\ Len(before) = IF q <= MAX_RELAYS THEN q ELSE MAX_RELAYS
        /\ \A i \in FirstListed(list) :
             i <= n - 1 /\ RankOf(list, i) <= MAX_RELAYS =>
               before[RankOf(list, i)] = UrlOf(list[i])
        /\ \A k \in 1..Len(before) : \E i \in FirstListed(list) :
             i <= n - 1 /\ RankOf(list, i) = k /\ before[k] = UrlOf(list[i])
    BY LenProperties DEF LoopHas
  <1>5. \A i \in FirstListed(list) : i <= n <=> i <= n - 1 \/ i = n
    BY <1>1
  <1>6. CASE Len(before) = MAX_RELAYS
    <2>1. after = before
      BY <1>2, <1>6 DEF with_relay
    <2>2. n \in FirstListed(list) => r > MAX_RELAYS
      BY <1>1, <1>3, <1>4, <1>6
    <2>3. q >= MAX_RELAYS /\ r >= MAX_RELAYS
      BY <1>1, <1>3, <1>4, <1>6
    <2>. HIDE DEF before, after, text, url, r, q
    <2>. QED
      BY <1>1, <1>3, <1>4, <1>5, <1>6, <2>1, <2>2, <2>3 DEF LoopHas, after, r
  <1>7. CASE Len(before) # MAX_RELAYS /\ n \in FirstListed(list)
    <2>1. /\ RelayUrl[text] \cap Public # {}
          /\ \A j \in 1..(n - 1) : RelayUrl[list[j]] # RelayUrl[text]
      BY <1>7 DEF FirstListed
    <2>2. url \in RelayUrls /\ RelayUrl[text] = {url}
      BY <1>1, <2>1, UrlsAreUnique
    <2>3. url \notin Range(before)
      <3>. SUFFICES ASSUME NEW k \in 1..Len(before), before[k] = url PROVE FALSE
        BY <1>4, LenProperties DEF Range
      <3>1. PICK i \in FirstListed(list) : i <= n - 1 /\ before[k] = UrlOf(list[i])
        BY <1>4
      <3>2. RelayUrl[list[i]] = {url}
        BY <1>1, <3>1, UrlsAreUnique DEF FirstListed
      <3>. QED
        BY <1>1, <2>1, <2>2, <3>1, <3>2
    <2>4. after = Append(before, url)
      BY <1>2, <1>7, <2>1, <2>2, <2>3 DEF with_relay, UrlOf
    <2>5. /\ after \in Seq(RelayUrls) /\ Len(after) = Len(before) + 1
          /\ after[Len(after)] = url
          /\ \A k \in 1..Len(before) : after[k] = before[k]
      BY <1>4, <2>2, <2>4, AppendProperties
    <2>6. Len(before) = q /\ q < MAX_RELAYS /\ r = Len(after) /\ r <= MAX_RELAYS
      BY <1>1, <1>3, <1>4, <1>7, <2>5
    <2>7. ASSUME NEW i \in FirstListed(list), i <= n, RankOf(list, i) <= MAX_RELAYS
          PROVE  after[RankOf(list, i)] = UrlOf(list[i])
      <3>1. CASE i = n
        BY <2>5, <2>6, <3>1
      <3>2. CASE i <= n - 1
        <4>1. RankOf(list, i) \in 1..Len(before)
          BY <1>3, <2>6, <3>2, RankPositive
        <4>2. before[RankOf(list, i)] = UrlOf(list[i])
          BY <1>4, <2>7, <3>2
        <4>. QED
          BY <2>5, <4>1, <4>2
      <3>. QED
        BY <1>5, <2>7, <3>1, <3>2
    <2>8. ASSUME NEW k \in 1..Len(after)
          PROVE  \E i \in FirstListed(list) :
                   i <= n /\ RankOf(list, i) = k /\ after[k] = UrlOf(list[i])
      <3>1. CASE k = Len(after)
        BY <1>1, <1>7, <2>5, <2>6, <3>1
      <3>2. CASE k \in 1..Len(before)
        BY <1>4, <1>5, <2>5, <3>2
      <3>. QED
        BY <1>4, <2>5, <3>1, <3>2
    <2>. HIDE DEF before, after, text, url, r, q
    <2>. QED
      BY <2>5, <2>6, <2>7, <2>8 DEF LoopHas, after, r
  <1>8. CASE Len(before) # MAX_RELAYS /\ n \notin FirstListed(list)
    <2>1. Len(before) = q /\ q < MAX_RELAYS /\ r = q
      BY <1>1, <1>3, <1>4, <1>8
    <2>2. RelayUrl[text] \cap Public \subseteq Range(before)
      <3>. SUFFICES ASSUME RelayUrl[text] \cap Public # {}
                    PROVE  RelayUrl[text] \subseteq Range(before)
        OBVIOUS
      <3>1. PICK i \in FirstListed(list) : i <= n /\ RelayUrl[list[i]] = RelayUrl[text]
        BY ListedFirst
      <3>2. i <= n - 1
        BY <1>5, <1>8, <3>1
      <3>3. before[RankOf(list, i)] = UrlOf(list[i]) /\ RankOf(list, i) \in 1..Len(before)
        BY <1>1, <1>3, <1>4, <2>1, <3>2, RankPositive
      <3>4. RelayUrl[text] = {UrlOf(list[i])}
        BY <1>1, <3>1, UrlsAreUnique
      <3>. QED
        BY <1>4, <3>3, <3>4, LenProperties DEF Range
    <2>3. after = before
      BY <1>2, <2>2 DEF with_relay
    <2>. HIDE DEF before, after, text, url, r, q
    <2>. QED
      BY <1>4, <1>5, <1>8, <2>1, <2>3 DEF LoopHas, after, r
  <1>. QED
    BY <1>6, <1>7, <1>8

\* What the loop has in the end.
LEMMA RelaysByRank ==
  ASSUME NEW list \in Seq(RelayTexts)
  PROVE  LET relays == Loop(list)[Len(list)]
         IN  /\ DOMAIN relays = 1..Len(relays)
             /\ Len(relays) \in Nat
             /\ Len(relays) <= MAX_RELAYS
             /\ \A i \in FirstListed(list) : RankOf(list, i) <= MAX_RELAYS =>
                  RankOf(list, i) \in 1..Len(relays) /\ relays[RankOf(list, i)] = UrlOf(list[i])
             /\ \A k \in 1..Len(relays) : \E i \in FirstListed(list) :
                  RankOf(list, i) = k /\ relays[k] = UrlOf(list[i])
  <1>. DEFINE N == Len(list)
              relays == Loop(list)[N]
              first == FirstListed(list)
              S == {n \in 0..N : LoopHas(list, n)}
  <1>1. N \in Nat /\ first \subseteq 1..N
    BY LenProperties DEF FirstListed
  <1>2. 0 \in S
    <2>1. Loop(list)[0] = <<>>
      BY <1>1, LoopSteps
    <2>2. RankOf(list, 0) = 0
      BY Ranks
    <2>3. \A i \in first : ~ i <= 0
      BY <1>1
    <2>4. /\ <<>> \in Seq(RelayUrls) /\ Len(<<>>) = 0 /\ 1..0 = {}
          /\ 0 <= MAX_RELAYS
      BY EmptySeq, RelayAssumption
    <2>5. LoopHas(list, 0)
      <3>. HIDE DEF N, relays, first, S
      <3>. QED
        BY <2>1, <2>2, <2>3, <2>4 DEF LoopHas, first
    <2>. QED
      BY <1>1, <2>5
  <1>3. ASSUME NEW n \in 1..N, n - 1 \in S
        PROVE  n \in S
    BY <1>1, <1>3, LoopStep
  <1>4. LoopHas(list, N)
    <2>1. 0..N \subseteq S
      <3>. HIDE DEF S, N
      <3>. QED
        BY <1>1, <1>2, <1>3, UpTo
    <2>. QED
      BY <1>1, <2>1
  <1>5. relays \in Seq(RelayUrls) /\ Len(relays) \in Nat /\ DOMAIN relays = 1..Len(relays)
    BY <1>4, LenProperties DEF LoopHas
  <1>6. RankOf(list, N) \in Nat /\ MAX_RELAYS \in Nat
    BY <1>1, Ranks, RelayAssumption
  <1>7. \A i \in first : RankOf(list, i) \in Nat /\ RankOf(list, i) >= 1
    BY RankPositive
  <1>8. \A i \in first : i <= N /\ RankOf(list, i) <= RankOf(list, N)
    BY <1>1, Ranks
  <1>. QED
    BY <1>4, <1>5, <1>6, <1>7, <1>8 DEF LoopHas

\* zap_request_relays yields the first MAX_RELAYS public relays of the list, in
\* the order they are listed in.
LEMMA RelaysAreFirst ==
  ASSUME NEW request, relays_tag(request) \in Seq(RelayTexts)
  PROVE  LET relays == zap_request_relays(request)
         IN  {<<k, relays[k]>> : k \in DOMAIN relays} = RelaysOf(relays_tag(request))
  <1>. DEFINE list == relays_tag(request)
              relays == Loop(list)[Len(list)]
              first == FirstListed(list)
  <1>1. zap_request_relays(request) = relays
    BY LenProperties, LoopEnds
  <1>2. /\ DOMAIN relays = 1..Len(relays)
        /\ Len(relays) \in Nat
        /\ Len(relays) <= MAX_RELAYS
        /\ \A i \in first : RankOf(list, i) <= MAX_RELAYS =>
             RankOf(list, i) \in 1..Len(relays) /\ relays[RankOf(list, i)] = UrlOf(list[i])
        /\ \A k \in 1..Len(relays) : \E i \in first :
             RankOf(list, i) = k /\ relays[k] = UrlOf(list[i])
    BY RelaysByRank
  <1>3. RelaysOf(list) = {<<RankOf(list, i), UrlOf(list[i])>> :
                            i \in {j \in first : RankOf(list, j) <= MAX_RELAYS}}
    BY DEF RelaysOf, RankOf, UrlOf
  <1>. HIDE DEF list, relays, first
  <1>4. ASSUME NEW k \in DOMAIN relays
        PROVE  <<k, relays[k]>> \in RelaysOf(list)
    <2>1. PICK i \in first : RankOf(list, i) = k /\ relays[k] = UrlOf(list[i])
      BY <1>2
    <2>2. RankOf(list, i) <= MAX_RELAYS
      BY <1>2, <2>1, RelayAssumption
    <2>. QED
      BY <1>3, <2>1, <2>2
  <1>5. ASSUME NEW i \in first, RankOf(list, i) <= MAX_RELAYS
        PROVE  <<RankOf(list, i), UrlOf(list[i])>> \in {<<k, relays[k]>> : k \in DOMAIN relays}
    BY <1>2, <1>5
  <1>6. {<<k, relays[k]>> : k \in DOMAIN relays} = RelaysOf(list)
    BY <1>3, <1>4, <1>5
  <1>. QED
    BY <1>1, <1>6 DEF list

\* They are public, no more than the limit, and each is there once.
LEMMA RelaysAreOnce ==
  ASSUME NEW request, relays_tag(request) \in Seq(RelayTexts)
  PROVE  LET relays == zap_request_relays(request)
         IN  /\ Len(relays) <= MAX_RELAYS
             /\ \A k \in DOMAIN relays : relays[k] \in Public
             /\ \A k, l \in DOMAIN relays : relays[k] = relays[l] => k = l
  <1>. DEFINE list == relays_tag(request)
              relays == Loop(list)[Len(list)]
  <1>1. zap_request_relays(request) = relays
    BY LenProperties, LoopEnds
  <1>2. /\ DOMAIN relays = 1..Len(relays)
        /\ Len(relays) <= MAX_RELAYS
        /\ \A k \in 1..Len(relays) : \E i \in FirstListed(list) :
             RankOf(list, i) = k /\ relays[k] = UrlOf(list[i])
    BY RelaysByRank
  <1>3. ASSUME NEW i \in FirstListed(list)
        PROVE  /\ i \in Nat
               /\ RelayUrl[list[i]] = {UrlOf(list[i])}
               /\ UrlOf(list[i]) \in Public
               /\ \A j \in FirstListed(list) : j < i => RelayUrl[list[j]] # RelayUrl[list[i]]
    <2>1. i \in 1..Len(list) /\ Len(list) \in Nat /\ list[i] \in RelayTexts
      BY LenProperties, ElementOfSeq DEF FirstListed
    <2>2. /\ RelayUrl[list[i]] \cap Public # {}
          /\ \A j \in 1..(i - 1) : RelayUrl[list[j]] # RelayUrl[list[i]]
      BY DEF FirstListed
    <2>3. FirstListed(list) \subseteq 1..Len(list)
      BY LenProperties DEF FirstListed
    <2>. HIDE DEF list
    <2>. QED
      BY <2>1, <2>2, <2>3, UrlsAreUnique
  <1>. HIDE DEF list, relays
  <1>4. ASSUME NEW i \in FirstListed(list), NEW j \in FirstListed(list),
               UrlOf(list[i]) = UrlOf(list[j])
        PROVE  i = j
    <2>1. RelayUrl[list[i]] = RelayUrl[list[j]]
      BY <1>3, <1>4
    <2>2. i \in Nat /\ j \in Nat /\ ~ i < j /\ ~ j < i
      BY <1>3, <2>1
    <2>. QED
      BY <2>2
  <1>. QED
    BY <1>1, <1>2, <1>3, <1>4

------------------------------------------------------------------------------
(* Resolution.                                                              *)

\* A name is in normal form, is no address, and is what its spellings stand for.
LEMMA NamesAreTexts ==
  ASSUME NEW n \in Names
  PROVE  /\ n \in Seq(NameCharacters)
         /\ parse_receive_address(n) = {}
         /\ normalize_custom_address_name(n) = {n}
         /\ \A other : lowercase(trim(other)) = n =>
              normalize_custom_address_name(other) = {n}
  <1>1. PICK text \in Texts : n \in normalize_custom_address_name(text)
    BY DEF Names, NameOf
  <1>2. text \in Seq(Characters)
    BY TextsAssumption
  <1>. QED
    BY <1>1, <1>2, NameIsNormal

\* The name a text stands for is one of Names.
LEMMA NameOfText ==
  ASSUME NEW text \in Texts, NEW n \in normalize_custom_address_name(text)
  PROVE  n \in Names /\ normalize_custom_address_name(text) = {n}
  <1>1. text \in Seq(Characters)
    BY TextsAssumption
  <1>. QED
    BY <1>1, NameIsNormal DEF Names, NameOf

\* The table of targets is that of active names.
LEMMA TargetsAre ==
  /\ DOMAIN Targets = {n \in Names : owned[n] # None}
  /\ \A n \in DOMAIN Targets : Targets[n] = owned[n]
  BY DEF Targets

\* What a text resolves to: an address that it spells, or the target of a name.
LEMMA Resolution ==
  ASSUME NEW text, NEW r
  PROVE  r \in Resolve(text) <=>
           \/ \E x \in parse_receive_address(text) :
                /\ r = [address |-> x, identifier |-> x.text]
                /\ validate_network(x, config) /\ validate_enabled(x, config)
           \/ /\ parse_receive_address(text) = {}
              /\ \E n \in normalize_custom_address_name(text) :
                   /\ n \in Names /\ owned[n] # None
                   /\ r = [address |-> owned[n], identifier |-> n]
                   /\ validate_network(owned[n], config)
  BY TargetsAre DEF Resolve, resolve_receive_address

\* What a text resolves to is an address, called by a text.
LEMMA ResolvedType ==
  ASSUME TypeOK, NEW text \in Seq(Characters), NEW r \in Resolve(text)
  PROVE  r.address \in ReceiveAddress /\ r.identifier \in Seq(Characters)
  <1>1. CASE \E x \in parse_receive_address(text) :
               r = [address |-> x, identifier |-> x.text]
    <2>1. PICK x \in ReceiveAddress : r = [address |-> x, identifier |-> x.text]
      BY <1>1 DEF parse_receive_address
    <2>. QED
      BY <2>1, AddressText, Classes, SeqMonotonic
  <1>2. CASE \E n \in Names : /\ owned[n] # None
                              /\ r = [address |-> owned[n], identifier |-> n]
    <2>1. PICK n \in Names : /\ owned[n] # None
                             /\ r = [address |-> owned[n], identifier |-> n]
      BY <1>2
    <2>2. owned[n] \in ReceiveAddress
      BY <2>1 DEF TypeOK, BarkAddresses
    <2>3. n \in Seq(Characters)
      BY NamesAreTexts, Classes, SeqMonotonic
    <2>. QED
      BY <2>1, <2>2, <2>3
  <1>. QED
    BY <1>1, <1>2, Resolution

\* At most one address.
LEMMA ResolvedOnce ==
  ASSUME NEW text \in Seq(Characters), NEW r \in Resolve(text)
  PROVE  Resolve(text) = {r}
  <1>. SUFFICES ASSUME NEW q \in Resolve(text)
                PROVE  q = r
    OBVIOUS
  <1>1. CASE parse_receive_address(text) = {}
    <2>1. \A n, m \in normalize_custom_address_name(text) : n = m
      BY DEF normalize_custom_address_name
    <2>. QED
      BY <1>1, <2>1, Resolution
  <1>2. CASE parse_receive_address(text) # {}
    BY <1>2, ParseUnique, Resolution
  <1>. QED
    BY <1>1, <1>2

\* What an address or a name resolves to is what its identifier resolves to.
LEMMA IdentifierResolves ==
  ASSUME NEW text \in Texts, NEW r \in Resolve(text)
  PROVE  r \in Resolve(r.identifier)
  <1>1. CASE \E x \in parse_receive_address(text) :
               /\ r = [address |-> x, identifier |-> x.text]
               /\ validate_network(x, config) /\ validate_enabled(x, config)
    <2>1. PICK x \in ReceiveAddress :
               /\ r = [address |-> x, identifier |-> x.text]
               /\ validate_network(x, config) /\ validate_enabled(x, config)
      BY <1>1 DEF parse_receive_address
    <2>2. x \in parse_receive_address(x.text) /\ r.identifier = x.text
      BY <2>1, ParseCanonical
    <2>. QED
      BY <2>1, <2>2, Resolution
  <1>2. CASE \E n \in normalize_custom_address_name(text) :
               /\ n \in Names /\ owned[n] # None
               /\ r = [address |-> owned[n], identifier |-> n]
               /\ validate_network(owned[n], config)
    <2>1. PICK n \in Names :
               /\ owned[n] # None
               /\ r = [address |-> owned[n], identifier |-> n]
               /\ validate_network(owned[n], config)
      BY <1>2
    <2>2. /\ parse_receive_address(n) = {} /\ r.identifier = n
          /\ n \in normalize_custom_address_name(n)
      BY <2>1, NamesAreTexts
    <2>. QED
      BY <2>1, <2>2, Resolution
  <1>. QED
    BY <1>1, <1>2, Resolution

------------------------------------------------------------------------------
(* The sale of names.                                                       *)

\* Names are not sold twice.
LEMMA NamesStay ==
  ASSUME TypeOK, [Next]_vars
  PROVE  \A n \in Names : owned[n] # None => owned'[n] = owned[n]
  <1>1. CASE UNCHANGED owned
    BY <1>1
  <1>2. CASE Sell
    BY <1>2 DEF Sell, Registry!Pay, Registry!Release, Registry!Activate, TypeOK
  <1>3. CASE Next /\ ~Sell
    <2>1. UNCHANGED owned
      BY <1>3 DEF Next, Sign, Reserve, Registry!Reserve, get_lnurl_pay, Verify,
        get_invoice, Resolves, VerifyAnswers, VerifyFails, Restart, sale
    <2>. QED
      BY <2>1
  <1>. QED
    BY <1>1, <1>2, <1>3 DEF vars, sale

\* What a text resolves to stays while the service runs.
LEMMA ResolvedStays ==
  ASSUME TypeOK, [Next]_vars, config' = config, NEW text, NEW r \in Resolve(text)
  PROVE  r \in Resolve(text)'
  <1>1. CASE \E x \in parse_receive_address(text) :
                /\ r = [address |-> x, identifier |-> x.text]
                /\ validate_network(x, config) /\ validate_enabled(x, config)
    <2>1. parse_receive_address(text) # {}
      BY <1>1
    <2>. QED
      BY <1>1, <2>1 DEF Resolve, resolve_receive_address
  <1>2. CASE /\ parse_receive_address(text) = {}
             /\ \E n \in normalize_custom_address_name(text) :
                  /\ n \in Names /\ owned[n] # None
                  /\ r = [address |-> owned[n], identifier |-> n]
                  /\ validate_network(owned[n], config)
    <2>1. PICK n \in normalize_custom_address_name(text) :
                  /\ n \in Names /\ owned[n] # None
                  /\ r = [address |-> owned[n], identifier |-> n]
                  /\ validate_network(owned[n], config)
      BY <1>2
    <2>2. owned'[n] = owned[n]
      BY <2>1, NamesStay
    <2>3. n \in DOMAIN Targets' /\ Targets'[n] = owned[n]
      BY <2>1, <2>2 DEF Targets
    <2>. QED
      BY <1>2, <2>1, <2>3 DEF Resolve, resolve_receive_address
  <1>. QED
    BY <1>1, <1>2, Resolution

\* A step of a sale keeps the names signed for, and is nothing to the payer.
LEMMA SaleKeeps ==
  ASSUME TypeOK, NamesAreSigned, Next, ~ UNCHANGED sale
  PROVE  /\ owned' \in [Names -> BarkAddresses \cup {None}]
         /\ reserved' \in [Names -> SUBSET Registry!Holders]
         /\ paid' \subseteq Purchases
         /\ \A s \in signed' : s.signer \in BarkAddresses
         /\ NamesAreSigned'
         /\ UNCHANGED <<config, payer>>
  <1>. USE DEF TypeOK, NamesAreSigned
  <1>1. ASSUME NEW n_text \in Texts, NEW x_text \in Texts, Sign(n_text, x_text)
        PROVE  /\ UNCHANGED <<config, owned, reserved, paid, payer>>
               /\ signed \subseteq signed'
               /\ \A s \in signed' : s.signer \in BarkAddresses
    BY <1>1 DEF Sign, validate_custom_target_address, parse_receive_address, BarkAddresses
  <1>2. CASE \E n, x \in Texts : Sign(n, x)
    BY <1>1, <1>2
  <1>3. CASE \E n, x \in Texts : Reserve(n, x)
    <2>1. PICK n_text \in Texts, x_text \in Texts : Reserve(n_text, x_text)
      BY <1>3
    <2>2. PICK n \in NameOf[n_text],
               x \in validate_custom_target_address(x_text, config),
               p \in Purchases :
            /\ verify_address_message(x, custom_address_signature_message(Domain, n, x))
            /\ Registry!Reserve(n, [purchase |-> p, owner |-> x])
      BY <2>1 DEF Reserve
    <2>3. n \in Names /\ x \in BarkAddresses
      BY NameOfText DEF NameOf, Names, validate_custom_target_address, parse_receive_address,
        BarkAddresses
    <2>4. [purchase |-> p, owner |-> x] \in Registry!Holders
      BY <2>3 DEF Registry!Holders
    <2>5. /\ UNCHANGED <<config, signed, payer, owned, paid>>
          /\ reserved' = [reserved EXCEPT ![n] = {[purchase |-> p, owner |-> x]}]
      BY <2>1, <2>2 DEF Reserve, Registry!Reserve
    <2>6. [signer |-> x, message |-> [domain |-> Domain, name |-> n, address |-> x.text]]
            \in signed
      BY <2>2 DEF verify_address_message, custom_address_signature_message
    <2>. QED
      BY <2>3, <2>4, <2>5, <2>6
  <1>4. CASE Sell
    <2>1. CASE \E p \in Purchases : Registry!Pay(p)
      BY <1>4, <2>1 DEF Sell, Registry!Pay
    <2>2. CASE \E n \in Names : Registry!Release(n)
      BY <1>4, <2>2 DEF Sell, Registry!Release
    <2>3. CASE \E n \in Names : \E h \in reserved[n] : Registry!Activate(n, h)
      <3>1. PICK n \in Names : \E h \in reserved[n] : Registry!Activate(n, h)
        BY <2>3
      <3>2. PICK h \in reserved[n] : Registry!Activate(n, h)
        BY <3>1
      <3>3. h \in Registry!Holders /\ h.owner \in BarkAddresses
        BY DEF Registry!Holders
      <3>. QED
        BY <1>4, <3>2, <3>3 DEF Sell, Registry!Activate
    <2>. QED
      BY <1>4, <2>1, <2>2, <2>3 DEF Sell
  <1>. QED
    BY <1>2, <1>3, <1>4 DEF Next, get_lnurl_pay, Verify, get_invoice, Resolves,
      VerifyAnswers, VerifyFails, Restart

------------------------------------------------------------------------------
(* The payer.                                                               *)

\* The least amount is a number.
LEMMA MinimumType ==
  ASSUME NEW c \in Configs, NEW address
  PROVE  min_sendable_msats(address, c) \in Nat
  <1>1. c.min_sendable \in Nat /\ ARKADE_MIN_SENDABLE_MSATS \in Nat
    BY ConfigsAssumption, AddressAssumption
  <1>2. Max({c.min_sendable, ARKADE_MIN_SENDABLE_MSATS}) \in Nat
    BY <1>1 DEF Max
  <1>. QED
    BY <1>1, <1>2 DEF min_sendable_msats

\* The offer for an address is one that its callback keeps.
LEMMA OfferMade ==
  ASSUME IInv, NEW text \in Texts, get_lnurl_pay(text)
  PROVE  IInv'
  <1>. USE DEF IInv
  <1>1. /\ UNCHANGED <<config, sale, invoice, verifying, answer>>
        /\ \E r \in Resolve(text) :
             offer' = {[callback |-> r.identifier,
                  metadata |-> r.identifier,
                  address |-> r.address,
                  min_sendable |-> min_sendable_msats(r.address, config),
                  max_sendable |-> config.max_sendable]}
    BY DEF get_lnurl_pay
  <1>2. PICK r \in Resolve(text) :
             offer' = {[callback |-> r.identifier,
                  metadata |-> r.identifier,
                  address |-> r.address,
                  min_sendable |-> min_sendable_msats(r.address, config),
                  max_sendable |-> config.max_sendable]}
    BY <1>1
  <1>3. r.address \in ReceiveAddress /\ r.identifier \in Seq(Characters)
    BY ResolvedType, TextsAssumption
  <1>4. min_sendable_msats(r.address, config) \in Nat /\ config.max_sendable \in Nat
    BY MinimumType, ConfigsAssumption DEF TypeOK
  <1>5. offer' \subseteq Offers
    BY <1>2, <1>3, <1>4 DEF Offers
  <1>6. TypeOK'
    BY <1>1, <1>5 DEF TypeOK, sale
  <1>7. r \in Resolve(r.identifier)'
    <2>1. UNCHANGED <<config, owned>>
      BY <1>1 DEF sale
    <2>2. Resolve(r.identifier)' = Resolve(r.identifier)
      BY <2>1 DEF Resolve, Targets
    <2>. QED
      BY <2>2, IdentifierResolves
  <1>8. OfferHonoured'
    <2>1. \A amount : Accepts(r, amount, {})' <=>
            /\ amount \in min_sendable_msats(r.address, config)..config.max_sendable
            /\ amount % Sat = 0
      BY <1>1 DEF Accepts, validate_amount_msats
    <2>. QED
      BY <1>2, <1>7, <2>1 DEF OfferHonoured
  <1>9. NamesAreSigned' /\ OneInvoice' /\ ZapsValidated' /\ UrlsKnown' /\ AnswersTrue'
    BY <1>1 DEF sale, NamesAreSigned, OneInvoice, ZapsValidated, UrlsKnown, AnswersTrue
  <1>. QED
    BY <1>6, <1>8, <1>9

\* An invoice is for what its address or name resolves to.
LEMMA InvoiceMade ==
  ASSUME IInv, NEW text \in Texts, NEW amount \in Amounts, NEW zap \in SUBSET Requests,
         get_invoice(text, amount, zap)
  PROVE  IInv'
  <1>. USE DEF IInv
  <1>1. /\ invoice = {} /\ offer' = {}
        /\ UNCHANGED <<config, sale, verifying, answer>>
        /\ \E r \in Resolve(text) :
             invoice' = {[verify |-> text, address |-> r.address, amount_msats |-> amount,
                          zap |-> zap, state |-> "pending"]}
    BY DEF get_invoice
  <1>2. PICK r \in Resolve(text) :
             invoice' = {[verify |-> text, address |-> r.address, amount_msats |-> amount,
                          zap |-> zap, state |-> "pending"]}
    BY <1>1
  <1>3. r.address \in ReceiveAddress
    BY ResolvedType, TextsAssumption
  <1>4. TypeOK'
    <2>1. [verify |-> text, address |-> r.address, amount_msats |-> amount,
           zap |-> zap, state |-> "pending"] \in Invoices
      BY <1>3 DEF Invoices
    <2>2. invoice' \subseteq Invoices
      BY <1>2, <2>1
    <2>. QED
      BY <1>1, <2>2 DEF TypeOK, sale
  <1>5. UrlsKnown'
    <2>1. \/ parse_receive_address(text) = {r.address}
          \/ /\ parse_receive_address(text) = {}
             /\ \E n \in NameOf[text] : owned[n] # None /\ owned[n] = r.address
      <3>1. \A x \in parse_receive_address(text) : parse_receive_address(text) = {x}
        BY ParseUnique
      <3>. QED
        BY <3>1, Resolution DEF NameOf
    <2>. QED
      BY <1>1, <1>2, <2>1 DEF UrlsKnown, sale
  <1>6. OneInvoice' /\ AnswersTrue'
    BY <1>1, <1>2 DEF OneInvoice, AnswersTrue
  <1>7. NamesAreSigned' /\ OfferHonoured'
    BY <1>1 DEF sale, NamesAreSigned, OfferHonoured
  <1>8. ZapsValidated'
    BY <1>2 DEF get_invoice, Accepts, ZapsValidated
  <1>. QED
    BY <1>4, <1>5, <1>6, <1>7, <1>8

\* A settlement or an expiry changes the state of the invoice only.
LEMMA InvoiceResolves ==
  ASSUME IInv, NEW s \in {"settled", "cancelled"}, Resolves(s)
  PROVE  IInv'
  <1>. USE DEF IInv
  <1>1. UNCHANGED <<config, sale, offer, verifying, answer>>
    BY DEF Resolves
  <1>2. PICK i \in invoice : i.state = "pending" /\ invoice' = {[i EXCEPT !.state = s]}
    BY DEF Resolves
  <1>3. i \in Invoices
    BY DEF TypeOK
  <1>. DEFINE j == [i EXCEPT !.state = s]
  <1>4. /\ j \in Invoices
        /\ j.verify = i.verify /\ j.address = i.address /\ j.state = s
        /\ j.zap = i.zap /\ j.amount_msats = i.amount_msats
    BY <1>3 DEF Invoices
  <1>5. invoice' = {j}
    BY <1>2
  <1>. HIDE DEF j
  <1>6. TypeOK'
    BY <1>1, <1>4, <1>5 DEF TypeOK, sale
  <1>7. OneInvoice' /\ AnswersTrue'
    BY <1>1, <1>2, <1>4, <1>5 DEF OneInvoice, AnswersTrue
  <1>8. UrlsKnown' /\ ZapsValidated'
    BY <1>1, <1>2, <1>4, <1>5 DEF UrlsKnown, ZapsValidated, sale
  <1>9. NamesAreSigned'
    BY <1>1 DEF NamesAreSigned, sale
  <1>10. OfferHonoured'
    BY <1>1 DEF OfferHonoured, sale, Resolve, Targets, Accepts
  <1>. QED
    BY <1>6, <1>7, <1>8, <1>9, <1>10

\* Any answer is about the one invoice, as it is.
LEMMA Answered ==
  ASSUME IInv, NEW i \in invoice, NEW address \in ReceiveAddress, Answer(i, address),
         UNCHANGED invoice
  PROVE  /\ answer' \subseteq [asked : ReceiveAddress, found : BOOLEAN, settled : BOOLEAN]
         /\ OneInvoice' /\ AnswersTrue'
         /\ \A told \in answer' : \A k \in invoice :
              told.found => (told.settled <=> k.state = "settled")
  <1>1. \A k \in invoice : k = i
    BY DEF IInv, OneInvoice
  <1>2. PICK found \in BOOLEAN, settled \in BOOLEAN :
          /\ answer' = {[asked |-> address, found |-> found, settled |-> settled]}
          /\ found <=> i.address = address
          /\ settled <=> i.address = address /\ i.state = "settled"
    BY DEF Answer
  <1>3. ASSUME NEW told \in answer'
        PROVE  /\ told \in [asked : ReceiveAddress, found : BOOLEAN, settled : BOOLEAN]
               /\ told.asked = address
               /\ told.found <=> i.address = address
               /\ told.settled <=> i.address = address /\ i.state = "settled"
    <2>1. told = [asked |-> address, found |-> found, settled |-> settled]
      BY <1>2, <1>3
    <2>. QED
      BY <1>2, <2>1
  <1>4. answer' \subseteq [asked : ReceiveAddress, found : BOOLEAN, settled : BOOLEAN]
    BY <1>3
  <1>5. AnswersTrue'
    BY <1>1, <1>3 DEF AnswersTrue
  <1>6. OneInvoice'
    BY <1>1, <1>2 DEF OneInvoice
  <1>7. \A told \in answer' : \A k \in invoice :
          told.found => (told.settled <=> k.state = "settled")
    BY <1>1, <1>3
  <1>. QED
    BY <1>4, <1>5, <1>6, <1>7

\* The verify handler changes nothing but what the payer is told.
LEMMA Verified ==
  ASSUME IInv,
         \/ \E text \in Texts : Verify(text)
         \/ VerifyAnswers
         \/ VerifyFails
  PROVE  IInv'
  <1>. USE DEF IInv
  <1>1. UNCHANGED <<config, sale, offer, invoice>>
    BY DEF Verify, VerifyAnswers, VerifyFails
  <1>2. /\ verifying' \subseteq ReceiveAddress
        /\ \/ UNCHANGED answer
           \/ \E i \in invoice, address \in ReceiveAddress : Answer(i, address)
    <2>1. CASE \E text \in Texts : Verify(text)
      <3>1. PICK text \in Texts : Verify(text)
        BY <2>1
      <3>2. \A r \in Resolve(text) : r.address \in ReceiveAddress
        BY ResolvedType, TextsAssumption
      <3>. QED
        BY <3>1, <3>2 DEF Verify, TypeOK
    <2>2. CASE VerifyAnswers \/ VerifyFails
      BY <2>2 DEF VerifyAnswers, VerifyFails, TypeOK
    <2>. QED
      BY <2>1, <2>2
  <1>3. /\ answer' \subseteq [asked : ReceiveAddress, found : BOOLEAN, settled : BOOLEAN]
        /\ OneInvoice' /\ AnswersTrue'
    <2>1. CASE UNCHANGED answer
      BY <1>1, <2>1 DEF TypeOK, OneInvoice, AnswersTrue
    <2>. QED
      BY <1>1, <1>2, <2>1, Answered
  <1>4. TypeOK'
    BY <1>1, <1>2, <1>3 DEF TypeOK, sale
  <1>5. NamesAreSigned' /\ ZapsValidated' /\ UrlsKnown'
    BY <1>1 DEF NamesAreSigned, ZapsValidated, UrlsKnown, sale
  <1>6. OfferHonoured'
    BY <1>1 DEF OfferHonoured, sale, Resolve, Targets, Accepts
  <1>. QED
    BY <1>3, <1>4, <1>5, <1>6

\* A restart with another configuration forgets the offers of the old one.
LEMMA Restarted ==
  ASSUME IInv, Restart
  PROVE  IInv'
  <1>. USE DEF IInv
  <1>1. /\ config' \in Configs /\ verifying' = {}
        /\ offer' = IF config' = config THEN offer ELSE {}
        /\ UNCHANGED <<sale, invoice, answer>>
    BY DEF Restart
  <1>2. /\ TypeOK' /\ NamesAreSigned' /\ OneInvoice'
        /\ ZapsValidated' /\ UrlsKnown' /\ AnswersTrue'
    BY <1>1 DEF TypeOK, NamesAreSigned, OneInvoice, ZapsValidated, UrlsKnown, AnswersTrue, sale
  <1>3. OfferHonoured'
    <2>1. CASE config' = config
      BY <1>1, <2>1 DEF OfferHonoured, sale, Resolve, Targets, Accepts
    <2>2. CASE config' # config
      BY <1>1, <2>2 DEF OfferHonoured
    <2>. QED
      BY <2>1, <2>2
  <1>. QED
    BY <1>2, <1>3

\* Sales leave the payer's invoice and offer as they are.
LEMMA Sold ==
  ASSUME IInv, Next, ~ UNCHANGED sale
  PROVE  IInv'
  <1>. USE DEF IInv
  <1>1. /\ owned' \in [Names -> BarkAddresses \cup {None}]
        /\ reserved' \in [Names -> SUBSET Registry!Holders]
        /\ paid' \subseteq Purchases
        /\ \A s \in signed' : s.signer \in BarkAddresses
        /\ NamesAreSigned'
        /\ UNCHANGED <<config, payer>>
    BY SaleKeeps
  <1>2. TypeOK' /\ OneInvoice' /\ ZapsValidated' /\ AnswersTrue'
    BY <1>1 DEF TypeOK, OneInvoice, ZapsValidated, AnswersTrue, payer
  <1>3. UrlsKnown'
    <2>1. \A i \in invoice : \A n \in NameOf[i.verify] :
            owned[n] # None => owned'[n] = owned[n]
      <3>1. \A i \in invoice : i.verify \in Texts
        BY DEF TypeOK, Invoices
      <3>2. \A i \in invoice : NameOf[i.verify] \subseteq Names
        BY <3>1 DEF Names
      <3>. QED
        BY <3>2, NamesStay
    <2>. QED
      BY <1>1, <2>1 DEF UrlsKnown, payer
  <1>4. OfferHonoured'
    <2>1. \A o \in offer : \A r \in Resolve(o.callback) : r \in Resolve(o.callback)'
      BY <1>1, ResolvedStays
    <2>2. \A r, amount : Accepts(r, amount, {})' <=> Accepts(r, amount, {})
      BY <1>1 DEF Accepts
    <2>3. offer' = offer
      BY <1>1 DEF payer
    <2>. QED
      BY <2>1, <2>2, <2>3 DEF OfferHonoured
  <1>. QED
    BY <1>1, <1>2, <1>3, <1>4

------------------------------------------------------------------------------
(* The theorems.                                                            *)

\* The service starts without names, offers and invoices.
LEMMA InitHolds == Init => IInv
  <1>. SUFFICES ASSUME Init PROVE IInv
    OBVIOUS
  <1>. USE DEF Init, Registry!Init
  <1>1. TypeOK
    BY DEF TypeOK
  <1>2. NamesAreSigned
    BY DEF NamesAreSigned
  <1>3. OfferHonoured /\ OneInvoice /\ ZapsValidated /\ UrlsKnown /\ AnswersTrue
    BY DEF OfferHonoured, OneInvoice, ZapsValidated, UrlsKnown, AnswersTrue
  <1>. QED
    BY <1>1, <1>2, <1>3 DEF IInv

\* Every step keeps the invariant.
LEMMA NextKeeps == IInv /\ [Next]_vars => IInv'
  <1>. SUFFICES ASSUME IInv, [Next]_vars PROVE IInv'
    OBVIOUS
  <1>1. CASE UNCHANGED vars
    <2>1. /\ TypeOK' /\ NamesAreSigned' /\ OneInvoice'
          /\ ZapsValidated' /\ UrlsKnown' /\ AnswersTrue'
      BY <1>1 DEF vars, sale, payer, IInv, TypeOK, NamesAreSigned, OneInvoice, ZapsValidated,
        UrlsKnown, AnswersTrue
    <2>2. OfferHonoured'
      BY <1>1 DEF vars, sale, payer, IInv, OfferHonoured, Resolve, Targets, Accepts
    <2>. QED
      BY <2>1, <2>2 DEF IInv
  <1>2. CASE Next /\ ~ UNCHANGED sale
    BY <1>2, Sold
  <1>3. CASE Next /\ UNCHANGED sale
    <2>1. CASE \E n, x \in Texts : Sign(n, x) \/ Reserve(n, x)
      BY <1>1, <1>3, <2>1 DEF Sign, Reserve, vars
    <2>2. CASE Sell
      BY <1>1, <1>3, <2>2 DEF Sell, sale, vars
    <2>3. CASE \E text \in Texts : get_lnurl_pay(text)
      BY <2>3, OfferMade
    <2>4. CASE \E text \in Texts, amount \in Amounts, zap \in SUBSET Requests :
                 get_invoice(text, amount, zap)
      BY <2>4, InvoiceMade
    <2>5. CASE \/ \E text \in Texts : Verify(text)
               \/ VerifyAnswers
               \/ VerifyFails
      BY <2>5, Verified
    <2>6. CASE \E s \in {"settled", "cancelled"} : Resolves(s)
      BY <2>6, InvoiceResolves
    <2>7. CASE Restart
      BY <2>7, Restarted
    <2>8. Next => \/ \E n, x \in Texts : Sign(n, x) \/ Reserve(n, x)
                  \/ Sell
                  \/ \E text \in Texts : get_lnurl_pay(text)
                  \/ \E text \in Texts, amount \in Amounts, zap \in SUBSET Requests :
                       get_invoice(text, amount, zap)
                  \/ \E text \in Texts : Verify(text)
                  \/ VerifyAnswers
                  \/ VerifyFails
                  \/ \E s \in {"settled", "cancelled"} : Resolves(s)
                  \/ Restart
      BY DEF Next
    <2>. QED
      BY <1>3, <2>1, <2>2, <2>3, <2>4, <2>5, <2>6, <2>7, <2>8
  <1>. QED
    BY <1>1, <1>2, <1>3

\* The inductive invariant, which holds the types of all variables and that
\* offers are kept, names are signed for and answers are true.
THEOREM Inductive == Spec => []IInv
  BY InitHolds, NextKeeps, PTL DEF Spec

\* The service keeps what it offers (get_lnurl_pay, get_invoice): for any sales
\* in between, the callback takes what was offered for the same address.
THEOREM OffersAreKept == Spec => []OfferHonoured
  <1>1. IInv => OfferHonoured
    BY DEF IInv
  <1>. QED
    BY <1>1, Inductive, PTL

\* No name is sold for an address without its owner's signature of that name
\* and this service (verify_address_message).
THEOREM SalesAreSigned == Spec => []NamesAreSigned
  <1>1. IInv => NamesAreSigned
    BY DEF IInv
  <1>. QED
    BY <1>1, Inductive, PTL

\* The verify handler reports a settlement only of an invoice that is settled,
\* to those who ask for its address.
THEOREM AnswersAreTrue == Spec => []AnswersTrue
  <1>1. IInv => AnswersTrue
    BY DEF IInv
  <1>. QED
    BY <1>1, Inductive, PTL

\* The answer of the verify handler is what the row says at that moment, not
\* what it said before the refresh.
THEOREM AnswersAreFresh == Spec => AnswersFresh
  <1>. DEFINE A == \A told \in answer' : \A i \in invoice :
                     answer' # answer /\ told.found
                       => (told.settled <=> i.state = "settled")
  <1>1. IInv /\ [Next]_vars => [A]_vars
    <2>. SUFFICES ASSUME IInv, Next, answer' # answer
                  PROVE  A
      BY DEF vars, payer
    <2>1. CASE \E text \in Texts : Verify(text)
      <3>1. PICK text \in Texts : Verify(text)
        BY <2>1
      <3>2. \A r \in Resolve(text) : r.address \in ReceiveAddress
        BY ResolvedType, TextsAssumption DEF IInv
      <3>3. PICK i \in invoice, address \in ReceiveAddress :
              Answer(i, address) /\ UNCHANGED invoice
        BY <3>1, <3>2 DEF Verify
      <3>. QED
        BY <3>3, Answered
    <2>2. CASE VerifyAnswers
      <3>1. PICK address \in ReceiveAddress, i \in invoice :
              Answer(i, address) /\ UNCHANGED invoice
        BY <2>2 DEF VerifyAnswers, IInv, TypeOK
      <3>. QED
        BY <3>1, Answered
    <2>3. \/ \E text \in Texts : Verify(text)
          \/ VerifyAnswers
      BY DEF Next, Sign, Reserve, Sell, get_lnurl_pay, get_invoice, Resolves, VerifyFails,
        Restart, payer
    <2>. QED
      BY <2>1, <2>2, <2>3
  <1>. QED
    BY <1>1, Inductive, PTL DEF Spec, AnswersFresh

\* A verify URL is about its invoice for ever: sales and restarts change nothing
\* (resolve_receive_address; an address is never looked up as a name).
THEOREM UrlsAreStable == Spec => []VerifyUrlStable
  <1>1. IInv => VerifyUrlStable
    <2>. SUFFICES ASSUME IInv, NEW i \in invoice, NEW c \in Configs
                  PROVE  {r.address : r \in resolve_receive_address(i.verify, c, Targets)} =
                           IF validate_network(i.address, c) /\ validate_enabled(i.address, c)
                             THEN {i.address} ELSE {}
      BY DEF VerifyUrlStable
    <2>. DEFINE found == resolve_receive_address(i.verify, c, Targets)
    <2>1. i.verify \in Texts
      BY DEF IInv, TypeOK, Invoices
    <2>2. CASE parse_receive_address(i.verify) = {i.address}
      <3>1. found = IF validate_network(i.address, c) /\ validate_enabled(i.address, c)
                      THEN {[address |-> i.address, identifier |-> i.address.text]} ELSE {}
        BY <2>2 DEF resolve_receive_address
      <3>2. CASE validate_network(i.address, c) /\ validate_enabled(i.address, c)
        BY <3>1, <3>2
      <3>3. CASE ~ (validate_network(i.address, c) /\ validate_enabled(i.address, c))
        BY <3>1, <3>3
      <3>. QED
        BY <3>2, <3>3
    <2>3. CASE /\ parse_receive_address(i.verify) = {}
               /\ \E n \in NameOf[i.verify] : owned[n] # None /\ owned[n] = i.address
      <3>1. PICK n \in normalize_custom_address_name(i.verify) :
                   owned[n] # None /\ owned[n] = i.address
        BY <2>1, <2>3 DEF NameOf
      <3>2. n \in Names /\ normalize_custom_address_name(i.verify) = {n}
        BY <2>1, NameOfText
      <3>3. n \in DOMAIN Targets /\ Targets[n] = i.address
        BY <3>1, <3>2 DEF Targets
      <3>4. i.address.kind = "bark"
        BY <3>1, <3>2 DEF IInv, TypeOK, BarkAddresses
      <3>5. validate_enabled(i.address, c)
        BY <3>4 DEF validate_enabled
      <3>6. found = IF validate_network(i.address, c)
                      THEN {[address |-> i.address, identifier |-> n]} ELSE {}
        BY <2>3, <3>2, <3>3 DEF resolve_receive_address
      <3>7. CASE validate_network(i.address, c)
        BY <3>5, <3>6, <3>7
      <3>8. CASE ~ validate_network(i.address, c)
        BY <3>6, <3>8
      <3>. QED
        BY <3>7, <3>8
    <2>. QED
      BY <2>2, <2>3 DEF IInv, UrlsKnown
  <1>. QED
    BY <1>1, Inductive, PTL

\* A name reaches its buyer in every spelling (normalize_custom_address_name):
\* none of them is an address or another name.
THEOREM NamesReachBuyers == Spec => []NamesReachTheirTargets
  <1>1. IInv => NamesReachTheirTargets
    <2>. SUFFICES ASSUME IInv, NEW n \in Names, owned[n] # None,
                         validate_network(owned[n], config),
                         NEW text \in Texts, lowercase(trim(text)) = n
                  PROVE  {r.address : r \in Resolve(text)} = {owned[n]}
      BY DEF NamesReachTheirTargets
    <2>1. text \in Seq(Characters)
      BY TextsAssumption
    <2>2. /\ parse_receive_address(text) = {}
          /\ normalize_custom_address_name(text) = {n}
      BY <2>1, NamesAreTexts, SpellingIsNoAddress
    <2>3. [address |-> owned[n], identifier |-> n] \in Resolve(text)
      BY <2>2, Resolution
    <2>4. Resolve(text) = {[address |-> owned[n], identifier |-> n]}
      BY <2>1, <2>3, ResolvedOnce
    <2>. QED
      BY <2>4
  <1>. QED
    BY <1>1, Inductive, PTL

\* Every stored zap can be published once it is paid (validate_zap_request,
\* zap_request_relays): to the first public relays its request lists, and for
\* the amount of its invoice.
THEOREM ZapsArePublishable == Spec => []StoredZapsPublishable
  <1>1. IInv => StoredZapsPublishable
    <2>. SUFFICES ASSUME IInv, NEW i \in invoice, NEW request \in i.zap
                  PROVE  LET relays == zap_request_relays(request)
                         IN  /\ relays # <<>>
                             /\ {<<k, relays[k]>> : k \in DOMAIN relays} =
                                  RelaysOf(relays_tag(request))
                             /\ request.amount.tag # "none" =>
                                  request.amount.value = i.amount_msats
      BY DEF StoredZapsPublishable
    <2>1. validate_zap_request(request, i.amount_msats)
      BY DEF IInv, ZapsValidated
    <2>2. relays_tag(request) \in Seq(RelayTexts)
      <3>1. request \in Requests
        BY DEF IInv, TypeOK, Invoices
      <3>. QED
        BY <3>1, TagType
    <2>. QED
      BY <2>1, <2>2, RelaysAreFirst DEF validate_zap_request, AmountFits
  <1>. QED
    BY <1>1, Inductive, PTL

\* A receipt goes to public relays, no more than the limit and to each once
\* (zap_request_relays).
THEOREM RelaysArePublicOnce ==
  ASSUME NEW request \in Requests
  PROVE  LET relays == zap_request_relays(request)
         IN  /\ Len(relays) <= MAX_RELAYS
             /\ \A k \in DOMAIN relays : relays[k] \in Public
             /\ \A k, l \in DOMAIN relays : relays[k] = relays[l] => k = l
  BY TagType, RelaysAreOnce

------------------------------------------------------------------------------
(* What the payer may rely on later.                                        *)

\* What a text stands for under a configuration, now.
Meaning(text, c) == resolve_receive_address(text, c, Targets)

\* What a text stands for under some configuration it stands for afterwards,
\* and never for anything else, under any.
KeepsMeaning ==
  \A text \in Texts, c \in Configs : \A r \in Meaning(text, c) :
    /\ r \in Meaning(text, c)'
    /\ \A d \in Configs : \A q \in Meaning(text, d)' : q = r

\* A text that resolves stands for an address, if it spells it, or for the name
\* of an owner.
LEMMA MeaningIs ==
  ASSUME NEW text \in Texts, NEW c, NEW r
  PROVE  r \in Meaning(text, c) <=>
           \/ \E x \in parse_receive_address(text) :
                /\ r = [address |-> x, identifier |-> x.text]
                /\ validate_network(x, c) /\ validate_enabled(x, c)
           \/ /\ parse_receive_address(text) = {}
              /\ \E n \in normalize_custom_address_name(text) :
                   /\ n \in Names /\ owned[n] # None
                   /\ r = [address |-> owned[n], identifier |-> n]
                   /\ validate_network(owned[n], c)
  BY TargetsAre DEF Meaning, resolve_receive_address

\* A payer who pays to the same address or name again, after sales, restarts
\* and changes of the configuration, pays the same receiver or nobody
\* (resolve_receive_address).
THEOREM MeaningsStay == Spec => [][KeepsMeaning]_vars
  <1>1. IInv /\ [Next]_vars => [KeepsMeaning]_vars
    <2>. SUFFICES ASSUME IInv, [Next]_vars,
                         NEW text \in Texts, NEW c \in Configs, NEW r \in Meaning(text, c)
                  PROVE  /\ r \in Meaning(text, c)'
                         /\ \A d \in Configs : \A q \in Meaning(text, d)' : q = r
      BY DEF KeepsMeaning
    <2>1. CASE parse_receive_address(text) # {}
      <3>1. PICK x \in parse_receive_address(text) :
              /\ r = [address |-> x, identifier |-> x.text]
              /\ validate_network(x, c) /\ validate_enabled(x, c)
        BY <2>1, MeaningIs
      <3>2. parse_receive_address(text) = {x}
        BY ParseUnique
      <3>. QED
        BY <3>1, <3>2 DEF Meaning, resolve_receive_address
    <2>2. CASE parse_receive_address(text) = {}
      <3>1. PICK n \in normalize_custom_address_name(text) :
              /\ n \in Names /\ owned[n] # None
              /\ r = [address |-> owned[n], identifier |-> n]
              /\ validate_network(owned[n], c)
        BY <2>2, MeaningIs
      <3>2. normalize_custom_address_name(text) = {n}
        BY NameOfText
      <3>3. owned'[n] = owned[n]
        BY <3>1, NamesStay DEF IInv
      <3>4. n \in DOMAIN Targets' /\ Targets'[n] = owned[n]
        BY <3>1, <3>3 DEF Targets
      <3>. QED
        BY <2>2, <3>1, <3>2, <3>4 DEF Meaning, resolve_receive_address
    <2>. QED
      BY <2>1, <2>2
  <1>. QED
    BY <1>1, Inductive, PTL DEF Spec

\* The payer's invoice stays: its address, amount, zap and verify URL for ever,
\* its state once it is not pending.
KeepsInvoice ==
  \A i \in invoice : \E j \in invoice' :
    /\ j.verify = i.verify /\ j.address = i.address
    /\ j.amount_msats = i.amount_msats /\ j.zap = i.zap
    /\ i.state # "pending" => j.state = i.state

\* Neither a sale of names, nor another callback, nor a restart changes what an
\* invoice is for, and it is settled or cancelled once.
LEMMA InvoiceKept == IInv /\ [Next]_vars => KeepsInvoice
  <1>. SUFFICES ASSUME IInv, [Next]_vars, NEW i \in invoice
                PROVE  \E j \in invoice' :
                         /\ j.verify = i.verify /\ j.address = i.address
                         /\ j.amount_msats = i.amount_msats /\ j.zap = i.zap
                         /\ i.state # "pending" => j.state = i.state
    BY DEF KeepsInvoice
  <1>1. CASE UNCHANGED invoice
    BY <1>1
  <1>2. ASSUME NEW s \in {"settled", "cancelled"}, Resolves(s)
        PROVE  \E j \in invoice' :
                 /\ j.verify = i.verify /\ j.address = i.address
                 /\ j.amount_msats = i.amount_msats /\ j.zap = i.zap
                 /\ i.state # "pending" => j.state = i.state
    <2>1. i \in Invoices /\ i.state = "pending" /\ invoice' = {[i EXCEPT !.state = s]}
      BY <1>2 DEF Resolves, IInv, TypeOK, OneInvoice
    <2>. QED
      BY <2>1 DEF Invoices
  <1>3. UNCHANGED invoice \/ \E s \in {"settled", "cancelled"} : Resolves(s)
    BY DEF vars, payer, Next, Sign, Reserve, Sell, get_lnurl_pay, Verify, get_invoice,
      VerifyAnswers, VerifyFails, Restart
  <1>. QED
    BY <1>1, <1>2, <1>3

\* An invoice is final: the row a verify URL is about describes the same payment
\* for ever (get_invoice inserts it, nothing rewrites it).
THEOREM InvoicesAreFinal == Spec => [][KeepsInvoice]_vars
  <1>. QED
    BY InvoiceKept, Inductive, PTL DEF Spec

\* A payer once told of the settlement is not told otherwise for the same
\* address.
KeepsTelling ==
  \A told \in answer : \A again \in answer' :
    told.settled /\ again.asked = told.asked => again.settled

\* Proof of payment does not go away (verify): what a payer can show with the
\* URL he can show again, for any sales, restarts and refreshes in between.
THEOREM SettlementsStayTold == Spec => [][KeepsTelling]_vars
  <1>. DEFINE Fresh == \A told \in answer' : \A i \in invoice :
                         answer' # answer /\ told.found
                           => (told.settled <=> i.state = "settled")
  <1>1. IInv /\ IInv' /\ [Next]_vars /\ [Fresh]_vars => [KeepsTelling]_vars
    <2>. SUFFICES ASSUME IInv, IInv', [Next]_vars, [Fresh]_vars, NEW told \in answer, NEW again \in answer',
                         told.settled, again.asked = told.asked
                  PROVE  again.settled
      BY DEF KeepsTelling
    <2>1. CASE answer' = answer
      BY <2>1 DEF IInv, OneInvoice
    <2>2. CASE answer' # answer
      <3>1. PICK i \in invoice : told.found /\ i.state = "settled"
        BY DEF IInv, OneInvoice, AnswersTrue
      <3>2. PICK j \in invoice' : j.address = i.address /\ j.state = "settled"
        BY <3>1, InvoiceKept DEF KeepsInvoice
      <3>3. again.found
        BY <3>1, <3>2 DEF IInv, AnswersTrue
      <3>. QED
        BY <2>2, <3>1, <3>3 DEF vars, payer
    <2>. QED
      BY <2>1, <2>2
  <1>. QED
    BY <1>1, AnswersAreFresh, Inductive, PTL DEF Spec, AnswersFresh

------------------------------------------------------------------------------
(* The sale of names.                                                       *)

\* With the validation of names, addresses and signatures before it, and the
\* LNURL handlers beside it, the sale is that of the name registry
\* (create_custom_address_invoice_impl).
THEOREM RefinesNameRegistry == Spec => Registry!Spec
  <1>1. Init => Registry!Init
    BY DEF Init
  <1>2. IInv /\ [Next]_vars => [Registry!Next]_(Registry!vars)
    <2>. SUFFICES ASSUME IInv, [Next]_vars, ~ UNCHANGED <<owned, reserved, paid>>
                  PROVE  Registry!Next
      BY DEF Registry!vars
    <2>1. ASSUME NEW n_text \in Texts, NEW x_text \in Texts, Reserve(n_text, x_text)
          PROVE  Registry!Next
      <3>1. PICK n \in NameOf[n_text],
                 x \in validate_custom_target_address(x_text, config),
                 p \in Purchases :
                   Registry!Reserve(n, [purchase |-> p, owner |-> x])
        BY <2>1 DEF Reserve
      <3>2. n \in Names /\ x \in BarkAddresses
        BY NameOfText DEF NameOf, Names, validate_custom_target_address,
          parse_receive_address, BarkAddresses
      <3>3. [purchase |-> p, owner |-> x] \in Registry!Holders
        BY <3>2 DEF Registry!Holders
      <3>. QED
        BY <3>1, <3>2, <3>3 DEF Registry!Next
    <2>2. CASE Sell
      <3>1. \A n \in Names : reserved[n] \subseteq Registry!Holders
        BY DEF IInv, TypeOK
      <3>. QED
        BY <2>2, <3>1 DEF Sell, Registry!Next
    <2>3. Sell \/ \E n, x \in Texts : Reserve(n, x)
      BY DEF Next, Sign, get_lnurl_pay, Verify, get_invoice, Resolves, VerifyAnswers,
        VerifyFails, Restart, vars, sale
    <2>. QED
      BY <2>1, <2>2, <2>3
  <1>. QED
    BY <1>1, <1>2, Inductive, PTL DEF Spec, Registry!Spec
==============================================================================
