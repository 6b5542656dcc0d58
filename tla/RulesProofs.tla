---------------------------- MODULE RulesProofs ----------------------------
(* Facts about the rules of Rules.tla: what the chosen rule is, that only    *)
(* the modules which the search asks for decide about it, and how two rules' *)
(* devices compare in the order of the PCI list.  The first lemmas stand for *)
(* induction over numbers and for recursion.                                 *)
EXTENDS Rules, FiniteSetTheorems, WellFoundedInduction, NaturalsInduction, TLAPS

---------------------------------------------------------------------------
(* Numbers.                                                                 *)

\* A set of naturals that is not empty has a least element.
LEMMA LeastNumber ==
    ASSUME NEW T \in SUBSET Nat, T # {}
    PROVE  \E m \in T : \A k \in T : m <= k
  <1>1. PICK R : IsWellFoundedOn(R, Nat) /\ \A x, y \in Nat : <<y, x>> \in R <=> y < x
    <2>1. \A x, y \in Nat : <<y, x>> \in OpToRel(<, Nat) <=> y < x
      BY DEF OpToRel
    <2> QED BY <2>1, NatLessThanWellFounded
  <1>2. PICK m \in T : \A k \in T : ~ (<<k, m>> \in R)
    BY <1>1, WFMin, Zenon
  <1>3. \A k \in T : ~(k < m) /\ k \in Nat /\ m \in Nat
    BY <1>1, <1>2
  <1> QED BY <1>3

\* Induction, for a set of numbers up to a bound.
LEMMA NumbersUpTo ==
    ASSUME NEW N \in Nat, NEW T, 0 \in T, \A n \in 0..(N - 1) : n \in T => n + 1 \in T
    PROVE  \A n \in 0..N : n \in T
  <1> DEFINE Out == (0..N) \ T
  <1> SUFFICES ASSUME Out # {} PROVE FALSE
    OBVIOUS
  <1>1. PICK m \in Out : \A k \in Out : m <= k
    <2>1. Out \in SUBSET Nat
      OBVIOUS
    <2> HIDE DEF Out
    <2> QED BY <2>1, LeastNumber
  <1>2. m \in 1..N /\ m - 1 \in 0..(N - 1)
    OBVIOUS
  <1>3. m - 1 \in T
    BY <1>1, <1>2
  <1> QED BY <1>2, <1>3

\* A function is defined by its first value and by each from the one before.
Runs(N, S, a, step, f) ==
    f \in [0..N -> S] /\ f[0] = a /\ \A n \in 1..N : f[n] = step[n][f[n - 1]]

LEMMA Recursion ==
    ASSUME NEW N \in Nat, NEW S, NEW a \in S, NEW step,
           \A n \in 1..N : \A x \in S : step[n][x] \in S
    PROVE  \E f : Runs(N, S, a, step, f)
  <1> DEFINE Upto(n, f) == f[0] = a /\ \A k \in 1..n : f[k] = step[k][f[k - 1]]
             T == {n \in 0..N : \E f \in [0..n -> S] : Upto(n, f)}
  <1>1. 0 \in T
    <2>1. [k \in 0..0 |-> a] \in [0..0 -> S] /\ Upto(0, [k \in 0..0 |-> a])
      OBVIOUS
    <2> HIDE DEF Upto
    <2> QED BY <2>1
  <1>2. ASSUME NEW n \in 0..(N - 1), n \in T PROVE n + 1 \in T
    <2>1. PICK f \in [0..n -> S] : Upto(n, f)
      BY <1>2
    <2> DEFINE g == [k \in 0..(n + 1) |-> IF k <= n THEN f[k] ELSE step[n + 1][f[n]]]
    <2>2. step[n + 1][f[n]] \in S
      <3>1. n + 1 \in 1..N /\ f[n] \in S
        OBVIOUS
      <3> QED BY <3>1
    <2>3. g \in [0..(n + 1) -> S]
      BY <2>2
    <2>4. g[0] = a
      BY <2>1
    <2>5. ASSUME NEW k \in 1..(n + 1) PROVE g[k] = step[k][g[k - 1]]
      <3>1. CASE k <= n
        BY <2>1, <3>1
      <3>2. CASE k = n + 1
        BY <3>2
      <3> QED BY <3>1, <3>2
    <2>6. Upto(n + 1, g)
      <3> HIDE DEF g
      <3> QED BY <2>4, <2>5
    <2>7. n + 1 \in 0..N
      OBVIOUS
    <2> HIDE DEF g, Upto
    <2>8. \E h \in [0..(n + 1) -> S] : Upto(n + 1, h)
      BY <2>3, <2>6, Zenon
    <2> QED BY <2>8, <2>7
  <1>3. N \in T
    <2> HIDE DEF T
    <2>1. \A n \in 0..(N - 1) : n \in T => n + 1 \in T
      BY <1>2
    <2>2. \A n \in 0..N : n \in T
      BY <1>1, <2>1, NumbersUpTo
    <2> QED BY <2>2
  <1> QED BY <1>3 DEF Runs

---------------------------------------------------------------------------
(* Lists and rules.                                                         *)

LEMMA ListDomain ==
    ASSUME NEW list, IsList(list)
    PROVE  Len(list) \in Nat /\ DOMAIN list = 1..Len(list)
  BY DEF IsList

\* An entry of a list of a rule is an entry of what the key holds.
LEMMA EntriesOfKey ==
    ASSUME NEW rule, NEW key, NEW i \in DOMAIN Entries(rule, key)
    PROVE  Entries(rule, key) = rule[key]
  BY DEF Entries

Wins(rules, i, device, answers) == RuleMatches(rules, i, device, answers) /\ NamesVm(rules[i])

\* usb_rule: find_map returns the first rule that matches and names a VM.
LEMMA UsbRuleFirst ==
    ASSUME NEW rules, NEW device, NEW answers, IsList(rules)
    PROVE  LET rule == UsbRule(rules, device, answers)
           IN  /\ rule \in 0..Len(rules)
               /\ rule # 0 => rule \in DOMAIN rules /\ Wins(rules, rule, device, answers)
               /\ \A i \in DOMAIN rules : Wins(rules, i, device, answers) => rule \in 1..i
  <1> DEFINE wins == {i \in DOMAIN rules : Wins(rules, i, device, answers)}
             rule == UsbRule(rules, device, answers)
  <1>1. Len(rules) \in Nat /\ DOMAIN rules = 1..Len(rules)
    BY ListDomain
  <1>2. rule = IF wins = {} THEN 0 ELSE CHOOSE i \in wins : \A j \in wins : i <= j
    BY Zenon DEF UsbRule, Wins
  <1>3. \A i \in DOMAIN rules : Wins(rules, i, device, answers) => i \in wins
    OBVIOUS
  <1>4. \A i \in wins : i \in DOMAIN rules /\ Wins(rules, i, device, answers)
    OBVIOUS
  <1>5. CASE wins = {}
    BY <1>1, <1>2, <1>3, <1>5
  <1>6. CASE wins # {}
    <2>1. \E i \in wins : \A j \in wins : i <= j
      <3>1. wins \in SUBSET Nat
        BY <1>1
      <3> HIDE DEF wins
      <3> QED BY <1>6, <3>1, LeastNumber
    <2>2. rule \in wins /\ \A j \in wins : rule <= j
      <3> HIDE DEF wins
      <3> QED BY <1>2, <1>6, <2>1
    <2>3. rule \in 1..Len(rules)
      BY <1>1, <1>4, <2>2
    <2> HIDE DEF wins
    <2>4. \A i \in DOMAIN rules : Wins(rules, i, device, answers) => rule \in 1..i
      BY <1>1, <1>3, <2>2, <2>3
    <2>5. rule \in DOMAIN rules /\ Wins(rules, rule, device, answers) /\ rule \in 0..Len(rules)
      BY <1>1, <1>4, <2>2, <2>3
    <2> QED BY <2>4, <2>5
  <1> QED BY <1>5, <1>6

\* The places of a list of a rule.
LEMMA PlacesOfList ==
    ASSUME NEW rules, NEW i \in DOMAIN rules, NEW key \in {"allow", "deny"},
           NEW j \in DOMAIN Entries(rules[i], key)
    PROVE  /\ <<i, key, j>> \in Places(rules)
           /\ <<i, key, j>>[1] = i /\ <<i, key, j>>[2] = key /\ <<i, key, j>>[3] = j
  <1> DEFINE lists == {{n} \X {k} \X DOMAIN Entries(rules[n], k) :
                            n \in DOMAIN rules, k \in {"allow", "deny"}}
             list == {i} \X {key} \X DOMAIN Entries(rules[i], key)
  <1>1. list \in lists
    OBVIOUS
  <1>2. <<i, key, j>> \in list
    OBVIOUS
  <1>3. Places(rules) = UNION lists
    BY DEF Places
  <1>4. <<i, key, j>> \in Places(rules)
    <2> HIDE DEF lists, list
    <2> QED BY <1>1, <1>2, <1>3
  <1> QED BY <1>4

\* Other answers that agree with the ones that were given.
Agreeing(a, b) == \A place \in DOMAIN a : Answer(b, place) = a[place]

\* One selector: with the same answer it does the same; and it does so with
\* any answer if it is decided without, or by a driver that is bound.
LEMMA SelectorAnswered ==
    ASSUME NEW selector, NEW device, NEW m, NEW n,
           \/ m = n
           \/ ~(Undecided(selector, device) /\ device.drivers \cap selector.driverPath = {})
    PROVE  SelectorMatches(selector, device, m) <=> SelectorMatches(selector, device, n)
  BY DEF SelectorMatches, Undecided

\* A list of selectors of which the search reaches none that is still to ask:
\* up to its first match it does the same with any answers that agree.
LEMMA EntriesAnswered ==
    ASSUME NEW rules, NEW i \in DOMAIN rules, NEW key \in {"allow", "deny"},
           IsList(Entries(rules[i], key)), Enabled(rules[i]), NEW device, NEW a, NEW b,
           Agreeing(a, b),
           \A j \in DOMAIN Entries(rules[i], key) :
                <<i, key, j>> \in DOMAIN a \/ ~Reached(rules, device, a, <<i, key, j>>)
    PROVE  Hits(rules, i, key, device, a) # {} <=> Hits(rules, i, key, device, b) # {}
  <1> DEFINE entries == Entries(rules[i], key)
             HitsOf(x) == Hits(rules, i, key, device, x)
             selector(j) == rules[i][key][j]
  <1>1. DOMAIN entries \subseteq Nat
    <2>1. DOMAIN entries = 1..Len(entries) /\ Len(entries) \in Nat
      BY ListDomain
    <2> QED BY <2>1
  <1>2. ASSUME NEW j \in DOMAIN entries, \A k \in HitsOf(a) : j <= k
        PROVE  j \in HitsOf(a) <=> j \in HitsOf(b)
    <2> DEFINE place == <<i, key, j>>
    <2>1. place[1] = i /\ place[2] = key /\ place[3] = j
      OBVIOUS
    <2>2. place \in DOMAIN a \/ ~(Undecided(selector(j), device)
                                    /\ device.drivers \cap selector(j).driverPath = {})
      <3> SUFFICES ASSUME place \notin DOMAIN a,
                          Undecided(selector(j), device),
                          device.drivers \cap selector(j).driverPath = {}
                   PROVE  FALSE
        OBVIOUS
      <3>1. ~Reached(rules, device, a, place)
        OBVIOUS
      <3> HIDE DEF place
      <3> QED BY <1>2, <2>1, <3>1 DEF Reached
    <2>3. place \in DOMAIN a => Answer(a, place) = Answer(b, place)
      BY DEF Agreeing, Answer
    <2>4. SelectorMatches(selector(j), device, Answer(a, place)) <=>
          SelectorMatches(selector(j), device, Answer(b, place))
      BY <2>2, <2>3, SelectorAnswered
    <2> QED BY <2>4 DEF Hits
  <1>3. HitsOf(a) \subseteq DOMAIN entries /\ HitsOf(b) \subseteq DOMAIN entries
    BY DEF Hits
  <1>4. ASSUME HitsOf(a) # {} PROVE HitsOf(b) # {}
    <2>1. HitsOf(a) \in SUBSET Nat
      BY <1>1, <1>3
    <2>2. PICK j \in HitsOf(a) : \A k \in HitsOf(a) : j <= k
      <3> HIDE DEF HitsOf
      <3> QED BY <1>4, <2>1, LeastNumber
    <2> HIDE DEF HitsOf
    <2> QED BY <1>2, <1>3, <2>2
  <1>5. ASSUME HitsOf(a) = {} PROVE HitsOf(b) = {}
    <2> HIDE DEF HitsOf
    <2> QED BY <1>2, <1>3, <1>5
  <1> QED BY <1>4, <1>5

\* usb_rule: the rule is decided once every question that its search reaches is
\* answered, whatever other questions would be answered.
THEOREM UsbRuleAnswered ==
    ASSUME NEW rules, NEW device, NEW a, NEW b, IsList(rules),
           \A i \in DOMAIN rules : \A key \in {"allow", "deny"} : IsList(Entries(rules[i], key)),
           Open(rules, device, a) = {}, Agreeing(a, b)
    PROVE  UsbRule(rules, device, b) = UsbRule(rules, device, a)
  <1> DEFINE found == UsbRule(rules, device, a)
             rule == UsbRule(rules, device, b)
  <1>1. Len(rules) \in Nat /\ DOMAIN rules = 1..Len(rules)
    BY ListDomain
  <1>2. /\ found \in 0..Len(rules)
        /\ found # 0 => found \in DOMAIN rules /\ Wins(rules, found, device, a)
        /\ \A i \in DOMAIN rules : Wins(rules, i, device, a) => found \in 1..i
    BY UsbRuleFirst
  <1>3. /\ rule \in 0..Len(rules)
        /\ rule # 0 => rule \in DOMAIN rules /\ Wins(rules, rule, device, b)
        /\ \A i \in DOMAIN rules : Wins(rules, i, device, b) => rule \in 1..i
    BY UsbRuleFirst
  <1>4. \A place \in Places(rules) \ DOMAIN a :
            found = 0 \/ place[1] <= found => ~Reached(rules, device, a, place)
    BY Zenon DEF Open
  <1> HIDE DEF found, rule
  <1>5. ASSUME NEW i \in DOMAIN rules, found = 0 \/ i <= found
        PROVE  Wins(rules, i, device, b) <=> Wins(rules, i, device, a)
    <2>1. ASSUME Enabled(rules[i]), NEW key \in {"allow", "deny"}
          PROVE  Hits(rules, i, key, device, a) # {} <=> Hits(rules, i, key, device, b) # {}
      <3>1. \A j \in DOMAIN Entries(rules[i], key) :
                <<i, key, j>> \in DOMAIN a \/ ~Reached(rules, device, a, <<i, key, j>>)
        <4> TAKE j \in DOMAIN Entries(rules[i], key)
        <4>1. <<i, key, j>> \in Places(rules) /\ <<i, key, j>>[1] = i
          BY PlacesOfList
        <4> QED BY <1>4, <1>5, <4>1
      <3>2. IsList(Entries(rules[i], key))
        OBVIOUS
      <3> QED BY <2>1, <3>1, <3>2, EntriesAnswered
    <2>2. RuleMatches(rules, i, device, b) <=> RuleMatches(rules, i, device, a)
      BY <2>1, Zenon DEF RuleMatches
    <2> QED BY <2>2 DEF Wins
  <1>6. CASE found = 0
    <2>1. \A i \in DOMAIN rules : ~Wins(rules, i, device, b)
      BY <1>1, <1>2, <1>5, <1>6
    <2>2. rule = 0
      BY <1>3, <2>1
    <2> QED BY <1>6, <2>2 DEF found, rule
  <1>7. CASE found # 0
    <2>1. found \in DOMAIN rules /\ Wins(rules, found, device, a) /\ found \in Nat
      BY <1>1, <1>2, <1>7
    <2>2. Wins(rules, found, device, b)
      BY <1>5, <2>1
    <2>3. rule \in 1..found
      BY <1>3, <2>1, <2>2
    <2>4. rule \in DOMAIN rules /\ Wins(rules, rule, device, b) /\ rule <= found
      BY <1>3, <2>1, <2>3
    <2>5. Wins(rules, rule, device, a)
      BY <1>5, <2>4
    <2>6. found \in 1..rule
      BY <1>2, <2>4, <2>5
    <2>7. found = rule
      BY <2>1, <2>3, <2>6
    <2> QED BY <2>7 DEF found, rule
  <1> QED BY <1>6, <1>7

---------------------------------------------------------------------------
(* The order of the PCI devices.                                            *)

\* pci_rule: the position of the first entry that matches.
LEMMA FirstMatchType ==
    ASSUME NEW entries, NEW device, IsList(entries)
    PROVE  FirstMatch(entries, device) \in 0..Len(entries)
  <1> DEFINE hits == {i \in DOMAIN entries : PciSelectorMatches(entries[i], device)}
  <1>1. Len(entries) \in Nat /\ DOMAIN entries = 1..Len(entries)
    BY ListDomain
  <1>2. FirstMatch(entries, device) =
            IF hits = {} THEN 0 ELSE CHOOSE i \in hits : \A j \in hits : i <= j
    BY Zenon DEF FirstMatch
  <1>3. hits \in SUBSET Nat /\ hits \subseteq 1..Len(entries)
    BY <1>1
  <1> HIDE DEF hits
  <1>4. hits # {} => \E i \in hits : \A j \in hits : i <= j
    BY <1>3, LeastNumber
  <1>5. hits # {} => FirstMatch(entries, device) \in hits
    BY <1>2, <1>4
  <1>6. hits = {} => FirstMatch(entries, device) = 0
    BY <1>2
  <1>7. hits # {} => FirstMatch(entries, device) \in 1..Len(entries)
    BY <1>3, <1>5
  <1>8. \A k \in 1..Len(entries) : k \in 0..Len(entries)
    BY <1>1
  <1>9. 0 \in 0..Len(entries)
    BY <1>1
  <1> QED BY <1>6, <1>7, <1>8, <1>9

\* What one rule adds, to the order of a device that it allows and of one that
\* it does not.
LEMMA CountedBounds ==
    ASSUME NEW rule, IsList(Entries(rule, "allow")), NEW p, NEW q
    PROVE  /\ Counted(rule, p) \in Nat
           /\ PciWants(rule, p) => /\ Counted(rule, p) = FirstMatch(Entries(rule, "allow"), p)
                                   /\ Counted(rule, p) > 0
           /\ (Enabled(rule) => FirstMatch(Entries(rule, "allow"), q) = 0) =>
                Counted(rule, p) <= Counted(rule, q)
  <1>1. /\ FirstMatch(Entries(rule, "allow"), p) \in 0..Len(Entries(rule, "allow"))
        /\ Len(Entries(rule, "allow")) \in Nat
    BY FirstMatchType, ListDomain
  <1> QED BY <1>1 DEF Counted, PciWants

\* The order of a device, summed up over the rules.
Sums(rules, device, f) ==
    /\ f \in [0..Len(rules) -> Nat] /\ f[0] = 0
    /\ \A n \in 1..Len(rules) : f[n] = f[n - 1] + Counted(rules[n], device)

LEMMA SumsExist ==
    ASSUME NEW rules, NEW device, IsList(rules),
           \A i \in DOMAIN rules : IsList(Entries(rules[i], "allow")),
           NEW order,
           order = CHOOSE f : f = [n \in 0..Len(rules) |->
                        IF n = 0 THEN 0 ELSE f[n - 1] + Counted(rules[n], device)]
    PROVE  Sums(rules, device, order)
  <1>1. Len(rules) \in Nat /\ DOMAIN rules = 1..Len(rules)
    BY ListDomain
  <1>2. \A i \in 1..Len(rules) : Counted(rules[i], device) \in Nat
    BY <1>1, CountedBounds
  <1> DEFINE step == [n \in 1..Len(rules) |-> [k \in Nat |-> k + Counted(rules[n], device)]]
  <1>3. step \in [1..Len(rules) -> [Nat -> Nat]]
    BY <1>2
  <1>4. PICK f \in [0..Len(rules) -> Nat] :
            f[0] = 0 /\ \A n \in 1..Len(rules) : f[n] = step[n][f[n - 1]]
    <2> HIDE DEF step
    <2>1. \A n \in 1..Len(rules) : \A x \in Nat : step[n][x] \in Nat
      BY <1>3
    <2>2. \E f : Runs(Len(rules), Nat, 0, step, f)
      BY <1>1, <2>1, Recursion
    <2> QED BY <2>2 DEF Runs
  <1>5. \A n \in 1..Len(rules) : f[n - 1] \in Nat /\ f[n] = f[n - 1] + Counted(rules[n], device)
    <2> TAKE n \in 1..Len(rules)
    <2>1. n - 1 \in 0..Len(rules)
      BY <1>1
    <2>2. f[n - 1] \in Nat
      BY <2>1
    <2> QED BY <1>4, <2>2
  <1>6. f = [n \in 0..Len(rules) |-> IF n = 0 THEN 0 ELSE f[n - 1] + Counted(rules[n], device)]
    <2>1. \A n \in 0..Len(rules) :
             f[n] = IF n = 0 THEN 0 ELSE f[n - 1] + Counted(rules[n], device)
      BY <1>1, <1>4, <1>5
    <2> QED BY <2>1
  <1>7. order = [n \in 0..Len(rules) |->
                    IF n = 0 THEN 0 ELSE order[n - 1] + Counted(rules[n], device)]
    BY <1>6
  <1>8. order[0] = 0
    <2>1. 0 \in 0..Len(rules)
      BY <1>1
    <2> QED BY <1>7, <2>1
  <1>9. \A n \in 1..Len(rules) : order[n] = order[n - 1] + Counted(rules[n], device)
    <2> TAKE n \in 1..Len(rules)
    <2>1. n \in 0..Len(rules) /\ n # 0
      BY <1>1
    <2> QED BY <1>7, <2>1
  <1> DEFINE T == {n \in 0..Len(rules) : order[n] \in Nat}
  <1>10. 0 \in T
    BY <1>1, <1>8
  <1>11. ASSUME NEW n \in 0..(Len(rules) - 1), n \in T PROVE n + 1 \in T
    <2>1. n + 1 \in 1..Len(rules) /\ (n + 1) - 1 = n /\ n + 1 \in 0..Len(rules)
      BY <1>1
    <2>2. order[n + 1] = order[n] + Counted(rules[n + 1], device)
      BY <1>9, <2>1
    <2> QED BY <1>2, <1>11, <2>1, <2>2
  <1>12. \A n \in 0..Len(rules) : order[n] \in Nat
    <2>1. \A n \in 0..Len(rules) : n \in T
      <3> HIDE DEF T
      <3>1. \A n \in 0..(Len(rules) - 1) : n \in T => n + 1 \in T
        BY <1>11
      <3> QED BY <1>1, <1>10, <3>1, NumbersUpTo
    <2> QED BY <2>1
  <1>13. order \in [0..Len(rules) -> Nat]
    <2> HIDE DEF T
    <2> QED BY <1>7, <1>12
  <1> QED BY <1>8, <1>9, <1>13 DEF Sums

\* pci_rule: the rule of a device, and its order.
LEMMA PciRuleFirst ==
    ASSUME NEW rules, NEW device, IsList(rules),
           \A i \in DOMAIN rules : IsList(Entries(rules[i], "allow"))
    PROVE  LET r == PciRule(rules, device)
           IN  /\ r.rule \in 0..Len(rules)
               /\ r.rule # 0 => r.rule \in DOMAIN rules /\ PciWants(rules[r.rule], device)
               /\ \A i \in DOMAIN rules : PciWants(rules[i], device) => r.rule \in 1..i
               /\ \E f : Sums(rules, device, f) /\ r.order = IF r.rule = 0 THEN 0 ELSE f[r.rule]
  <1> DEFINE wins == {i \in DOMAIN rules : PciWants(rules[i], device)}
             first == CHOOSE i \in wins : \A j \in wins : i <= j
             order == CHOOSE f : f = [n \in 0..Len(rules) |->
                            IF n = 0 THEN 0 ELSE f[n - 1] + Counted(rules[n], device)]
             r == PciRule(rules, device)
  <1>1. Len(rules) \in Nat /\ DOMAIN rules = 1..Len(rules)
    BY ListDomain
  <1>2. Sums(rules, device, order)
    BY SumsExist
  <1>3. r = IF wins = {} THEN [rule |-> 0, order |-> 0] ELSE [rule |-> first, order |-> order[first]]
    BY Zenon DEF PciRule
  <1>4. wins # {} => first \in wins /\ \A j \in wins : first <= j
    <2>1. wins \in SUBSET Nat
      BY <1>1
    <2> HIDE DEF wins
    <2> QED BY <2>1, LeastNumber
  <1> HIDE DEF order, first
  <1>5. CASE wins = {}
    <2>1. r.rule = 0 /\ r.order = 0
      BY <1>3, <1>5
    <2> QED BY <1>1, <1>2, <1>5, <2>1
  <1>6. CASE wins # {}
    <2>1. r.rule = first /\ r.order = order[first]
      BY <1>3, <1>6
    <2>2. first \in 1..Len(rules) /\ PciWants(rules[first], device)
      BY <1>1, <1>4, <1>6
    <2>3. \A i \in DOMAIN rules : PciWants(rules[i], device) => first \in 1..i
      BY <1>1, <1>4, <1>6, <2>2
    <2>4. first # 0 /\ first \in 0..Len(rules)
      BY <1>1, <2>2
    <2> HIDE DEF wins
    <2> QED BY <1>1, <1>2, <2>1, <2>2, <2>3, <2>4
  <1> QED BY <1>5, <1>6

\* The sums never decrease.
LEMMA SumsGrow ==
    ASSUME NEW rules, NEW device, NEW f, IsList(rules), Sums(rules, device, f),
           \A i \in DOMAIN rules : IsList(Entries(rules[i], "allow")),
           NEW i \in 0..Len(rules), NEW j \in 0..Len(rules), i <= j
    PROVE  f[i] <= f[j]
  <1>1. Len(rules) \in Nat /\ DOMAIN rules = 1..Len(rules)
    BY ListDomain
  <1> DEFINE T == {n \in 0..Len(rules) : i <= n => f[i] <= f[n]}
  <1>2. \A n \in 0..Len(rules) : f[n] \in Nat
    BY DEF Sums
  <1>3. 0 \in T
    BY <1>1, <1>2
  <1>4. ASSUME NEW n \in 0..(Len(rules) - 1), n \in T PROVE n + 1 \in T
    <2>1. n + 1 \in 1..Len(rules) /\ (n + 1) - 1 = n /\ n \in 0..Len(rules)
      BY <1>1
    <2>2. f[n + 1] = f[n] + Counted(rules[n + 1], device) /\ Counted(rules[n + 1], device) \in Nat
      BY <1>1, <2>1, CountedBounds DEF Sums
    <2> QED BY <1>2, <1>4, <2>1, <2>2
  <1>5. \A n \in 0..Len(rules) : n \in T
    <2> HIDE DEF T
    <2>1. \A n \in 0..(Len(rules) - 1) : n \in T => n + 1 \in T
      BY <1>4
    <2> QED BY <1>1, <1>3, <2>1, NumbersUpTo
  <1> QED BY <1>5

\* Up to a rule before which none that is on allows q, p's sum is at most q's.
LEMMA SumsCompare ==
    ASSUME NEW rules, NEW p, NEW q, NEW f, NEW g, IsList(rules),
           Sums(rules, p, f), Sums(rules, q, g),
           \A i \in DOMAIN rules : IsList(Entries(rules[i], "allow")),
           NEW i \in 0..Len(rules),
           \A k \in 1..i : Enabled(rules[k]) => FirstMatch(Entries(rules[k], "allow"), q) = 0
    PROVE  f[i] <= g[i]
  <1>1. Len(rules) \in Nat /\ DOMAIN rules = 1..Len(rules)
    BY ListDomain
  <1> DEFINE T == {n \in 0..Len(rules) : n <= i => f[n] <= g[n]}
  <1>2. \A n \in 0..Len(rules) : f[n] \in Nat /\ g[n] \in Nat
    BY DEF Sums
  <1>3. 0 \in T
    BY <1>1 DEF Sums
  <1>4. ASSUME NEW n \in 0..(Len(rules) - 1), n \in T PROVE n + 1 \in T
    <2>1. n + 1 \in 1..Len(rules) /\ (n + 1) - 1 = n /\ n \in 0..Len(rules) /\ n + 1 \in 0..Len(rules)
      BY <1>1
    <2>2. /\ f[n + 1] = f[n] + Counted(rules[n + 1], p)
          /\ g[n + 1] = g[n] + Counted(rules[n + 1], q)
      BY <2>1 DEF Sums
    <2>3. /\ Counted(rules[n + 1], p) \in Nat /\ Counted(rules[n + 1], q) \in Nat
          /\ n + 1 <= i => Counted(rules[n + 1], p) <= Counted(rules[n + 1], q)
      <3>1. IsList(Entries(rules[n + 1], "allow"))
        BY <1>1, <2>1
      <3>2. n + 1 <= i => n + 1 \in 1..i
        BY <2>1
      <3> QED BY <3>1, <3>2, CountedBounds
    <2> QED BY <1>2, <1>4, <2>1, <2>2, <2>3
  <1>5. \A n \in 0..Len(rules) : n \in T
    <2> HIDE DEF T
    <2>1. \A n \in 0..(Len(rules) - 1) : n \in T => n + 1 \in T
      BY <1>4
    <2> QED BY <1>1, <1>3, <2>1, NumbersUpTo
  <1> QED BY <1>5

\* pci_rule: devices of two rules are ordered as their rules are, unless one of
\* them up to the first allows the second device (and then denies it); devices
\* of one rule as the entries that allow them are.
THEOREM PciOrder ==
    ASSUME NEW rules, IsList(rules),
           \A i \in DOMAIN rules : IsList(Entries(rules[i], "allow")),
           NEW p, NEW q, NEW r, NEW t, r = PciRule(rules, p), t = PciRule(rules, q),
           r.rule # 0, t.rule # 0
    PROVE  /\ r.order \in Nat /\ t.order \in Nat
           /\ (r.rule < t.rule /\ \A k \in 1..r.rule : Enabled(rules[k]) =>
                    FirstMatch(Entries(rules[k], "allow"), q) = 0) => r.order < t.order
           /\ (r.rule = t.rule /\ \A k \in 1..(r.rule - 1) : Enabled(rules[k]) =>
                    /\ FirstMatch(Entries(rules[k], "allow"), p) = 0
                    /\ FirstMatch(Entries(rules[k], "allow"), q) = 0) =>
                (FirstMatch(Entries(rules[r.rule], "allow"), p) <
                    FirstMatch(Entries(rules[r.rule], "allow"), q) => r.order < t.order)
  <1> DEFINE i == r.rule
             j == t.rule
             Allows(k, x) == FirstMatch(Entries(rules[k], "allow"), x)
  <1>1. Len(rules) \in Nat /\ DOMAIN rules = 1..Len(rules)
    BY ListDomain
  <1>2. PICK f : Sums(rules, p, f) /\ i \in 1..Len(rules) /\ PciWants(rules[i], p) /\ r.order = f[i]
    BY <1>1, PciRuleFirst
  <1>3. PICK g : Sums(rules, q, g) /\ j \in 1..Len(rules) /\ PciWants(rules[j], q) /\ t.order = g[j]
    BY <1>1, PciRuleFirst
  <1>4. \A n \in 0..Len(rules) : f[n] \in Nat /\ g[n] \in Nat
    BY <1>2, <1>3 DEF Sums
  <1>5. /\ i - 1 \in 0..Len(rules) /\ i \in 0..Len(rules) /\ i \in 1..Len(rules)
        /\ j - 1 \in 0..Len(rules) /\ j \in 0..Len(rules) /\ j \in 1..Len(rules)
    BY <1>1, <1>2, <1>3
  <1>6. /\ f[i] = f[i - 1] + Counted(rules[i], p)
        /\ g[j] = g[j - 1] + Counted(rules[j], q)
    BY <1>2, <1>3, <1>5 DEF Sums
  <1>7. /\ Counted(rules[i], p) \in Nat /\ Counted(rules[i], p) = Allows(i, p)
        /\ Counted(rules[j], q) \in Nat /\ Counted(rules[j], q) = Allows(j, q)
        /\ Counted(rules[j], q) > 0
    <2>1. IsList(Entries(rules[i], "allow")) /\ IsList(Entries(rules[j], "allow"))
      BY <1>1, <1>5
    <2> QED BY <1>2, <1>3, <2>1, CountedBounds
  <1> HIDE DEF i, j
  <1>8. ASSUME i < j, \A k \in 1..i : Enabled(rules[k]) => Allows(k, q) = 0
        PROVE  f[i] < g[j]
    <2>1. f[i] <= g[i]
      BY <1>2, <1>3, <1>5, <1>8, SumsCompare
    <2>2. g[i] <= g[j - 1]
      BY <1>3, <1>5, <1>8, SumsGrow
    <2>3. /\ f[i] \in Nat /\ g[i] \in Nat /\ g[j - 1] \in Nat /\ g[j] \in Nat
          /\ Counted(rules[j], q) \in Nat /\ Counted(rules[j], q) > 0
          /\ g[j] = g[j - 1] + Counted(rules[j], q)
      BY <1>4, <1>5, <1>6, <1>7
    <2> QED BY <2>1, <2>2, <2>3
  <1>9. ASSUME i = j, Allows(i, p) < Allows(i, q),
               \A k \in 1..(i - 1) : Enabled(rules[k]) => Allows(k, p) = 0 /\ Allows(k, q) = 0
        PROVE  f[i] < g[j]
    <2>1. f[i - 1] <= g[i - 1]
      BY <1>2, <1>3, <1>5, <1>9, SumsCompare
    <2>2. Counted(rules[i], p) < Counted(rules[j], q)
      BY <1>7, <1>9
    <2>3. /\ f[i] \in Nat /\ f[i - 1] \in Nat /\ g[j - 1] \in Nat /\ g[j] \in Nat
          /\ Counted(rules[i], p) \in Nat /\ Counted(rules[j], q) \in Nat
      BY <1>4, <1>5, <1>7
    <2>4. g[i - 1] = g[j - 1]
      BY <1>9
    <2> QED BY <1>6, <2>1, <2>2, <2>3, <2>4
  <1> QED BY <1>2, <1>3, <1>4, <1>5, <1>8, <1>9 DEF i, j

---------------------------------------------------------------------------
(* Sorting.                                                                 *)

\* A finite set under a strict total order: the elements before each give it a
\* place of its own, and every place is taken.
Place(S, before, a) == 1 + Cardinality({b \in S : <<b, a>> \in before})

LEMMA Sorted ==
    ASSUME NEW S, IsFiniteSet(S), NEW before,
           \A a \in S : <<a, a>> \notin before,
           \A a, b, c \in S : <<a, b>> \in before /\ <<b, c>> \in before => <<a, c>> \in before,
           \A a, b \in S : a # b => <<a, b>> \in before \/ <<b, a>> \in before
    PROVE  /\ Cardinality(S) \in Nat
           /\ \A a \in S : Place(S, before, a) \in 1..Cardinality(S)
           /\ \A a, b \in S : <<a, b>> \in before <=> Place(S, before, a) < Place(S, before, b)
           /\ \A i \in 1..Cardinality(S) : \E a \in S : Place(S, before, a) = i
  <1> DEFINE N == Cardinality(S)
             Less(a) == {b \in S : <<b, a>> \in before}
             place == [a \in S |-> Place(S, before, a)]
  <1>1. N \in Nat /\ \A a \in S : IsFiniteSet(Less(a)) /\ Cardinality(Less(a)) \in Nat
    BY FS_CardinalityType, FS_Subset
  <1>2. ASSUME NEW a \in S PROVE Place(S, before, a) \in 1..N
    <2>1. Less(a) \in SUBSET S /\ Less(a) # S
      OBVIOUS
    <2>2. Cardinality(Less(a)) <= N /\ Cardinality(Less(a)) # N
      BY <2>1, FS_Subset
    <2> QED BY <1>1, <2>2 DEF Place
  <1>3. ASSUME NEW a \in S, NEW b \in S, <<a, b>> \in before
        PROVE  Place(S, before, a) < Place(S, before, b)
    <2>1. Less(a) \in SUBSET Less(b) /\ a \in Less(b) /\ a \notin Less(a)
      BY <1>3
    <2>2. Less(a) # Less(b)
      BY <2>1
    <2>3. Cardinality(Less(a)) <= Cardinality(Less(b)) /\ Cardinality(Less(a)) # Cardinality(Less(b))
      <3> HIDE DEF Less
      <3> QED BY <1>1, <2>1, <2>2, FS_Subset
    <2> QED BY <1>1, <2>3 DEF Place
  <1>4. \A a \in S : Place(S, before, a) \in Nat
    BY <1>1, <1>2
  <1>5. ASSUME NEW a \in S, NEW b \in S, Place(S, before, a) < Place(S, before, b)
        PROVE  <<a, b>> \in before
    <2>1. ~(Place(S, before, b) < Place(S, before, a)) /\ a # b
      BY <1>4, <1>5
    <2>2. <<b, a>> \notin before
      BY <1>3, <2>1
    <2> QED BY <2>1, <2>2
  <1>6. place \in [S -> 1..N] /\ \A a, b \in S : a # b => place[a] # place[b]
    <2>1. place \in [S -> 1..N] /\ \A a \in S : place[a] = Place(S, before, a)
      BY <1>2
    <2>2. \A a, b \in S : a # b => Place(S, before, a) # Place(S, before, b)
      <3> TAKE a, b \in S
      <3> HAVE a # b
      <3>1. CASE <<a, b>> \in before
        BY <1>3, <1>4, <3>1
      <3>2. CASE <<b, a>> \in before
        BY <1>3, <1>4, <3>2
      <3> QED BY <3>1, <3>2
    <2> HIDE DEF place
    <2> QED BY <2>1, <2>2
  <1>7. place \in Injection(S, 1..N)
    <2> HIDE DEF place
    <2> QED BY <1>6 DEF Injection, IsInjective
  <1>8. IsFiniteSet(1..N) /\ Cardinality(1..N) = N
    BY <1>1, FS_Interval
  <1>9. place \in Surjection(S, 1..N)
    <2> HIDE DEF place
    <2> QED BY <1>7, <1>8, FS_Injection
  <1>10. \A i \in 1..N : \E a \in S : place[a] = i
    <2> HIDE DEF place
    <2> QED BY <1>9 DEF Surjection
  <1> QED BY <1>1, <1>2, <1>3, <1>5, <1>10
=============================================================================
