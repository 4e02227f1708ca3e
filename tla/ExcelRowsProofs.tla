-------------------------- MODULE ExcelRowsProofs --------------------------
(***************************************************************************)
(* Theorems about ExcelRows, for any sheet and any number of requests,     *)
(* columns, retries and people's moves:                                    *)
(*                                                                         *)
(*   LettersNameColumns    column_letter names the column that is meant.   *)
(*   ExcelTypeCorrect      The types.                                      *)
(*   RowsStayInTheirTable  TableRowsStayInTable.                           *)
(*   AddedOncePerAttempt   LandsOncePerAttempt.                            *)
(*   DataIsKept            DataLostOnlyToStaleRow.                         *)
(*   RowGoesToTheEnd       RowIsAtTheEnd.                                  *)
(*                                                                         *)
(* The inductive invariant is ExcelInv.  It says where there can be data:  *)
(* not below row Floor, which goes down with every attempt that is over,   *)
(* so that the sheet has room for every attempt there will be; and, for a  *)
(* request that knows where it is going to write, that nothing but its own *)
(* row is there or below, unless the sheet changed since it looked; and,   *)
(* for a request that is going to save a copy, that the copy is a workbook *)
(* in which all of this is so, with the request's row at its end.          *)
(***************************************************************************)
EXTENDS ExcelRows, FiniteSetTheorems, SequenceTheorems, WellFoundedInduction, TLAPS

-----------------------------------------------------------------------------
(* Numbers: the first and the last of a set, and division.                 *)

LessThan == {p \in Nat \X Nat : p[1] < p[2]}

LEMMA LessThanWellFounded == IsWellFoundedOn(LessThan, Nat)
  <1>1. OpToRel(<, Nat) = {p \in Nat \X Nat : p[1] < p[2]}
    BY Zenon DEF OpToRel
  <1> QED BY <1>1, NatLessThanWellFounded, Zenon DEF LessThan

\* The least number stands in for an induction: the smallest counterexample is refuted.
LEMMA Smallest ==
  ASSUME NEW T, T \subseteq Nat, T # {}
  PROVE  \E n \in T : \A m \in T : n <= m
  <1>1. PICK n \in T : \A m \in T : ~(<<m, n>> \in LessThan)
    BY LessThanWellFounded, WFMin, Zenon
  <1>2. ASSUME NEW m \in T PROVE n <= m
    <2>1. n \in Nat /\ m \in Nat
      OBVIOUS
    <2>2. ~(<<m, n>> \in LessThan)
      BY <1>1
    <2> QED BY <2>1, <2>2 DEF LessThan
  <1> QED BY <1>2

LEMMA MinIsFirst ==
  ASSUME NEW T, T \subseteq Nat, T # {}
  PROVE  Min(T) \in T /\ \A m \in T : Min(T) <= m
  <1>1. \E n \in T : \A m \in T : n <= m
    BY Smallest
  <1> QED BY <1>1, Zenon DEF Min

LEMMA MaxIsLast ==
  ASSUME NEW n \in Nat, NEW T, T \subseteq 0 .. n, T # {}
  PROVE  Max(T) \in T /\ \A m \in T : Max(T) >= m
  <1> DEFINE U == {n - m : m \in T}
  <1>1. U \subseteq Nat /\ U # {}
    OBVIOUS
  <1>2. PICK u \in U : \A w \in U : u <= w
    BY <1>1, Smallest
  <1>3. PICK t \in T : u = n - t
    OBVIOUS
  <1>4. \A m \in T : t >= m
    <2>1. ASSUME NEW m \in T PROVE t >= m
      <3>1. n - t <= n - m
        BY <1>2, <1>3
      <3> QED BY <3>1
    <2> QED BY <2>1
  <1>5. \E x \in T : \A m \in T : x >= m
    BY <1>4
  <1> QED BY <1>5, Zenon DEF Max

\* A digit and what is left.
LEMMA Division ==
  ASSUME NEW n \in Nat, NEW d \in Nat \ {0}
  PROVE  /\ n \div d \in Nat /\ n % d \in 0 .. d - 1
         /\ (n \div d) * d + (n % d) = n
         /\ n \div d <= n
  <1>1. n \div d \in Nat
    OBVIOUS
  <1>2. n % d \in 0 .. d - 1
    OBVIOUS
  <1>3. (n \div d) * d + (n % d) = n
    OBVIOUS
  <1>4. n \div d <= n
    OBVIOUS
  <1> QED BY <1>1, <1>2, <1>3, <1>4

LEMMA ProductIsNat ==
  ASSUME NEW a \in Nat, NEW b \in Nat
  PROVE  a * b \in Nat
  OBVIOUS

-----------------------------------------------------------------------------
(* Letters for columns.                                                    *)

Reads(f, s, n) ==
    f = [k \in 0 .. n |-> IF k = 0 THEN 0 ELSE f[k - 1] * LETTERS + s[k] + 1]

\* The recursion of ColumnOf has a value at every length.
LEMMA ReadsExist ==
  ASSUME NEW s, NEW n \in Nat
  PROVE  \E f : Reads(f, s, n)
  <1> DEFINE T == {k \in Nat : ~\E f : Reads(f, s, k)}
  <1> SUFFICES ASSUME T # {} PROVE FALSE
    OBVIOUS
  <1>1. PICK k \in T : \A m \in T : k <= m
    BY Smallest
  <1>2. CASE k = 0
    <2> DEFINE f == [i \in 0 .. 0 |-> 0]
    <2>1. f = [i \in 0 .. 0 |-> IF i = 0 THEN 0 ELSE f[i - 1] * LETTERS + s[i] + 1]
      OBVIOUS
    <2> HIDE DEF f
    <2>2. Reads(f, s, 0)
      BY <2>1 DEF Reads
    <2> QED BY <1>2, <2>2
  <1>3. CASE k # 0
    <2>1. k - 1 \in Nat /\ ~(k <= k - 1)
      BY <1>3
    <2>2. PICK g : Reads(g, s, k - 1)
      BY <1>1, <2>1
    <2> DEFINE f == [i \in 0 .. k |-> IF i = 0 THEN 0 ELSE g[i - 1] * LETTERS + s[i] + 1]
    <2>3. ASSUME NEW i \in 0 .. k - 1 PROVE f[i] = g[i]
      <3>1. i \in 0 .. k
        BY <2>1
      <3>2. g[i] = IF i = 0 THEN 0 ELSE g[i - 1] * LETTERS + s[i] + 1
        BY <2>2, Zenon DEF Reads
      <3> QED BY <3>1, <3>2
    <2>4. f = [i \in 0 .. k |-> IF i = 0 THEN 0 ELSE f[i - 1] * LETTERS + s[i] + 1]
      <3>1. \A i \in 0 .. k : i # 0 => i - 1 \in 0 .. k - 1
        OBVIOUS
      <3> QED BY <2>3, <3>1
    <2> HIDE DEF f
    <2>5. Reads(f, s, k)
      BY <2>4 DEF Reads
    <2> QED BY <2>5
  <1> QED BY <1>2, <1>3

LEMMA ColumnReads ==
  ASSUME NEW S, NEW s \in Seq(S)
  PROVE  \E f : Reads(f, s, Len(s)) /\ ColumnOf(s) = f[Len(s)]
  <1> DEFINE g == CHOOSE f : Reads(f, s, Len(s))
  <1>1. Reads(g, s, Len(s))
    BY ReadsExist
  <1>2. ColumnOf(s) = g[Len(s)]
    BY DEF ColumnOf, Reads
  <1> QED BY <1>1, <1>2

\* What is read of some letters does not depend on those after them.
LEMMA ReadsAgree ==
  ASSUME NEW s \in Seq(Nat), NEW t \in Seq(Nat), NEW n \in Nat, n <= Len(s), n <= Len(t),
         \A i \in 1 .. n : s[i] = t[i],
         NEW f, NEW g, Reads(f, s, Len(s)), Reads(g, t, Len(t))
  PROVE  f[n] = g[n] /\ f[n] \in Nat
  <1> DEFINE T == {k \in 0 .. n : ~(f[k] = g[k] /\ f[k] \in Nat)}
  <1> SUFFICES ASSUME T # {} PROVE FALSE
    <2>1. n \in 0 .. n
      OBVIOUS
    <2> QED BY <2>1, Zenon
  <1>1. PICK k \in T : \A m \in T : k <= m
    <2>1. T \subseteq Nat
      OBVIOUS
    <2> HIDE DEF T
    <2> QED BY <2>1, Smallest
  <1>2. Len(s) \in Nat /\ Len(t) \in Nat /\ k \in 0 .. Len(s) /\ k \in 0 .. Len(t)
    OBVIOUS
  <1>3. /\ f[k] = IF k = 0 THEN 0 ELSE f[k - 1] * LETTERS + s[k] + 1
        /\ g[k] = IF k = 0 THEN 0 ELSE g[k - 1] * LETTERS + t[k] + 1
    BY <1>2, Zenon DEF Reads
  <1>4. k # 0
    BY <1>1, <1>3
  <1>5. k - 1 \in 0 .. n /\ ~(k <= k - 1) /\ k \in 1 .. n
    BY <1>4
  <1>6. f[k - 1] = g[k - 1] /\ f[k - 1] \in Nat
    BY <1>1, <1>5
  <1>7. s[k] = t[k] /\ s[k] \in Nat
    BY <1>2, <1>5
  <1>8. f[k - 1] * LETTERS \in Nat
    <2>1. LETTERS \in Nat
      BY SheetAssumption
    <2>2. \A a, b \in Nat : a * b \in Nat
      OBVIOUS
    <2> QED BY <1>6, <2>1, <2>2, Zenon
  <1>9. f[k - 1] * LETTERS + s[k] + 1 \in Nat
    <2>1. \A a, b \in Nat : a + b + 1 \in Nat
      OBVIOUS
    <2> QED BY <1>7, <1>8, <2>1, Zenon
  <1>10. f[k] = g[k] /\ f[k] \in Nat
    BY <1>3, <1>4, <1>6, <1>7, <1>9
  <1> QED BY <1>10

LEMMA ColumnAppend ==
  ASSUME NEW s \in Seq(Nat), NEW e \in Nat
  PROVE  ColumnOf(s) \in Nat /\ ColumnOf(Append(s, e)) = ColumnOf(s) * LETTERS + e + 1
  <1> DEFINE t == Append(s, e)
  <1>1. /\ t \in Seq(Nat) /\ Len(s) \in Nat /\ Len(t) = Len(s) + 1 /\ t[Len(s) + 1] = e
        /\ \A i \in 1 .. Len(s) : s[i] = t[i]
    BY AppendProperties
  <1> HIDE DEF t
  <1>2. PICK f : Reads(f, s, Len(s)) /\ ColumnOf(s) = f[Len(s)]
    BY ColumnReads
  <1>3. PICK g : Reads(g, t, Len(t)) /\ ColumnOf(t) = g[Len(t)]
    BY <1>1, ColumnReads
  <1>4. Len(s) <= Len(t) /\ Len(t) \in 0 .. Len(t) /\ Len(t) # 0 /\ Len(t) - 1 = Len(s)
    BY <1>1
  <1>5. f[Len(s)] = g[Len(s)] /\ f[Len(s)] \in Nat
    <2> DEFINE n == Len(s)
    <2>1. n \in Nat /\ n <= Len(s) /\ n <= Len(t) /\ \A i \in 1 .. n : s[i] = t[i]
      BY <1>1
    <2>2. Reads(f, s, Len(s)) /\ Reads(g, t, Len(t))
      BY <1>2, <1>3
    <2> HIDE DEF n
    <2>3. f[n] = g[n] /\ f[n] \in Nat
      BY <1>1, <2>1, <2>2, ReadsAgree
    <2> QED BY <2>3 DEF n
  <1>6. g[Len(t)] = g[Len(t) - 1] * LETTERS + t[Len(t)] + 1
    BY <1>3, <1>4, Zenon DEF Reads
  <1>7. ColumnOf(t) = ColumnOf(s) * LETTERS + e + 1
    BY <1>1, <1>2, <1>3, <1>4, <1>5, <1>6
  <1> QED BY <1>2, <1>5, <1>7 DEF t

LEMMA ColumnEmpty == ColumnOf(<<>>) = 0
  <1> DEFINE s == <<>>
  <1>1. s \in Seq(Nat) /\ Len(s) = 0
    OBVIOUS
  <1> HIDE DEF s
  <1>2. PICK f : Reads(f, s, Len(s)) /\ ColumnOf(s) = f[Len(s)]
    BY <1>1, ColumnReads
  <1>3. f = [k \in 0 .. 0 |-> IF k = 0 THEN 0 ELSE f[k - 1] * LETTERS + s[k] + 1]
    BY <1>1, <1>2 DEF Reads
  <1>4. f[0] = 0
    BY <1>3
  <1> QED BY <1>1, <1>2, <1>4 DEF s

Spells(f, n) ==
    f = [k \in 0 .. n |->
            IF k = 0 THEN <<>> ELSE Append(f[(k - 1) \div LETTERS], (k - 1) % LETTERS)]

\* The recursion of column_letter goes down.
LEMMA SmallerNumber ==
  ASSUME NEW k \in Nat \ {0}
  PROVE  /\ (k - 1) \div LETTERS \in 0 .. k - 1 /\ (k - 1) % LETTERS \in 0 .. LETTERS - 1
         /\ ((k - 1) \div LETTERS) * LETTERS + ((k - 1) % LETTERS) = k - 1
         /\ ~(k <= (k - 1) \div LETTERS)
  <1> DEFINE n == k - 1
  <1>1. n \in Nat /\ LETTERS \in Nat \ {0}
    BY SheetAssumption
  <1> HIDE DEF n
  <1>2. /\ n \div LETTERS \in Nat /\ n % LETTERS \in 0 .. LETTERS - 1
        /\ (n \div LETTERS) * LETTERS + (n % LETTERS) = n
        /\ n \div LETTERS <= n
    BY <1>1, Division
  <1>3. n \div LETTERS \in 0 .. n
    BY <1>1, <1>2
  <1>4. ASSUME NEW q \in Nat, q <= n PROVE ~(k <= q)
    BY <1>4 DEF n
  <1> QED BY <1>2, <1>3, <1>4 DEF n

LEMMA SpellsExist ==
  ASSUME NEW n \in Nat
  PROVE  \E f : Spells(f, n)
  <1> DEFINE T == {k \in Nat : ~\E f : Spells(f, k)}
  <1> SUFFICES ASSUME T # {} PROVE FALSE
    OBVIOUS
  <1>1. PICK k \in T : \A m \in T : k <= m
    BY Smallest
  <1>2. CASE k = 0
    <2> DEFINE f == [i \in 0 .. 0 |-> <<>>]
    <2>1. f = [i \in 0 .. 0 |->
            IF i = 0 THEN <<>> ELSE Append(f[(i - 1) \div LETTERS], (i - 1) % LETTERS)]
      OBVIOUS
    <2> HIDE DEF f
    <2>2. Spells(f, 0)
      BY <2>1 DEF Spells
    <2> QED BY <1>2, <2>2
  <1>3. CASE k # 0
    <2>1. k - 1 \in Nat /\ ~(k <= k - 1)
      BY <1>3
    <2>2. PICK g : Spells(g, k - 1)
      BY <1>1, <2>1
    <2> DEFINE f == [i \in 0 .. k |->
            IF i = 0 THEN <<>> ELSE Append(g[(i - 1) \div LETTERS], (i - 1) % LETTERS)]
    <2>3. ASSUME NEW i \in 0 .. k - 1 PROVE f[i] = g[i]
      <3>1. i \in 0 .. k
        BY <2>1
      <3>2. g[i] = IF i = 0 THEN <<>> ELSE Append(g[(i - 1) \div LETTERS], (i - 1) % LETTERS)
        BY <2>2, Zenon DEF Spells
      <3> QED BY <3>1, <3>2
    <2>4. f = [i \in 0 .. k |->
            IF i = 0 THEN <<>> ELSE Append(f[(i - 1) \div LETTERS], (i - 1) % LETTERS)]
      <3>1. ASSUME NEW i \in 0 .. k, i # 0 PROVE (i - 1) \div LETTERS \in 0 .. k - 1
        <4>1. (i - 1) \div LETTERS \in 0 .. i - 1
          BY <3>1, SmallerNumber
        <4> QED BY <4>1
      <3> QED BY <2>3, <3>1
    <2> HIDE DEF f
    <2>5. Spells(f, k)
      BY <2>4 DEF Spells
    <2> QED BY <2>5
  <1> QED BY <1>2, <1>3

LEMMA SpellsRead ==
  ASSUME NEW n \in Nat, NEW f, Spells(f, n)
  PROVE  f[n] \in Seq(0 .. LETTERS - 1) /\ ColumnOf(f[n]) = n
  <1> DEFINE T == {k \in 0 .. n : ~(f[k] \in Seq(0 .. LETTERS - 1) /\ ColumnOf(f[k]) = k)}
  <1> SUFFICES ASSUME T # {} PROVE FALSE
    OBVIOUS
  <1>1. PICK k \in T : \A m \in T : k <= m
    <2>1. T \subseteq Nat
      OBVIOUS
    <2> HIDE DEF T
    <2> QED BY <2>1, Smallest
  <1>2. f[k] = IF k = 0 THEN <<>> ELSE Append(f[(k - 1) \div LETTERS], (k - 1) % LETTERS)
    BY Zenon DEF Spells
  <1>3. k # 0
    <2>1. <<>> \in Seq(0 .. LETTERS - 1)
      OBVIOUS
    <2> QED BY <1>1, <1>2, <2>1, ColumnEmpty
  <1> DEFINE q == (k - 1) \div LETTERS
             d == (k - 1) % LETTERS
  <1>4. q \in 0 .. k - 1 /\ d \in 0 .. LETTERS - 1 /\ q * LETTERS + d = k - 1 /\ ~(k <= q)
    BY <1>3, SmallerNumber
  <1>5. f[k] = Append(f[q], d)
    BY <1>2, <1>3
  <1> HIDE DEF q, d
  <1>6. f[q] \in Seq(0 .. LETTERS - 1) /\ ColumnOf(f[q]) = q
    <2>1. q \in 0 .. n /\ q \notin T
      BY <1>1, <1>4
    <2> QED BY <2>1
  <1>7. f[k] \in Seq(0 .. LETTERS - 1)
    BY <1>4, <1>5, <1>6, AppendProperties
  <1>8. f[q] \in Seq(Nat) /\ d \in Nat
    <2>1. 0 .. LETTERS - 1 \subseteq Nat
      BY SheetAssumption
    <2>2. ASSUME NEW D, D \subseteq Nat, NEW u \in Seq(D) PROVE u \in Seq(Nat)
      <3>1. u \in [1 .. Len(u) -> D] /\ Len(u) \in Nat
        OBVIOUS
      <3>2. u \in [1 .. Len(u) -> Nat]
        BY <2>2, <3>1
      <3> QED BY <3>1, <3>2, SeqDef
    <2>3. f[q] \in Seq(Nat)
      BY <1>6, <2>1, <2>2, Zenon
    <2> QED BY <1>4, <2>1, <2>3
  <1>9. ColumnOf(f[k]) = q * LETTERS + d + 1
    BY <1>5, <1>6, <1>8, ColumnAppend
  <1>10. ColumnOf(f[k]) = k
    <2>1. q \in Nat /\ LETTERS \in Nat
      BY <1>4, SheetAssumption
    <2> DEFINE p == q * LETTERS
    <2>2. p \in Nat
      BY <2>1, ProductIsNat
    <2>3. p + d = k - 1 /\ ColumnOf(f[k]) = p + d + 1 /\ d \in Nat
      BY <1>4, <1>8, <1>9
    <2> HIDE DEF p
    <2> QED BY <2>2, <2>3
  <1> QED BY <1>7, <1>10

\* column_letter: Excel reads the letters of a column, however many they are, as that
\* column and no other.
THEOREM LettersNameColumns ==
  ASSUME NEW index \in Int, index + 1 \in Nat
  PROVE  /\ column_letter(index) \in Seq(0 .. LETTERS - 1)
         /\ ColumnOf(column_letter(index)) = index + 1
  <1> DEFINE g == CHOOSE f : Spells(f, index + 1)
  <1>1. Spells(g, index + 1)
    BY SpellsExist
  <1>2. column_letter(index) = g[index + 1]
    BY DEF column_letter, Spells
  <1> HIDE DEF g
  <1> QED BY <1>1, <1>2, SpellsRead

-----------------------------------------------------------------------------
(* The invariant.                                                          *)

\* The cells with a value among those that are sent.
Marks(cells) == {i \in DOMAIN cells : cells[i]}

Given(r) == Cardinality(sent[r].names) + Cardinality(Marks(sent[r].cells))

\* The attempts that are over, each of which may have added a row.
Attempts == Requests \X (0 .. MostTries)
Over(spent, at) == {a \in Attempts : a[2] < spent[a[1]]
                                     \/ (a[2] = spent[a[1]] /\ at[a[1]] = "done")}
Taken == Over(tries, pc)

\* There is no data below this row.
Floor == FirstRows + Cardinality(Taken)

\* What a request at each step is there for.
ControlInv(r) ==
    /\ pc[r] # "done" => answer[r] = NoAnswer
    /\ pc[r] \in {"start", "put", "chunk"} => ~stale[r]
    /\ pc[r] \in {"start", "probe"} /\ mode = "graph" => tries[r] = 0
    /\ pc[r] \in {"add", "probe", "patch"} => mode = "graph"
    /\ pc[r] \in {"put", "chunk"} => mode = "download"
    /\ pc[r] = "add" => place[r] = "table"
    /\ pc[r] \in {"probe", "patch"} => place[r] = "sheet"
    /\ sent[r].names # {} => place[r] = "table"

\* A table has names and a header without blanks, and all data is within reach.
SheetInv ==
    /\ table.right <= LastCol /\ IsInjective(columns)
    /\ \A c \in Columns(table) : grid[table.top][c] # Blank
    /\ table.bottom <= Floor
    /\ \A row \in Rows, c \in Cols : grid[row][c] # Blank => row <= Floor

\* The cells ordered for a table fit it, and while its columns stay so does their order.
OrderedInv(r) ==
    pc[r] = "add" =>
        /\ Len(ordered[r]) = Len(columns)
        /\ Cardinality(Marks(ordered[r])) <= Given(r)
        /\ ~stale[r] => ordered[r] = Ordered(r)

\* Where a sheet row goes lies below the data, or is what the request itself wrote there.
Below(r) ==
    LET left == ColumnOf(address[r].from) IN
    /\ left = LeftEdge(grid, address[r].row)
    /\ \A row \in Rows, c \in Cols : grid[row][c] # Blank =>
          /\ left <= c /\ row <= address[r].row
          /\ row = address[r].row <=> grid[row][c] = r
          /\ row = address[r].row => c - left + 1 \in Marks(sent[r].cells)

\* A used range, and an address made from it, lie below the table's header and within
\* reach; and they are still right if nothing was changed.
AddressInv(r) ==
    /\ pc[r] = "probe" =>
          /\ used[r].col \in 1 .. LastCol
          /\ used[r].row + used[r].rows \in table.top + 1 .. Floor + 1
          /\ ~stale[r] => used[r] = UsedRange
    /\ pc[r] = "patch" =>
          /\ ColumnOf(address[r].from) \in 1 .. LastCol
          /\ ColumnOf(address[r].to) = ColumnOf(address[r].from) + Len(sent[r].cells) - 1
          /\ address[r].row \in table.top + 1 .. Floor + 1
          /\ ~stale[r] => Below(r)

\* How often a request's values are in the sheet.
CountInv(r) ==
    /\ Cardinality(Cells(grid, r)) <= Given(r) * (tries[r] + IF pc[r] = "done" THEN 1 ELSE 0)
    /\ mode = "graph" /\ place[r] = "sheet" /\ pc[r] = "done" /\ ~stale[r]
          => Cardinality(Cells(grid, r)) <= Given(r)

\* The cells in the order of some columns.
OrderedBy(cs, r) ==
    IF sent[r].names = {} THEN sent[r].cells
    ELSE [i \in DOMAIN cs |-> cs[i] \in sent[r].names]

\* The cells, and no others of as many, hold what r wrote.
Shows(h, row, col, cells, r) == \A i \in DOMAIN cells : cells[i] <=> h[row][col + i - 1] = r

\* In the sheet g with the table t of columns cs the row of r, which is told its number, is
\* where RowIsAtTheEnd wants it to be.
AtEnd(r, g, t, cs, told) ==
    LET ofTable == place[r] = "table"
        row == IF ofTable THEN t.top + told ELSE told
        left == IF ofTable THEN t.left ELSE LeftEdge(g, row)
        cells == IF ofTable THEN OrderedBy(cs, r) ELSE sent[r].cells
        width == IF ofTable THEN Columns(t) ELSE Cols
    IN  /\ Shows(g, row, left, cells, r)
        /\ \A s \in Rows : s > row /\ (ofTable => s <= t.bottom) => IsBlankRow(g, s, width)

\* The sheet h holds all the data of g.
NoneLost(g, h) ==
    \A v \in Values \ {Blank} : Cardinality(Cells(g, v)) <= Cardinality(Cells(h, v))

\* What SheetInv and TableRowsStayInTable say of the file, of a workbook w.
Shape(w) ==
    /\ w \in Copies /\ Len(w.columns) = w.table.right - w.table.left + 1
    /\ w.table.right <= LastCol /\ IsInjective(w.columns)
    /\ \A c \in Columns(w.table) : w.grid[w.table.top][c] # Blank
Within(w, last) ==
    /\ w.table.bottom <= last
    /\ \A row \in Rows, c \in Cols : w.grid[row][c] # Blank => row <= last
Inside(w) ==
    \A s \in Requests : place[s] = "table" => \A c \in Cells(w.grid, s) :
        c[1] \in w.table.top + 1 .. w.table.bottom /\ c[2] \in Columns(w.table)

\* How often s may have added its row, if this is r, or s has ended, once more.
Rounds(s, r) == tries[s] + IF pc[s] = "done" \/ s = r THEN 1 ELSE 0
Counted(w, r) ==
    \A s \in Requests : Cardinality(Cells(w.grid, s)) <= Given(s) * Rounds(s, r)

\* A workbook that r may save.
Good(w, r) ==
    /\ Shape(w) /\ Within(w, Floor + 1) /\ Inside(w) /\ Counted(w, r)
    /\ AtEnd(r, w.grid, w.table, w.columns, w.row)

\* The copy of a request that is going to save one; it was made from what is in the file,
\* if that is current.
CopyInv(r) ==
    pc[r] \in {"put", "chunk"} =>
        /\ Good(edited[r], r)
        /\ r \in current => NoneLost(grid, edited[r].grid)

RequestInv(r) ==
    ControlInv(r) /\ OrderedInv(r) /\ AddressInv(r) /\ CountInv(r) /\ CopyInv(r)

ExcelInv ==
    TypeOK /\ SheetInv /\ TableRowsStayInTable /\ \A r \in Requests : RequestInv(r)

-----------------------------------------------------------------------------
(* Sheets, and how often a value is in them.                               *)

\* h is g with cells written from a column of a row on.
Wrote(h, g, row, col, cells, r) ==
    \A s \in Rows, c \in Cols :
        h[s][c] = IF s = row /\ c \in col .. col + Len(cells) - 1
                  THEN IF cells[c - col + 1] THEN r ELSE Blank
                  ELSE g[s][c]

LEMMA RowWritten ==
  ASSUME NEW g \in Grids, NEW row \in Rows, NEW col \in Nat, NEW cells \in Seq(BOOLEAN),
         NEW r \in Requests
  PROVE  /\ WithRow(g, row, col, cells, r) \in Grids
         /\ Wrote(WithRow(g, row, col, cells, r), g, row, col, cells, r)
  <1> DEFINE new == [c \in Cols |-> IF c \notin col .. col + Len(cells) - 1 THEN g[row][c]
                                    ELSE IF cells[c - col + 1] THEN r ELSE Blank]
  <1>1. WithRow(g, row, col, cells, r) = [g EXCEPT ![row] = new]
    BY DEF WithRow
  <1>2. g \in [Rows -> [Cols -> Values]] /\ r \in Values /\ Blank \in Values
    BY DEF Grids, Values
  <1>3. new \in [Cols -> Values]
    BY <1>2
  <1>4. \A c \in Cols : new[c] = IF c \notin col .. col + Len(cells) - 1 THEN g[row][c]
                                  ELSE IF cells[c - col + 1] THEN r ELSE Blank
    OBVIOUS
  <1> HIDE DEF new
  <1>5. [g EXCEPT ![row] = new] \in [Rows -> [Cols -> Values]]
    BY <1>2, <1>3
  <1>6. \A s \in Rows : [g EXCEPT ![row] = new][s] = IF s = row THEN new ELSE g[s]
    BY <1>2
  <1>7. Wrote([g EXCEPT ![row] = new], g, row, col, cells, r)
    BY <1>4, <1>6 DEF Wrote
  <1> QED BY <1>1, <1>5, <1>7 DEF Grids

LEMMA SheetFinite ==
  /\ IsFiniteSet(Rows \X Cols)
  /\ \A g, v : IsFiniteSet(Cells(g, v)) /\ Cardinality(Cells(g, v)) \in Nat
  <1>1. IsFiniteSet(Rows) /\ IsFiniteSet(Cols)
    BY SheetAssumption, FS_Interval DEF Rows, Cols
  <1>2. IsFiniteSet(Rows \X Cols)
    BY <1>1, FS_Product
  <1>3. ASSUME NEW g, NEW v PROVE IsFiniteSet(Cells(g, v)) /\ Cardinality(Cells(g, v)) \in Nat
    <2>1. Cells(g, v) \in SUBSET (Rows \X Cols)
      BY DEF Cells
    <2> QED BY <1>2, <2>1, FS_Subset, FS_CardinalityType
  <1> QED BY <1>2, <1>3

\* Marks, and the cells that they stand for.
LEMMA MarksFinite ==
  ASSUME NEW cells \in Seq(BOOLEAN)
  PROVE  /\ IsFiniteSet(Marks(cells)) /\ Cardinality(Marks(cells)) \in Nat
         /\ Marks(cells) \subseteq 1 .. Len(cells)
  <1>1. IsFiniteSet(1 .. Len(cells))
    BY FS_Interval
  <1>2. Marks(cells) \in SUBSET (1 .. Len(cells))
    BY DEF Marks
  <1> QED BY <1>1, <1>2, FS_Subset, FS_CardinalityType

Placed(row, col, cells) ==
    {c \in Rows \X Cols : c[1] = row /\ c[2] - col + 1 \in Marks(cells)}

LEMMA PlacedCount ==
  ASSUME NEW row, NEW col \in Nat, NEW cells \in Seq(BOOLEAN)
  PROVE  /\ IsFiniteSet(Placed(row, col, cells))
         /\ Cardinality(Placed(row, col, cells)) \in Nat
         /\ Cardinality(Placed(row, col, cells)) <= Cardinality(Marks(cells))
  <1> DEFINE P == Placed(row, col, cells)
             f == [c \in P |-> c[2] - col + 1]
  <1>1. P \in SUBSET (Rows \X Cols)
    BY DEF Placed
  <1>2. IsFiniteSet(P) /\ Cardinality(P) \in Nat
    BY <1>1, SheetFinite, FS_Subset, FS_CardinalityType
  <1>3. f \in [P -> Marks(cells)]
    BY DEF Placed
  <1>4. ASSUME NEW a \in P, NEW b \in P, f[a] = f[b] PROVE a = b
    <2>1. /\ a \in Rows \X Cols /\ b \in Rows \X Cols /\ a[1] = row /\ b[1] = row
          /\ a[2] - col + 1 = b[2] - col + 1
      BY <1>4 DEF Placed
    <2>2. a[2] \in Nat /\ b[2] \in Nat
      BY <2>1 DEF Cols
    <2>3. a[2] = b[2]
      BY <2>1, <2>2
    <2> QED BY <2>1, <2>3
  <1> HIDE DEF f
  <1>5. f \in Injection(P, Marks(cells))
    BY <1>3, <1>4 DEF Injection, IsInjective
  <1>6. Cardinality(P) <= Cardinality(Marks(cells))
    BY <1>5, MarksFinite, FS_Injection
  <1> QED BY <1>2, <1>6

\* Where a row was written there are no more than its marks.
LEMMA CountWritten ==
  ASSUME NEW A, IsFiniteSet(A), NEW row, NEW col \in Nat, NEW cells \in Seq(BOOLEAN),
         NEW B, B \subseteq A \cup Placed(row, col, cells)
  PROVE  Cardinality(B) <= Cardinality(A) + Cardinality(Marks(cells))
  <1> DEFINE P == Placed(row, col, cells)
  <1>1. IsFiniteSet(P) /\ Cardinality(P) \in Nat /\ Cardinality(P) <= Cardinality(Marks(cells))
    BY PlacedCount
  <1>2. Cardinality(A) \in Nat /\ Cardinality(Marks(cells)) \in Nat
    BY FS_CardinalityType, MarksFinite
  <1>3. B \in SUBSET (A \cup P)
    OBVIOUS
  <1> HIDE DEF P
  <1>4. /\ IsFiniteSet(A \cup P)
        /\ Cardinality(A \cup P) = Cardinality(A) + Cardinality(P) - Cardinality(A \cap P)
    BY <1>1, FS_Union
  <1>5. Cardinality(A \cap P) \in Nat
    <2>1. IsFiniteSet(A \cap P)
      BY FS_Intersection
    <2> QED BY <2>1, FS_CardinalityType
  <1>6. Cardinality(B) \in Nat /\ Cardinality(B) <= Cardinality(A \cup P)
    <2>1. IsFiniteSet(B) /\ Cardinality(B) <= Cardinality(A \cup P)
      BY <1>3, <1>4, FS_Subset
    <2> QED BY <2>1, FS_CardinalityType
  <1>7. Cardinality(A \cup P) \in Nat
    BY <1>4, FS_CardinalityType
  <1> QED BY <1>1, <1>2, <1>4, <1>5, <1>6, <1>7

LEMMA FewerCells ==
  ASSUME NEW g, NEW h, NEW v, Cells(h, v) \subseteq Cells(g, v)
  PROVE  Cardinality(Cells(h, v)) <= Cardinality(Cells(g, v))
  BY SheetFinite, FS_Subset

\* Cells that go to different cells of another sheet.
LEMMA MovedCells ==
  ASSUME NEW A, NEW B, IsFiniteSet(B), NEW f \in [A -> B],
         \A x, y \in A : f[x] = f[y] => x = y
  PROVE  Cardinality(A) <= Cardinality(B)
  <1>1. f \in Injection(A, B)
    BY DEF Injection, IsInjective
  <1> QED BY <1>1, FS_Injection

\* h is g with a row inserted below a table.
Shifted(h, g, t, cells, r) ==
    \A s \in Rows, c \in Cols :
        h[s][c] = IF c \notin Columns(t) \/ s <= t.bottom THEN g[s][c]
                  ELSE IF s = t.bottom + 1
                  THEN IF cells[c - t.left + 1] THEN r ELSE Blank
                  ELSE g[s - 1][c]

LEMMA TableShape ==
  ASSUME NEW t \in Refs
  PROVE  /\ t.left \in Nat /\ t.right \in Nat /\ t.top \in Nat /\ t.bottom \in Nat
         /\ t.left \in Cols /\ t.right \in Cols /\ t.top \in Rows /\ t.bottom \in Rows
         /\ t.left <= t.right /\ t.top <= t.bottom /\ t.left >= 1 /\ t.top >= 1
         /\ Columns(t) \subseteq Cols
  BY SheetAssumption DEF Refs, Rows, Cols, Columns

\* rows/add moves what is under the table and loses none of it, unless at the sheet's end.
LEMMA ShiftCount ==
  ASSUME NEW g, NEW h, NEW t \in Refs,
         NEW cells \in Seq(BOOLEAN), Len(cells) = t.right - t.left + 1,
         NEW r, Shifted(h, g, t, cells, r), NEW v, v # Blank
  PROVE  /\ v # r => Cardinality(Cells(h, v)) <= Cardinality(Cells(g, v))
         /\ Cardinality(Cells(h, v)) <= Cardinality(Cells(g, v)) + Cardinality(Marks(cells))
         /\ t.bottom < MaxRow /\ (\A c \in Columns(t) : g[MaxRow][c] = Blank)
               => Cardinality(Cells(g, v)) <= Cardinality(Cells(h, v))
  <1> DEFINE below == t.bottom + 1
             A == {x \in Cells(h, v) : ~(x[2] \in Columns(t) /\ x[1] = below)}
             f == [x \in A |-> <<IF x[2] \in Columns(t) /\ x[1] > below
                                 THEN x[1] - 1 ELSE x[1], x[2]>>]
             B == Cells(g, v)
             e == [x \in B |-> <<IF x[2] \in Columns(t) /\ x[1] > t.bottom
                                 THEN x[1] + 1 ELSE x[1], x[2]>>]
  <1>1. /\ t.bottom \in Nat /\ t.left \in Nat /\ t.bottom >= 1 /\ t.bottom \in Rows
        /\ MaxRow \in Nat
    BY TableShape, SheetAssumption DEF Rows
  <1>2. \A x \in Cells(h, v) \cup Cells(g, v) :
           x \in Rows \X Cols /\ x = <<x[1], x[2]>> /\ x[1] \in Nat /\ x[2] \in Cols
    BY DEF Cells, Rows
  <1>3. f \in [A -> Cells(g, v)]
    <2>1. ASSUME NEW x \in A PROVE f[x] \in Cells(g, v)
      <3>1. /\ x[1] \in Rows /\ x[2] \in Cols /\ h[x[1]][x[2]] = v
            /\ ~(x[2] \in Columns(t) /\ x[1] = below)
        BY <1>2 DEF Cells
      <3>2. CASE x[2] \in Columns(t) /\ x[1] > below
        <4>1. x[1] - 1 \in Rows /\ h[x[1]][x[2]] = g[x[1] - 1][x[2]]
          BY <1>1, <3>1, <3>2 DEF Shifted, Rows
        <4>2. f[x] = <<x[1] - 1, x[2]>>
          BY <3>2
        <4> QED BY <3>1, <4>1, <4>2 DEF Cells
      <3>3. CASE ~(x[2] \in Columns(t) /\ x[1] > below)
        <4>1. h[x[1]][x[2]] = g[x[1]][x[2]]
          <5>1. x[2] \notin Columns(t) \/ x[1] <= t.bottom
            BY <1>1, <3>1, <3>3 DEF Rows
          <5> QED BY <3>1, <5>1 DEF Shifted
        <4>2. f[x] = <<x[1], x[2]>>
          BY <3>3
        <4> QED BY <3>1, <4>1, <4>2 DEF Cells
      <3> QED BY <3>2, <3>3
    <2> QED BY <2>1
  <1>4. ASSUME NEW x \in A, NEW y \in A, f[x] = f[y] PROVE x = y
    <2>1. /\ x[1] \in Nat /\ y[1] \in Nat /\ x = <<x[1], x[2]>> /\ y = <<y[1], y[2]>>
          /\ ~(x[2] \in Columns(t) /\ x[1] = below) /\ ~(y[2] \in Columns(t) /\ y[1] = below)
      BY <1>2
    <2>2. /\ x[2] = y[2]
          /\ (IF x[2] \in Columns(t) /\ x[1] > below THEN x[1] - 1 ELSE x[1])
               = (IF y[2] \in Columns(t) /\ y[1] > below THEN y[1] - 1 ELSE y[1])
      BY <1>4
    <2>3. x[1] = y[1]
      BY <1>1, <2>1, <2>2
    <2> QED BY <2>1, <2>2, <2>3
  <1>5. IsFiniteSet(Cells(g, v)) /\ IsFiniteSet(Cells(h, v))
        /\ Cardinality(Cells(g, v)) \in Nat /\ Cardinality(Cells(h, v)) \in Nat
    BY SheetFinite
  <1>6. Cardinality(A) <= Cardinality(Cells(g, v)) /\ IsFiniteSet(A) /\ Cardinality(A) \in Nat
    <2>1. IsFiniteSet(A)
      <3>1. A \in SUBSET Cells(h, v)
        OBVIOUS
      <3> QED BY <1>5, <3>1, FS_Subset
    <2> HIDE DEF A, f
    <2>2. Cardinality(A) <= Cardinality(Cells(g, v))
      BY <1>3, <1>4, <1>5, MovedCells
    <2> QED BY <2>1, <2>2, FS_CardinalityType
  <1>7. ASSUME NEW x \in Cells(h, v), x \notin A
        PROVE  v = r /\ x \in Placed(below, t.left, cells)
    <2>1. x[1] \in Rows /\ x[2] \in Cols /\ h[x[1]][x[2]] = v /\ x[2] \in Columns(t) /\ x[1] = below
      BY <1>2, <1>7 DEF Cells
    <2>2. h[x[1]][x[2]] = IF cells[x[2] - t.left + 1] THEN r ELSE Blank
      BY <1>1, <2>1 DEF Shifted, Rows
    <2>3. cells[x[2] - t.left + 1] /\ v = r
      BY <2>1, <2>2
    <2>4. x[2] - t.left + 1 \in DOMAIN cells
      <3>1. DOMAIN cells = 1 .. Len(cells) /\ t.left \in Nat /\ t.right \in Nat
        BY TableShape
      <3>2. x[2] \in Nat /\ t.left <= x[2] /\ x[2] <= t.right
        BY <2>1 DEF Columns, Cols
      <3> QED BY <3>1, <3>2
    <2> QED BY <1>2, <2>1, <2>3, <2>4 DEF Placed, Marks
  <1>8. v # r => Cardinality(Cells(h, v)) <= Cardinality(Cells(g, v))
    <2>1. ASSUME v # r PROVE Cells(h, v) = A
      BY <1>7, <2>1
    <2> HIDE DEF A
    <2> QED BY <1>6, <2>1
  <1>9. Cardinality(Cells(h, v)) <= Cardinality(Cells(g, v)) + Cardinality(Marks(cells))
    <2>1. Cells(h, v) \subseteq A \cup Placed(below, t.left, cells)
      BY <1>7
    <2> HIDE DEF A
    <2>2. Cardinality(Cells(h, v)) <= Cardinality(A) + Cardinality(Marks(cells))
      BY <1>1, <1>6, <2>1, CountWritten
    <2>3. Cardinality(Marks(cells)) \in Nat
      BY MarksFinite
    <2> QED BY <1>5, <1>6, <2>2, <2>3
  <1>10. ASSUME t.bottom < MaxRow, \A c \in Columns(t) : g[MaxRow][c] = Blank
         PROVE  Cardinality(Cells(g, v)) <= Cardinality(Cells(h, v))
    <2>1. ASSUME NEW x \in B PROVE e[x] \in Cells(h, v)
      <3>1. x[1] \in Rows /\ x[2] \in Cols /\ g[x[1]][x[2]] = v
        BY <1>2 DEF Cells
      <3>2. CASE x[2] \in Columns(t) /\ x[1] > t.bottom
        <4>1. x[1] # MaxRow
          BY <1>10, <3>1, <3>2
        <4>2. x[1] + 1 \in Rows /\ x[1] + 1 > t.bottom + 1 /\ x[1] + 1 - 1 = x[1]
          BY <1>1, <3>1, <3>2, <4>1 DEF Rows
        <4>3. h[x[1] + 1][x[2]] = g[x[1]][x[2]]
          <5>1. ASSUME NEW s \in Rows, s > t.bottom + 1, NEW q, q = s - 1
                PROVE  h[s][x[2]] = g[q][x[2]]
            <6>1. ~(s <= t.bottom) /\ s # t.bottom + 1
              BY <1>1, <5>1 DEF Rows
            <6> QED BY <3>1, <3>2, <5>1, <6>1 DEF Shifted
          <5> DEFINE p == x[1] + 1
          <5>2. p \in Rows /\ p > t.bottom + 1 /\ x[1] = p - 1
            BY <1>1, <3>1, <4>2 DEF Rows
          <5> HIDE DEF p
          <5>3. h[p][x[2]] = g[x[1]][x[2]]
            BY <5>1, <5>2
          <5> QED BY <5>3 DEF p
        <4>4. e[x] = <<x[1] + 1, x[2]>>
          BY <3>2
        <4> QED BY <3>1, <4>2, <4>3, <4>4 DEF Cells
      <3>3. CASE ~(x[2] \in Columns(t) /\ x[1] > t.bottom)
        <4>1. h[x[1]][x[2]] = g[x[1]][x[2]]
          <5>1. x[2] \notin Columns(t) \/ x[1] <= t.bottom
            BY <1>1, <3>1, <3>3 DEF Rows
          <5> QED BY <3>1, <5>1 DEF Shifted
        <4>2. e[x] = <<x[1], x[2]>>
          BY <3>3
        <4> QED BY <3>1, <4>1, <4>2 DEF Cells
      <3> QED BY <3>2, <3>3
    <2>2. e \in [B -> Cells(h, v)]
      BY <2>1
    <2>3. ASSUME NEW x \in B, NEW y \in B, e[x] = e[y] PROVE x = y
      <3>1. x[1] \in Nat /\ y[1] \in Nat /\ x = <<x[1], x[2]>> /\ y = <<y[1], y[2]>>
        BY <1>2
      <3>2. /\ x[2] = y[2]
            /\ (IF x[2] \in Columns(t) /\ x[1] > t.bottom THEN x[1] + 1 ELSE x[1])
                 = (IF y[2] \in Columns(t) /\ y[1] > t.bottom THEN y[1] + 1 ELSE y[1])
        BY <2>3
      <3>3. x[1] = y[1]
        BY <1>1, <3>1, <3>2
      <3> QED BY <3>1, <3>2, <3>3
    <2> HIDE DEF e
    <2> QED BY <1>5, <2>2, <2>3, MovedCells
  <1> QED BY <1>8, <1>9, <1>10

\* h is g with two columns of a table exchanged.
Exchanged(h, g, t, c, d) ==
    \A s \in Rows, k \in Cols :
        h[s][k] = IF s \notin t.top .. t.bottom \/ k \notin {c, d} THEN g[s][k]
                  ELSE IF k = c THEN g[s][d] ELSE g[s][c]

LEMMA ExchangeKeeps ==
  ASSUME NEW g, NEW h, NEW t, NEW c \in Cols, NEW d \in Cols, c # d,
         Exchanged(h, g, t, c, d), NEW v
  PROVE  Cardinality(Cells(h, v)) <= Cardinality(Cells(g, v))
  <1> DEFINE In(x) == x[1] \in t.top .. t.bottom
             A == Cells(h, v)
             f == [x \in A |-> <<x[1], IF In(x) /\ x[2] = c THEN d
                                       ELSE IF In(x) /\ x[2] = d THEN c ELSE x[2]>>]
  <1>1. \A x \in A : x[1] \in Rows /\ x[2] \in Cols /\ x = <<x[1], x[2]>> /\ h[x[1]][x[2]] = v
    BY DEF Cells
  <1>2. ASSUME NEW x \in A PROVE f[x] \in Cells(g, v)
    <2>1. CASE In(x) /\ x[2] = c
      <3>1. g[x[1]][d] = v
        BY <1>1, <2>1 DEF Exchanged
      <3>2. f[x] = <<x[1], d>>
        BY <2>1
      <3> QED BY <1>1, <3>1, <3>2 DEF Cells
    <2>2. CASE In(x) /\ x[2] = d
      <3>1. g[x[1]][c] = v
        BY <1>1, <2>2 DEF Exchanged
      <3>2. f[x] = <<x[1], c>>
        BY <2>2
      <3> QED BY <1>1, <3>1, <3>2 DEF Cells
    <2>3. CASE ~(In(x) /\ x[2] = c) /\ ~(In(x) /\ x[2] = d)
      <3>1. g[x[1]][x[2]] = v
        BY <1>1, <2>3 DEF Exchanged
      <3>2. f[x] = <<x[1], x[2]>>
        BY <2>3
      <3> QED BY <1>1, <3>1, <3>2 DEF Cells
    <2> QED BY <2>1, <2>2, <2>3
  <1>3. f \in [A -> Cells(g, v)]
    BY <1>2
  <1>4. ASSUME NEW x \in A, NEW y \in A, f[x] = f[y] PROVE x = y
    <2>1. /\ x = <<x[1], x[2]>> /\ y = <<y[1], y[2]>>
      BY <1>1
    <2>2. /\ x[1] = y[1]
          /\ (IF In(x) /\ x[2] = c THEN d ELSE IF In(x) /\ x[2] = d THEN c ELSE x[2])
               = (IF In(y) /\ y[2] = c THEN d ELSE IF In(y) /\ y[2] = d THEN c ELSE y[2])
      BY <1>4
    <2>3. In(x) <=> In(y)
      BY <2>2
    <2> HIDE DEF In
    <2>4. x[2] = y[2]
      BY <2>2, <2>3
    <2> QED BY <2>1, <2>2, <2>4
  <1>5. IsFiniteSet(Cells(g, v))
    BY SheetFinite
  <1> HIDE DEF f, A
  <1>6. Cardinality(A) <= Cardinality(Cells(g, v))
    BY <1>3, <1>4, <1>5, MovedCells
  <1> QED BY <1>6 DEF A

LEMMA ExchangeCount ==
  ASSUME NEW g, NEW h, NEW t, NEW c \in Cols, NEW d \in Cols, c # d,
         Exchanged(h, g, t, c, d), NEW v
  PROVE  Cardinality(Cells(h, v)) = Cardinality(Cells(g, v))
  <1>1. Exchanged(g, h, t, c, d)
    BY DEF Exchanged
  <1>2. /\ Cardinality(Cells(h, v)) <= Cardinality(Cells(g, v))
        /\ Cardinality(Cells(g, v)) <= Cardinality(Cells(h, v))
    BY <1>1, ExchangeKeeps
  <1>3. Cardinality(Cells(h, v)) \in Nat /\ Cardinality(Cells(g, v)) \in Nat
    BY SheetFinite
  <1> QED BY <1>2, <1>3

-----------------------------------------------------------------------------
(* What is read of a sheet.                                                *)

LEMMA UsedPart ==
  ASSUME TypeOK, SheetInv
  PROVE  /\ UsedRows(grid) # {} /\ UsedCols(grid) # {}
         /\ LastUsedRow(grid) \in Rows /\ FirstUsedCol(grid) \in 1 .. LastCol
         /\ FirstUsedCol(grid) \in Cols
         /\ LastUsedCol(grid) \in Cols /\ Min(UsedRows(grid)) \in Rows
         /\ FirstUsedCol(grid) <= LastUsedCol(grid) /\ Min(UsedRows(grid)) <= LastUsedRow(grid)
         /\ table.top <= LastUsedRow(grid) /\ LastUsedRow(grid) <= Floor
         /\ \A row \in Rows, c \in Cols : grid[row][c] # Blank =>
               row <= LastUsedRow(grid) /\ FirstUsedCol(grid) <= c
  <1> DEFINE R == UsedRows(grid)
             C == UsedCols(grid)
  <1>1. MaxRow \in Nat /\ MaxCol \in Nat /\ LastCol \in Nat
    BY SheetAssumption
  <1>2. R \subseteq Rows /\ C \subseteq Cols
    BY DEF UsedRows, UsedCols
  <1>3. table \in Refs
    BY DEF TypeOK
  <1>4. /\ table.left \in Cols /\ table.left \in Nat /\ table.top \in Rows
        /\ table.left \in Columns(table) /\ table.left <= LastCol
    BY <1>1, <1>3, TableShape DEF Columns, SheetInv
  <1>5. grid[table.top][table.left] # Blank
    BY <1>4 DEF SheetInv
  <1>6. \A row \in Rows, c \in Cols : grid[row][c] # Blank => row \in R /\ c \in C
    BY DEF UsedRows, UsedCols, IsBlankRow
  <1>7. table.top \in R /\ table.left \in C
    BY <1>4, <1>5, <1>6
  <1>8. \A row \in R : row <= Floor
    <2>1. \A row \in R : row \in Rows /\ \E c \in Cols : grid[row][c] # Blank
      BY DEF UsedRows, IsBlankRow
    <2> QED BY <2>1 DEF SheetInv
  <1>9. R \subseteq Nat /\ C \subseteq Nat /\ R \subseteq 0 .. MaxRow /\ C \subseteq 0 .. MaxCol
    BY <1>1, <1>2 DEF Rows, Cols
  <1>10. LastUsedRow(grid) = Max(R) /\ FirstUsedCol(grid) = Min(C) /\ LastUsedCol(grid) = Max(C)
    BY <1>7 DEF LastUsedRow, FirstUsedCol, LastUsedCol
  <1> HIDE DEF R, C
  <1>11. /\ Max(R) \in R /\ \A m \in R : Max(R) >= m
         /\ Max(C) \in C /\ \A m \in C : Max(C) >= m
    BY <1>1, <1>7, <1>9, MaxIsLast
  <1>12. /\ Min(R) \in R /\ \A m \in R : Min(R) <= m
         /\ Min(C) \in C /\ \A m \in C : Min(C) <= m
    BY <1>7, <1>9, MinIsFirst
  <1>13. Min(C) \in 1 .. LastCol
    <2>1. Min(C) <= table.left /\ Min(C) \in Cols
      BY <1>2, <1>7, <1>12
    <2> QED BY <1>1, <1>4, <2>1 DEF Cols
  <1>14. Max(R) \in Nat /\ Min(R) \in Nat /\ Max(C) \in Nat /\ Min(C) \in Nat
    BY <1>9, <1>11, <1>12
  <1>15. \A m \in R : m \in Nat /\ m <= Max(R)
    BY <1>9, <1>11, <1>14
  <1>16. /\ R # {} /\ C # {} /\ Max(R) \in Rows /\ Min(C) \in Cols /\ Max(C) \in Cols
         /\ Min(R) \in Rows
    BY <1>2, <1>7, <1>11, <1>12
  <1>17. Min(C) <= Max(C) /\ Min(R) <= Max(R) /\ table.top <= Max(R) /\ Max(R) <= Floor
    BY <1>7, <1>8, <1>11, <1>12, <1>15
  <1>18. \A row \in Rows, c \in Cols : grid[row][c] # Blank => row <= Max(R) /\ Min(C) <= c
    BY <1>6, <1>12, <1>15
  <1> QED BY <1>10, <1>13, <1>16, <1>17, <1>18 DEF R, C

LEMMA RangeRead ==
  ASSUME TypeOK, SheetInv
  PROVE  /\ UsedRange \in [row: Nat, col: Nat, rows: Nat, cols: Nat]
         /\ UsedRange.row + UsedRange.rows = LastUsedRow(grid) + 1
         /\ UsedRange.col = FirstUsedCol(grid)
  <1> DEFINE row == Min(UsedRows(grid))
             last == LastUsedRow(grid)
             first == FirstUsedCol(grid)
             right == LastUsedCol(grid)
             range == [row |-> row, col |-> first, rows |-> last - row + 1,
                       cols |-> right - first + 1]
  <1>1. UsedRows(grid) # {} /\ row \in Nat /\ last \in Nat /\ first \in Nat /\ right \in Nat
        /\ row <= last /\ first <= right
    BY UsedPart DEF Rows, Cols
  <1>2. UsedRange = range
    BY <1>1 DEF UsedRange
  <1> HIDE DEF row, last, first, right
  <1>3. last - row + 1 \in Nat /\ right - first + 1 \in Nat /\ row + (last - row + 1) = last + 1
    BY <1>1
  <1>4. range \in [row: Nat, col: Nat, rows: Nat, cols: Nat]
    BY <1>1, <1>3
  <1>5. range.row + range.rows = last + 1 /\ range.col = first
    BY <1>3
  <1> QED BY <1>2, <1>4, <1>5 DEF last, first

\* The first blank row below the data of the table.
LEMMA Target ==
  ASSUME TypeOK, SheetInv
  PROVE  /\ TargetRow \in Nat /\ TargetRow > table.top /\ TargetRow <= table.bottom + 1
         /\ \A row \in Rows, c \in Columns(table) :
               row >= TargetRow /\ row <= table.bottom => grid[row][c] = Blank
  <1> DEFINE D == {r \in table.top + 1 .. table.bottom : ~IsBlankRow(grid, r, Columns(table))}
             T == {table.top} \cup D
  <1>1. /\ table.top \in Nat /\ table.bottom \in Nat /\ table.top <= table.bottom
        /\ table.top >= 1
    BY TableShape DEF TypeOK
  <1>2. T \subseteq 0 .. table.bottom /\ T # {}
    BY <1>1
  <1>3. LastWithData(grid, table) = Max(T)
    BY DEF LastWithData
  <1>4. \A row \in Rows : row > table.top /\ row <= table.bottom /\ row \notin T =>
           IsBlankRow(grid, row, Columns(table))
    BY <1>1 DEF Rows
  <1>5. table.top \in T
    OBVIOUS
  <1> HIDE DEF T
  <1>6. Max(T) \in T /\ \A m \in T : Max(T) >= m
    BY <1>1, <1>2, MaxIsLast
  <1>7. Max(T) \in Nat /\ Max(T) >= table.top /\ Max(T) <= table.bottom
    <2>1. Max(T) \in 0 .. table.bottom
      BY <1>2, <1>6
    <2>2. Max(T) >= table.top
      BY <1>5, <1>6
    <2> QED BY <1>1, <2>1, <2>2
  <1>8. TargetRow = Max(T) + 1
    BY <1>3 DEF TargetRow
  <1>9. ASSUME NEW row \in Rows, row >= Max(T) + 1, row <= table.bottom
        PROVE  IsBlankRow(grid, row, Columns(table))
    <2>1. row \in Nat /\ row > table.top /\ ~(Max(T) >= row)
      BY <1>1, <1>7, <1>9 DEF Rows
    <2>2. row \notin T
      BY <1>6, <2>1
    <2> QED BY <1>4, <1>9, <2>1, <2>2
  <1> QED BY <1>1, <1>7, <1>8, <1>9 DEF IsBlankRow

\* The cells that are sent for a table, in the order of its columns.
LEMMA OrderedFits ==
  ASSUME TypeOK, SheetInv, NEW r \in Requests
  PROVE  /\ Ordered(r) \in Seq(BOOLEAN)
         /\ Cardinality(Marks(Ordered(r))) <= Given(r)
         /\ Given(r) \in Nat /\ Cardinality(Marks(sent[r].cells)) <= Given(r)
         /\ sent[r].cells \in Seq(BOOLEAN)
  <1> DEFINE row == sent[r]
             byName == [i \in DOMAIN columns |-> columns[i] \in row.names]
  <1>1. row \in [cells: Seq(BOOLEAN), names: SUBSET ToSet(Headers)]
    BY RowAssumption DEF TypeOK
  <1>2. columns \in Seq(ToSet(Headers)) /\ IsInjective(columns)
    BY DEF TypeOK, SheetInv
  <1>3. IsFiniteSet(row.names) /\ Cardinality(row.names) \in Nat
    <2>1. /\ Len(Headers) \in Nat /\ DOMAIN Headers = 1 .. Len(Headers)
          /\ Headers \in [1 .. Len(Headers) -> ToSet(Headers)]
      BY RowAssumption
    <2>2. Headers \in Surjection(1 .. Len(Headers), ToSet(Headers))
      BY <2>1 DEF Surjection, ToSet
    <2>3. IsFiniteSet(1 .. Len(Headers))
      BY <2>1, FS_Interval
    <2>4. IsFiniteSet(ToSet(Headers))
      BY <2>2, <2>3, FS_Surjection
    <2>5. row.names \in SUBSET ToSet(Headers)
      BY <1>1
    <2> HIDE DEF row
    <2> QED BY <2>4, <2>5, FS_Subset, FS_CardinalityType
  <1>4. byName \in Seq(BOOLEAN)
    <2>1. DOMAIN columns = 1 .. Len(columns) /\ Len(columns) \in Nat
      BY <1>2
    <2>2. byName \in [1 .. Len(columns) -> BOOLEAN]
      BY <2>1
    <2> HIDE DEF byName
    <2> QED BY <2>1, <2>2, SeqDef
  <1>5. row.cells \in Seq(BOOLEAN)
    BY <1>1
  <1>6. Cardinality(Marks(byName)) <= Cardinality(row.names) /\ Cardinality(Marks(byName)) \in Nat
    <2> DEFINE M == Marks(byName)
               f == [i \in M |-> columns[i]]
    <2>1. f \in [M -> row.names]
      BY DEF Marks
    <2>2. ASSUME NEW i \in M, NEW j \in M, f[i] = f[j] PROVE i = j
      BY <1>2, <2>2 DEF Marks, IsInjective
    <2>3. Cardinality(M) \in Nat
      BY <1>4, MarksFinite
    <2> HIDE DEF f, M
    <2>4. Cardinality(M) <= Cardinality(row.names)
      BY <1>3, <2>1, <2>2, MovedCells
    <2> QED BY <2>3, <2>4 DEF M
  <1>7. Cardinality(Marks(row.cells)) \in Nat
    BY <1>5, MarksFinite
  <1>8. Given(r) = Cardinality(row.names) + Cardinality(Marks(row.cells))
    BY DEF Given
  <1>9. Ordered(r) \in {row.cells, byName}
    BY DEF Ordered
  <1> HIDE DEF row, byName
  <1>10. Cardinality(Marks(Ordered(r))) <= Given(r)
    BY <1>3, <1>6, <1>7, <1>8, <1>9
  <1> QED BY <1>3, <1>4, <1>5, <1>7, <1>8, <1>9, <1>10 DEF row

-----------------------------------------------------------------------------
(* Room in the sheet: every attempt adds a row at most.                    *)

LEMMA TriesBound ==
  /\ MAX_RETRIES \in Nat /\ MostTries \in Nat /\ MAX_RETRIES <= MostTries
  /\ EXCEL_APPEND_ATTEMPTS \in Nat /\ EXCEL_APPEND_ATTEMPTS - 1 \in 0 .. MostTries
  <1>1. MAX_RETRIES \in Nat /\ EXCEL_APPEND_ATTEMPTS \in Nat \ {0}
    BY SheetAssumption
  <1> QED BY <1>1 DEF MostTries

LEMMA AttemptsFinite ==
  /\ IsFiniteSet(Attempts)
  /\ Cardinality(Attempts) = Cardinality(Requests) * (MostTries + 1)
  /\ \A spent, at : /\ IsFiniteSet(Over(spent, at)) /\ Cardinality(Over(spent, at)) \in Nat
                    /\ Over(spent, at) \subseteq Attempts
  <1>1. MostTries \in Nat /\ IsFiniteSet(Requests)
    BY SheetAssumption, TriesBound
  <1>2. IsFiniteSet(0 .. MostTries) /\ Cardinality(0 .. MostTries) = MostTries + 1
    BY <1>1, FS_Interval
  <1>3. /\ IsFiniteSet(Attempts)
        /\ Cardinality(Attempts) = Cardinality(Requests) * (MostTries + 1)
    BY <1>1, <1>2, FS_Product DEF Attempts
  <1>4. ASSUME NEW spent, NEW at
        PROVE  /\ IsFiniteSet(Over(spent, at)) /\ Cardinality(Over(spent, at)) \in Nat
               /\ Over(spent, at) \subseteq Attempts
    <2>1. Over(spent, at) \in SUBSET Attempts
      BY DEF Over
    <2> QED BY <1>3, <2>1, FS_Subset, FS_CardinalityType
  <1> QED BY <1>3, <1>4

\* An attempt that is over stays so.
LEMMA AttemptsStayOver ==
  ASSUME NEW spent \in [Requests -> 0 .. MostTries],
         NEW later \in [Requests -> 0 .. MostTries], NEW at, NEW to,
         \A s \in Requests : /\ spent[s] <= later[s]
                             /\ spent[s] = later[s] /\ at[s] = "done" => to[s] = "done"
  PROVE  /\ Over(spent, at) \subseteq Over(later, to)
         /\ Cardinality(Over(spent, at)) <= Cardinality(Over(later, to))
  <1>1. ASSUME NEW a \in Over(spent, at) PROVE a \in Over(later, to)
    <2> DEFINE s == a[1]
               n == a[2]
    <2>1. a \in Attempts /\ (n < spent[s] \/ (n = spent[s] /\ at[s] = "done"))
      BY DEF Over
    <2>2. s \in Requests /\ n \in Nat
      BY <2>1 DEF Attempts
    <2>3. spent[s] \in Nat /\ later[s] \in Nat
      BY <2>2
    <2> HIDE DEF s, n
    <2>4. n < later[s] \/ (n = later[s] /\ to[s] = "done")
      BY <2>1, <2>2, <2>3
    <2> QED BY <2>1, <2>4 DEF Over, s, n
  <1>2. Over(spent, at) \subseteq Over(later, to)
    BY <1>1
  <1> QED BY <1>2, AttemptsFinite, FS_Subset

\* One more is over.
LEMMA AttemptEnds ==
  ASSUME NEW spent \in [Requests -> 0 .. MostTries],
         NEW later \in [Requests -> 0 .. MostTries], NEW at, NEW to,
         \A s \in Requests : /\ spent[s] <= later[s]
                             /\ spent[s] = later[s] /\ at[s] = "done" => to[s] = "done",
         NEW r \in Requests, at[r] # "done",
         later[r] = spent[r] + 1 \/ (later[r] = spent[r] /\ to[r] = "done")
  PROVE  Cardinality(Over(spent, at)) + 1 <= Cardinality(Over(later, to))
  <1> DEFINE a == <<r, spent[r]>>
             A == Over(spent, at)
             B == Over(later, to)
  <1>1. spent[r] \in 0 .. MostTries /\ later[r] \in 0 .. MostTries
    OBVIOUS
  <1>2. a \in Attempts /\ a \notin A /\ a \in B
    BY <1>1 DEF Attempts, Over
  <1>3. A \subseteq B
    BY AttemptsStayOver
  <1>4. IsFiniteSet(A) /\ IsFiniteSet(B) /\ Cardinality(A) \in Nat
    BY AttemptsFinite
  <1> HIDE DEF a, A, B
  <1>5. Cardinality(A \cup {a}) = Cardinality(A) + 1
    BY <1>2, <1>4, FS_AddElement
  <1>6. Cardinality(A \cup {a}) <= Cardinality(B)
    <2>1. A \cup {a} \in SUBSET B
      BY <1>2, <1>3
    <2> QED BY <1>4, <2>1, FS_Subset
  <1> QED BY <1>5, <1>6 DEF A, B

\* Who is not done has a row to add.
LEMMA Room ==
  ASSUME TypeOK
  PROVE  /\ Floor \in Nat /\ MaxRow \in Nat /\ FirstRows \in Nat
         /\ \A r \in Requests : pc[r] # "done" => Floor + 1 <= MaxRow
  <1>1. MaxRow \in Nat /\ FirstRows \in Nat /\ MostTries \in Nat
        /\ FirstRows + Cardinality(Requests) * (MostTries + 1) <= MaxRow
    BY SheetAssumption, TriesBound
  <1>2. IsFiniteSet(Taken) /\ Cardinality(Taken) \in Nat /\ Taken \subseteq Attempts
    BY AttemptsFinite DEF Taken
  <1>3. Floor \in Nat
    BY <1>1, <1>2 DEF Floor
  <1>4. ASSUME NEW r \in Requests, pc[r] # "done" PROVE Floor + 1 <= MaxRow
    <2> DEFINE a == <<r, tries[r]>>
    <2>1. tries[r] \in 0 .. MostTries
      BY DEF TypeOK
    <2>2. a \in Attempts /\ a \notin Taken
      BY <1>4, <2>1 DEF Attempts, Taken, Over
    <2> HIDE DEF a
    <2>3. Cardinality(Taken \cup {a}) = Cardinality(Taken) + 1
      BY <1>2, <2>2, FS_AddElement
    <2>4. Cardinality(Taken \cup {a}) <= Cardinality(Attempts)
      <3>1. Taken \cup {a} \in SUBSET Attempts
        BY <1>2, <2>2
      <3> QED BY <3>1, AttemptsFinite, FS_Subset
    <2>5. Cardinality(Attempts) = Cardinality(Requests) * (MostTries + 1)
          /\ Cardinality(Attempts) \in Nat
      BY AttemptsFinite, FS_CardinalityType
    <2>6. FirstRows + Cardinality(Attempts) <= MaxRow
      BY <1>1, <2>5
    <2> QED BY <1>1, <1>2, <2>3, <2>4, <2>5, <2>6 DEF Floor
  <1> QED BY <1>1, <1>3, <1>4

-----------------------------------------------------------------------------
(* What a step of one request leaves alone.                                *)

OwnStep(r) ==
    /\ mode' = mode /\ place' = place /\ sent' = sent /\ columns' = columns /\ moves' = moves
    /\ pc[r] # "done"
    /\ tries'[r] \in {tries[r], tries[r] + 1}
    /\ grid' = grid \/ mode = "graph"
    /\ current' \subseteq current \cup {r}
    /\ table' = table \/ \E b : table' = [table EXCEPT !.bottom = b]
    /\ \A s \in Requests : s # r =>
          /\ pc'[s] = pc[s] /\ ordered'[s] = ordered[s] /\ used'[s] = used[s]
          /\ address'[s] = address[s] /\ edited'[s] = edited[s]
          /\ tries'[s] = tries[s] /\ answer'[s] = answer[s]
          /\ pc[s] \in {"probe", "patch"} /\ grid' # grid => stale'[s]
    /\ \A s \in Requests : stale[s] => stale'[s]
    /\ \A s \in Requests : stale'[s] =>
          stale[s] \/ (s # r /\ pc[s] \in {"probe", "patch"} /\ grid' # grid)

LEMMA FinishChanges ==
  ASSUME TypeOK, NEW r \in Requests, NEW status, NEW row, Finish(r, status, row)
  PROVE  /\ pc'[r] = "done" /\ answer'[r] = [status |-> status, row |-> row]
         /\ tries' = tries /\ ordered' = ordered /\ address' = address
         /\ used'[r] = NoRange
         /\ \A s \in Requests : s # r =>
               /\ pc'[s] = pc[s] /\ used'[s] = used[s] /\ edited'[s] = edited[s]
               /\ answer'[s] = answer[s]
         /\ pc' = [pc EXCEPT ![r] = "done"]
         /\ used' = [used EXCEPT ![r] = NoRange]
         /\ edited' = [edited EXCEPT ![r] = NoCopy]
         /\ answer' = [answer EXCEPT ![r] = [status |-> status, row |-> row]]
  BY DEF Finish, Goto, TypeOK

LEMMA SaveChanges ==
  ASSUME TypeOK, NEW r \in Requests, NEW g, Save(r, g)
  PROVE  /\ grid' = g /\ stale' \in [Requests -> BOOLEAN]
         /\ columns' = columns /\ current' = current
         /\ \A s \in Requests : s # r /\ pc[s] \in {"probe", "patch"} /\ grid' # grid => stale'[s]
         /\ \A s \in Requests : stale[s] => stale'[s]
         /\ \A s \in Requests : stale'[s] =>
               stale[s] \/ (s # r /\ pc[s] \in {"probe", "patch"} /\ grid' # grid)
  <1>1. /\ grid' = g
        /\ stale' = [s \in Requests |->
                       stale[s] \/ (s # r /\ pc[s] \in {"probe", "patch"} /\ g # grid)]
        /\ columns' = columns /\ current' = current
    BY DEF Save
  <1>2. \A s \in Requests : stale'[s] = (stale[s] \/ (s # r /\ pc[s] \in {"probe", "patch"}
                                                     /\ g # grid))
    BY <1>1
  <1>3. stale' \in [Requests -> BOOLEAN]
    BY <1>1, Zenon
  <1> QED BY <1>1, <1>2, <1>3, Zenon

LEMMA AnsweredChanges ==
  ASSUME TypeOK, NEW r \in Requests, NEW row, Answered(r, row), pc[r] # "done"
  PROVE  /\ ordered' = ordered /\ address' = address
         /\ \/ pc'[r] = "done" /\ tries'[r] = tries[r]
               /\ answer'[r] \in {[status |-> "added", row |-> row],
                                 [status |-> "failed", row |-> 0]}
            \/ pc' = pc /\ used' = used /\ answer' = answer /\ tries'[r] = tries[r] + 1
         /\ \A s \in Requests : s # r => /\ pc'[s] = pc[s] /\ used'[s] = used[s]
                                        /\ edited'[s] = edited[s]
                                        /\ tries'[s] = tries[s] /\ answer'[s] = answer[s]
         /\ edited' \in [Requests -> Copies \cup {NoCopy}]
         /\ pc' \in [Requests -> {"start", "add", "probe", "patch", "put", "chunk", "done"}]
         /\ used' \in [Requests -> [row: Nat, col: Nat, rows: Nat, cols: Nat]]
         /\ tries' \in [Requests -> 0 .. MostTries]
         /\ row \in 0 .. MaxRow => answer' \in [Requests ->
               [status: {"none", "added", "bad_request", "conflict", "failed"}, row: 0 .. MaxRow]]
  <1>1. MAX_RETRIES \in Nat /\ MaxRow \in Nat /\ MostTries \in Nat /\ MAX_RETRIES <= MostTries
    BY SheetAssumption, TriesBound
  <1>2. CASE \E status, n : /\ Finish(r, status, n)
                           /\ status \in {"added", "failed"} /\ n \in {row, 0}
                           /\ [status |-> status, row |-> n] \in
                                 {[status |-> "added", row |-> row],
                                  [status |-> "failed", row |-> 0]}
    <2>1. PICK status, n : /\ Finish(r, status, n)
                           /\ status \in {"added", "failed"} /\ n \in {row, 0}
                           /\ [status |-> status, row |-> n] \in
                                 {[status |-> "added", row |-> row],
                                  [status |-> "failed", row |-> 0]}
      BY <1>2
    <2> DEFINE a == [status |-> status, row |-> n]
    <2>2. row \in 0 .. MaxRow =>
            a \in [status: {"none", "added", "bad_request", "conflict", "failed"}, row: 0 .. MaxRow]
      BY <1>1, <2>1
    <2>3. NoRange \in [row: Nat, col: Nat, rows: Nat, cols: Nat]
      BY DEF NoRange
    <2>4. /\ pc'[r] = "done" /\ answer'[r] = a /\ tries' = tries
          /\ ordered' = ordered /\ address' = address
          /\ \A s \in Requests : s # r =>
               /\ pc'[s] = pc[s] /\ used'[s] = used[s] /\ edited'[s] = edited[s]
               /\ answer'[s] = answer[s]
          /\ pc' = [pc EXCEPT ![r] = "done"]
          /\ used' = [used EXCEPT ![r] = NoRange]
          /\ edited' = [edited EXCEPT ![r] = NoCopy]
          /\ answer' = [answer EXCEPT ![r] = a]
      BY <2>1, FinishChanges, Zenon
    <2>5. a \in {[status |-> "added", row |-> row], [status |-> "failed", row |-> 0]}
      BY <2>1
    <2> HIDE DEF a
    <2>6. edited' \in [Requests -> Copies \cup {NoCopy}]
      <3>1. edited \in [Requests -> Copies \cup {NoCopy}]
        BY DEF TypeOK
      <3> QED BY <2>4, <3>1
    <2> QED BY <2>2, <2>3, <2>4, <2>5, <2>6 DEF TypeOK
  <1>3. CASE /\ tries[r] < MAX_RETRIES /\ tries' = [tries EXCEPT ![r] = @ + 1]
             /\ UNCHANGED <<pc, looked, edited, answer>>
    <2>1. tries[r] + 1 \in 0 .. MostTries
      <3>1. tries[r] \in 0 .. MostTries
        BY DEF TypeOK
      <3> QED BY <1>1, <1>3, <3>1
    <2> QED BY <1>3, <2>1 DEF TypeOK, looked
  <1>4. ASSUME Finish(r, "added", row) \/ Finish(r, "failed", 0)
        PROVE  \E status, n : /\ Finish(r, status, n)
                              /\ status \in {"added", "failed"} /\ n \in {row, 0}
                              /\ [status |-> status, row |-> n] \in
                                    {[status |-> "added", row |-> row],
                                     [status |-> "failed", row |-> 0]}
    BY <1>4, Zenon
  <1> QED BY <1>2, <1>3, <1>4 DEF Answered

\* Tries are never taken back, and what has ended has ended.
Progress ==
    \A s \in Requests : /\ tries[s] <= tries'[s]
                        /\ tries[s] = tries'[s] /\ pc[s] = "done" => pc'[s] = "done"

LEMMA FloorRises ==
  ASSUME TypeOK, TypeOK', Progress
  PROVE  /\ Floor \in Nat /\ Floor' \in Nat /\ Floor <= Floor'
         /\ \A r \in Requests :
               pc[r] # "done" /\ (tries'[r] = tries[r] + 1 \/ (tries'[r] = tries[r] /\ pc'[r] = "done"))
                  => Floor + 1 <= Floor'
  <1> DEFINE n == Cardinality(Over(tries, pc))
             m == Cardinality(Over(tries', pc'))
  <1>1. /\ tries \in [Requests -> 0 .. MostTries] /\ tries' \in [Requests -> 0 .. MostTries]
        /\ FirstRows \in Nat /\ MostTries \in Nat
    BY SheetAssumption, TriesBound DEF TypeOK
  <1>2. n \in Nat /\ m \in Nat
    BY AttemptsFinite
  <1>3. \A s \in Requests : /\ tries[s] <= tries'[s]
                            /\ tries[s] = tries'[s] /\ pc[s] = "done" => pc'[s] = "done"
    BY DEF Progress
  <1>4. n <= m
    BY <1>1, <1>3, AttemptsStayOver
  <1>5. ASSUME NEW r \in Requests, pc[r] # "done",
               tries'[r] = tries[r] + 1 \/ (tries'[r] = tries[r] /\ pc'[r] = "done")
        PROVE  n + 1 <= m
    BY <1>1, <1>3, <1>5, AttemptEnds
  <1>6. Floor = FirstRows + n /\ Floor' = FirstRows + m
    BY DEF Floor, Taken
  <1> HIDE DEF n, m
  <1>7. Floor \in Nat /\ Floor' \in Nat /\ Floor <= Floor'
        /\ (n + 1 <= m => Floor + 1 <= Floor')
    BY <1>1, <1>2, <1>4, <1>6
  <1> QED BY <1>5, <1>7

LEMMA OwnProgress ==
  ASSUME TypeOK, NEW r \in Requests, OwnStep(r)
  PROVE  Progress
  <1>1. ASSUME NEW s \in Requests
        PROVE  /\ tries[s] <= tries'[s]
               /\ tries[s] = tries'[s] /\ pc[s] = "done" => pc'[s] = "done"
    <2>1. tries[s] \in Nat
      BY DEF TypeOK
    <2>2. CASE s # r
      BY <2>1, <2>2 DEF OwnStep
    <2>3. CASE s = r
      BY <2>1, <2>3 DEF OwnStep
    <2> QED BY <2>2, <2>3
  <1> QED BY <1>1 DEF Progress

LEMMA FloorGrows ==
  ASSUME TypeOK, TypeOK', NEW r \in Requests, OwnStep(r)
  PROVE  /\ Floor \in Nat /\ Floor' \in Nat /\ Floor <= Floor'
         /\ tries'[r] # tries[r] \/ pc'[r] = "done" => Floor + 1 <= Floor'
  <1>1. Progress
    BY OwnProgress
  <1>2. tries'[r] \in {tries[r], tries[r] + 1} /\ pc[r] # "done"
    BY DEF OwnStep
  <1>3. tries'[r] # tries[r] \/ pc'[r] = "done" =>
           tries'[r] = tries[r] + 1 \/ (tries'[r] = tries[r] /\ pc'[r] = "done")
    BY <1>2
  <1> QED BY <1>1, <1>2, <1>3, FloorRises

\* A copy stays good whatever the others do.
LEMMA GoodCarries ==
  ASSUME ExcelInv, TypeOK', Progress, NEW r \in Requests, NEW w, Good(w, r), edited'[r] = w,
         place' = place, sent' = sent
  PROVE  Good(edited[r], r)'
  <1>1. TypeOK /\ SheetInv
    BY DEF ExcelInv
  <1>2. Floor \in Nat /\ Floor' \in Nat /\ Floor <= Floor'
    BY <1>1, FloorRises
  <1>3. Shape(w) /\ Within(w, Floor + 1) /\ Inside(w) /\ Counted(w, r)
        /\ AtEnd(r, w.grid, w.table, w.columns, w.row)
    BY DEF Good
  <1>4. Shape(edited[r])'
    BY <1>3 DEF Shape
  <1>5. Within(edited[r], Floor + 1)'
    <2>1. w.table.bottom \in Nat
      <3>1. w.table \in Refs
        BY <1>3 DEF Shape, Copies
      <3> QED BY <3>1, TableShape
    <2>2. w.table.bottom <= Floor' + 1
      BY <1>2, <1>3, <2>1 DEF Within
    <2>3. ASSUME NEW row \in Rows, NEW c \in Cols, w.grid[row][c] # Blank PROVE row <= Floor' + 1
      <3>1. row <= Floor + 1 /\ row \in Nat
        BY <1>3, <2>3 DEF Within, Rows
      <3>2. ASSUME NEW n \in Nat, NEW f \in Nat, NEW g \in Nat, n <= f + 1, f <= g PROVE n <= g + 1
        BY <3>2
      <3> QED BY <1>2, <3>1, <3>2
    <2> QED BY <2>2, <2>3 DEF Within
  <1>6. Inside(edited[r])'
    BY <1>3 DEF Inside
  <1>7. Counted(edited[r], r)'
    <2>1. ASSUME NEW s \in Requests
          PROVE  Cardinality(Cells(w.grid, s)) <= Given(s)' * Rounds(s, r)'
      <3> DEFINE k == Given(s)
                 m == Rounds(s, r)
                 n == Rounds(s, r)'
                 i == Cardinality(Cells(w.grid, s))
      <3>1. Given(s)' = k /\ k \in Nat
        BY <1>1, OrderedFits DEF Given
      <3>2. tries[s] \in Nat /\ tries'[s] \in Nat
        BY <1>1 DEF TypeOK
      <3>3. m \in Nat /\ n \in Nat /\ m <= n
        <4>1. /\ tries[s] <= tries'[s]
              /\ tries[s] = tries'[s] /\ pc[s] = "done" => pc'[s] = "done"
          BY DEF Progress
        <4> QED BY <3>2, <4>1 DEF Rounds
      <3>4. i <= k * m /\ i \in Nat
        BY <1>3, SheetFinite DEF Counted
      <3> HIDE DEF k, m, n, i
      <3>5. k * m <= k * n /\ k * m \in Nat /\ k * n \in Nat
        BY <3>1, <3>3
      <3>6. i <= k * n
        BY <3>4, <3>5
      <3> QED BY <3>1, <3>6 DEF n, i
    <2> QED BY <2>1 DEF Counted
  <1>8. AtEnd(r, edited[r].grid, edited[r].table, edited[r].columns, edited[r].row)'
    BY <1>3 DEF AtEnd, OrderedBy
  <1> QED BY <1>4, <1>5, <1>6, <1>7, <1>8 DEF Good

\* A step of one request keeps what holds of another, if it leaves the other's cells alone.
LEMMA OthersKeep ==
  ASSUME ExcelInv, TypeOK', NEW r \in Requests, OwnStep(r), NEW s \in Requests, s # r,
         Cardinality(Cells(grid', s)) <= Cardinality(Cells(grid, s))
  PROVE  RequestInv(s)'
  <1>1. TypeOK /\ SheetInv /\ ControlInv(s) /\ OrderedInv(s) /\ AddressInv(s) /\ CountInv(s)
        /\ CopyInv(s)
    BY DEF ExcelInv, RequestInv
  <1>2. /\ mode' = mode /\ place' = place /\ sent' = sent /\ columns' = columns
        /\ pc'[s] = pc[s] /\ ordered'[s] = ordered[s] /\ used'[s] = used[s]
        /\ address'[s] = address[s] /\ edited'[s] = edited[s]
        /\ tries'[s] = tries[s] /\ answer'[s] = answer[s]
        /\ pc[s] \in {"probe", "patch"} /\ grid' # grid => stale'[s]
        /\ stale[s] => stale'[s]
        /\ stale'[s] => stale[s] \/ pc[s] \in {"probe", "patch"}
    BY DEF OwnStep
  <1>3. table'.top = table.top
    <2>1. table \in [left: Cols, top: Rows, right: Cols, bottom: Rows]
      BY <1>1 DEF TypeOK, Refs
    <2>2. table' = table \/ \E b : table' = [table EXCEPT !.bottom = b]
      BY DEF OwnStep
    <2> QED BY <2>1, <2>2
  <1>4. Floor \in Nat /\ Floor' \in Nat /\ Floor <= Floor'
    BY <1>1, FloorGrows
  <1>5. ControlInv(s)'
    BY <1>1, <1>2 DEF ControlInv
  <1>6. OrderedInv(s)'
    <2>1. Given(s)' = Given(s) /\ Ordered(s)' = Ordered(s)
      BY <1>2 DEF Given, Ordered
    <2> QED BY <1>1, <1>2, <2>1 DEF OrderedInv
  <1>7. AddressInv(s)'
    <2>1. table.top \in Nat
      BY <1>1, TableShape DEF TypeOK
    <2>2. \A n \in table.top + 1 .. Floor + 1 : n \in table'.top + 1 .. Floor' + 1
      <3>1. ASSUME NEW t \in Nat, NEW f \in Nat, NEW g \in Nat, f <= g, NEW n \in t + 1 .. f + 1
            PROVE  n \in t + 1 .. g + 1
        BY <3>1
      <3> QED BY <1>3, <1>4, <2>1, <3>1
    <2>3. CASE pc[s] = "probe"
      <3>1. /\ used[s].col \in 1 .. LastCol
            /\ used[s].row + used[s].rows \in table.top + 1 .. Floor + 1
            /\ ~stale[s] => used[s] = UsedRange
        BY <1>1, <2>3 DEF AddressInv
      <3>2. ~stale'[s] => used'[s] = UsedRange'
        <4>1. ~stale'[s] => grid' = grid /\ ~stale[s]
          BY <1>2, <2>3
        <4>2. grid' = grid => UsedRange' = UsedRange
          BY DEF UsedRange, UsedRows, UsedCols, LastUsedRow, LastUsedCol, FirstUsedCol, IsBlankRow
        <4> QED BY <1>2, <3>1, <4>1, <4>2
      <3>3. used'[s].row + used'[s].rows \in table'.top + 1 .. Floor' + 1
        BY <1>2, <2>2, <3>1
      <3> QED BY <1>2, <2>3, <3>1, <3>2, <3>3 DEF AddressInv
    <2>4. CASE pc[s] = "patch"
      <3>1. /\ ColumnOf(address[s].from) \in 1 .. LastCol
            /\ ColumnOf(address[s].to) = ColumnOf(address[s].from) + Len(sent[s].cells) - 1
            /\ address[s].row \in table.top + 1 .. Floor + 1
            /\ ~stale[s] => Below(s)
        BY <1>1, <2>4 DEF AddressInv
      <3>2. ~stale'[s] => Below(s)'
        <4>1. ~stale'[s] => grid' = grid /\ ~stale[s]
          BY <1>2, <2>4
        <4>2. grid' = grid => (Below(s)' <=> Below(s))
          BY <1>2 DEF Below
        <4> QED BY <3>1, <4>1, <4>2
      <3>3. address'[s].row \in table'.top + 1 .. Floor' + 1
        BY <1>2, <2>2, <3>1
      <3> QED BY <1>2, <2>4, <3>1, <3>2, <3>3 DEF AddressInv
    <2> QED BY <1>2, <2>3, <2>4 DEF AddressInv
  <1>8. CountInv(s)'
    <2>1. Given(s)' = Given(s) /\ Given(s) \in Nat
      BY <1>1, <1>2, OrderedFits DEF Given
    <2>2. Cardinality(Cells(grid', s)) \in Nat /\ Cardinality(Cells(grid, s)) \in Nat
      BY SheetFinite
    <2>3. Cells(grid, s)' = Cells(grid', s)
      BY DEF Cells
    <2> DEFINE n == Cardinality(Cells(grid, s))
               m == Cardinality(Cells(grid', s))
               k == Given(s) * (tries[s] + IF pc[s] = "done" THEN 1 ELSE 0)
    <2>4. k \in Nat
      <3>1. tries[s] \in Nat
        BY <1>1, SheetAssumption DEF TypeOK
      <3> QED BY <2>1, <3>1
    <2>5. n <= k /\ (mode = "graph" /\ place[s] = "sheet" /\ pc[s] = "done" /\ ~stale[s] => n <= Given(s))
      BY <1>1 DEF CountInv
    <2>6. (Given(s) * (tries[s] + IF pc[s] = "done" THEN 1 ELSE 0))' = k
      BY <1>2, <2>1
    <2> HIDE DEF n, m, k
    <2>7. m <= n /\ m \in Nat /\ n \in Nat
      BY <2>2 DEF m, n
    <2>8. m <= k /\ (mode = "graph" /\ place[s] = "sheet" /\ pc[s] = "done" /\ ~stale[s] => m <= Given(s))
      BY <2>1, <2>4, <2>5, <2>7
    <2> QED BY <1>2, <2>1, <2>3, <2>6, <2>8 DEF CountInv, m
  <1>9. CopyInv(s)'
    <2>1. ASSUME pc[s] \in {"put", "chunk"} PROVE Good(edited[s], s)'
      <3> DEFINE w == edited[s]
      <3>1. Good(w, s) /\ edited'[s] = w
        BY <1>1, <1>2, <2>1 DEF CopyInv
      <3>2. Progress
        BY <1>1, OwnProgress
      <3> HIDE DEF w
      <3> QED BY <1>2, <3>1, <3>2, GoodCarries
    <2>2. ASSUME pc[s] \in {"put", "chunk"}, s \in current'
          PROVE  NoneLost(grid', edited'[s].grid)
      <3>1. s \in current
        BY <2>2 DEF OwnStep
      <3>2. mode # "graph"
        BY <1>1, <2>2 DEF ControlInv
      <3>3. grid' = grid
        BY <3>2 DEF OwnStep
      <3> QED BY <1>1, <1>2, <2>2, <3>1, <3>3 DEF CopyInv
    <2>3. NoneLost(grid, edited[s].grid)' <=> NoneLost(grid', edited'[s].grid)
      BY DEF NoneLost, Cells
    <2> QED BY <1>2, <2>1, <2>2, <2>3 DEF CopyInv
  <1> QED BY <1>5, <1>6, <1>7, <1>8, <1>9 DEF RequestInv

\* A sheet row that is not sent yet, or is sent once more to the same cells.
LEMMA SheetCount ==
  ASSUME ExcelInv, NEW r \in Requests, mode = "graph", place[r] = "sheet", pc[r] # "done",
         ~stale[r]
  PROVE  Cardinality(Cells(grid, r)) <= Given(r)
  <1>1. TypeOK /\ SheetInv /\ ControlInv(r) /\ AddressInv(r) /\ CountInv(r)
    BY DEF ExcelInv, RequestInv
  <1>2. Given(r) \in Nat /\ Cardinality(Marks(sent[r].cells)) <= Given(r)
        /\ sent[r].cells \in Seq(BOOLEAN)
    BY <1>1, OrderedFits
  <1>3. Cardinality(Cells(grid, r)) \in Nat
    BY SheetFinite
  <1>4. CASE pc[r] \in {"start", "probe"}
    <2>1. tries[r] = 0
      BY <1>1, <1>4 DEF ControlInv
    <2>2. Cardinality(Cells(grid, r)) <= Given(r) * 0
      BY <1>1, <1>4, <2>1 DEF CountInv
    <2> QED BY <1>2, <1>3, <2>2
  <1>5. CASE pc[r] = "patch"
    <2> DEFINE row == address[r].row
               left == ColumnOf(address[r].from)
               cells == sent[r].cells
    <2>1. Below(r) /\ left \in Nat
      BY <1>1, <1>5 DEF AddressInv
    <2>2. Cells(grid, r) \subseteq Placed(row, left, cells)
      <3>1. r # Blank
        BY CellAssumption
      <3>2. ASSUME NEW x \in Cells(grid, r)
            PROVE  x \in Rows \X Cols /\ x[1] = row /\ x[2] - left + 1 \in Marks(cells)
        <4>1. x \in Rows \X Cols /\ x[1] \in Rows /\ x[2] \in Cols /\ grid[x[1]][x[2]] = r
          BY DEF Cells
        <4>2. grid[x[1]][x[2]] # Blank
          BY <3>1, <4>1
        <4> QED BY <2>1, <4>1, <4>2 DEF Below
      <3> QED BY <3>2 DEF Placed
    <2> HIDE DEF row, left, cells
    <2>3. Cardinality(Placed(row, left, cells)) <= Cardinality(Marks(cells))
          /\ IsFiniteSet(Placed(row, left, cells)) /\ Cardinality(Placed(row, left, cells)) \in Nat
      BY <1>2, <2>1, PlacedCount DEF cells
    <2>4. Cardinality(Cells(grid, r)) <= Cardinality(Placed(row, left, cells))
      BY <2>2, <2>3, FS_Subset
    <2>5. Cardinality(Marks(cells)) \in Nat /\ Cardinality(Marks(cells)) <= Given(r)
      BY <1>2, MarksFinite DEF cells
    <2> QED BY <1>2, <1>3, <2>3, <2>4, <2>5
  <1>6. pc[r] \notin {"add", "put", "chunk"}
    BY <1>1 DEF ControlInv
  <1> QED BY <1>1, <1>4, <1>5, <1>6 DEF TypeOK

\* The parts of the invariant that are not about one request, after a step of r.
LEMMA StepKeeps ==
  ASSUME ExcelInv, TypeOK', NEW r \in Requests, OwnStep(r),
         \A c \in Columns(table) : grid'[table.top][c] # Blank,
         table'.bottom <= Floor',
         \A row \in Rows, c \in Cols : grid'[row][c] # Blank => row <= Floor',
         \A s \in Requests : s # r =>
            Cardinality(Cells(grid', s)) <= Cardinality(Cells(grid, s)),
         \A s \in Requests : place[s] = "table" => \A c \in Cells(grid', s) :
            c[1] \in table.top + 1 .. table'.bottom /\ c[2] \in Columns(table),
         RequestInv(r)'
  PROVE  ExcelInv'
  <1>1. TypeOK /\ SheetInv
    BY DEF ExcelInv
  <1>2. /\ columns' = columns /\ place' = place
        /\ table'.top = table.top /\ table'.left = table.left /\ table'.right = table.right
    <2>1. table \in [left: Cols, top: Rows, right: Cols, bottom: Rows]
      BY <1>1 DEF TypeOK, Refs
    <2>2. table' = table \/ \E b : table' = [table EXCEPT !.bottom = b]
      BY DEF OwnStep
    <2>3. columns' = columns /\ place' = place
      BY DEF OwnStep
    <2> QED BY <2>1, <2>2, <2>3
  <1>3. Columns(table') = Columns(table) /\ Columns(table)' = Columns(table')
    BY <1>2 DEF Columns
  <1>4. SheetInv'
    BY <1>1, <1>2, <1>3 DEF SheetInv
  <1>5. TableRowsStayInTable'
    <2>1. ASSUME NEW s \in Requests, place'[s] = "table", NEW c \in Cells(grid', s)
          PROVE  c[1] \in table'.top + 1 .. table'.bottom /\ c[2] \in Columns(table')
      BY <1>2, <1>3, <2>1
    <2>2. \A s : Cells(grid, s)' = Cells(grid', s)
      BY DEF Cells
    <2> QED BY <1>3, <2>1, <2>2 DEF TableRowsStayInTable
  <1>6. \A s \in Requests : RequestInv(s)'
    <2>1. ASSUME NEW s \in Requests PROVE RequestInv(s)'
      <3>1. CASE s = r
        BY <3>1
      <3>2. CASE s # r
        BY <3>2, OthersKeep
      <3> QED BY <3>1, <3>2
    <2> QED BY <2>1
  <1> QED BY <1>4, <1>5, <1>6 DEF ExcelInv

\* A step that leaves the workbook alone.
LEMMA QuietKeeps ==
  ASSUME ExcelInv, TypeOK', NEW r \in Requests, OwnStep(r), grid' = grid, table' = table,
         RequestInv(r)'
  PROVE  ExcelInv'
  <1>1. TypeOK /\ SheetInv /\ TableRowsStayInTable
    BY DEF ExcelInv
  <1>2. Floor \in Nat /\ Floor' \in Nat /\ Floor <= Floor'
    BY <1>1, FloorGrows
  <1>3. table.bottom \in Nat
    BY <1>1, TableShape DEF TypeOK
  <1>4. \A c \in Columns(table) : grid'[table.top][c] # Blank
    BY <1>1 DEF SheetInv
  <1>5. table'.bottom <= Floor'
    BY <1>1, <1>2, <1>3 DEF SheetInv
  <1>6. ASSUME NEW row \in Rows, NEW c \in Cols, grid'[row][c] # Blank PROVE row <= Floor'
    <2>1. row <= Floor /\ row \in Nat
      BY <1>1, <1>6 DEF SheetInv, Rows
    <2> QED BY <1>2, <2>1
  <1>7. \A s \in Requests : Cardinality(Cells(grid', s)) <= Cardinality(Cells(grid, s))
    <2>1. ASSUME NEW s \in Requests
          PROVE  Cardinality(Cells(grid', s)) <= Cardinality(Cells(grid, s))
      <3>1. Cardinality(Cells(grid, s)) \in Nat
        BY SheetFinite
      <3> QED BY <3>1
    <2> QED BY <2>1
  <1>8. \A s \in Requests : place[s] = "table" => \A c \in Cells(grid', s) :
           c[1] \in table.top + 1 .. table'.bottom /\ c[2] \in Columns(table)
    BY <1>1 DEF TableRowsStayInTable
  <1> QED BY <1>4, <1>5, <1>6, <1>7, <1>8, StepKeeps

\* What a row of cells below the header does to the sheet.
LEMMA WriteKeeps ==
  ASSUME ExcelInv, NEW r \in Requests, NEW row \in Rows, row > table.top, row <= Floor + 1,
         NEW col \in Nat, NEW cells \in Seq(BOOLEAN), NEW h, Wrote(h, grid, row, col, cells, r)
  PROVE  /\ \A c \in Columns(table) : h[table.top][c] # Blank
         /\ \A s \in Rows, c \in Cols : h[s][c] # Blank => s <= Floor + 1
         /\ \A s \in Requests : s # r => /\ Cells(h, s) \subseteq Cells(grid, s)
                                        /\ Cardinality(Cells(h, s)) <= Cardinality(Cells(grid, s))
         /\ Cells(h, r) \subseteq Cells(grid, r) \cup Placed(row, col, cells)
         /\ Cardinality(Cells(h, r)) <= Cardinality(Cells(grid, r)) + Cardinality(Marks(cells))
  <1>1. TypeOK /\ SheetInv /\ \A s \in Requests : s # Blank
    BY CellAssumption DEF ExcelInv
  <1>2. table.top \in Rows /\ table.top \in Nat /\ Columns(table) \subseteq Cols /\ row \in Nat
        /\ table.top # row
    <2>1. table \in Refs
      BY <1>1 DEF TypeOK
    <2>2. table.top \in Rows /\ table.top \in Nat /\ Columns(table) \subseteq Cols
      BY <2>1, TableShape
    <2> QED BY <2>2 DEF Rows
  <1>3. Floor \in Nat
    BY <1>1, Room
  <1>4. \A c \in Columns(table) : h[table.top][c] # Blank
    BY <1>1, <1>2 DEF Wrote, SheetInv
  <1>5. ASSUME NEW s \in Rows, NEW c \in Cols, h[s][c] # Blank PROVE s <= Floor + 1
    <2>1. CASE s = row
      BY <2>1
    <2>2. CASE s # row
      <3>1. grid[s][c] # Blank
        BY <1>5, <2>2 DEF Wrote
      <3>2. s <= Floor /\ s \in Nat
        BY <1>1, <3>1 DEF SheetInv, Rows
      <3> QED BY <1>3, <3>2
    <2> QED BY <2>1, <2>2
  <1>6. ASSUME NEW s \in Requests, s # r
        PROVE  /\ Cells(h, s) \subseteq Cells(grid, s)
               /\ Cardinality(Cells(h, s)) <= Cardinality(Cells(grid, s))
    <2>1. ASSUME NEW x \in Cells(h, s) PROVE x \in Cells(grid, s)
      <3>1. x \in Rows \X Cols /\ x[1] \in Rows /\ x[2] \in Cols /\ h[x[1]][x[2]] = s
        BY DEF Cells
      <3>2. h[x[1]][x[2]] \notin {r, Blank}
        BY <1>1, <1>6, <3>1
      <3>3. grid[x[1]][x[2]] = s
        BY <3>1, <3>2 DEF Wrote
      <3> QED BY <3>1, <3>3 DEF Cells
    <2>2. Cells(h, s) \subseteq Cells(grid, s)
      BY <2>1
    <2> QED BY <2>2, FewerCells
  <1>7. ASSUME NEW x \in Cells(h, r) PROVE x \in Cells(grid, r) \cup Placed(row, col, cells)
    <2>1. x \in Rows \X Cols /\ x[1] \in Rows /\ x[2] \in Cols /\ h[x[1]][x[2]] = r
      BY DEF Cells
    <2>2. CASE x[1] = row /\ x[2] \in col .. col + Len(cells) - 1
      <3>1. cells[x[2] - col + 1]
        BY <1>1, <2>1, <2>2 DEF Wrote
      <3>2. x[2] - col + 1 \in DOMAIN cells
        <4>1. DOMAIN cells = 1 .. Len(cells) /\ Len(cells) \in Nat /\ x[2] \in Nat
          BY <2>1 DEF Cols
        <4> QED BY <2>2, <4>1
      <3> QED BY <2>1, <2>2, <3>1, <3>2 DEF Placed, Marks
    <2>3. CASE ~(x[1] = row /\ x[2] \in col .. col + Len(cells) - 1)
      <3>1. grid[x[1]][x[2]] = r
        BY <2>1, <2>3 DEF Wrote
      <3> QED BY <2>1, <3>1 DEF Cells
    <2> QED BY <2>2, <2>3
  <1>8. Cells(h, r) \subseteq Cells(grid, r) \cup Placed(row, col, cells)
    BY <1>7
  <1>9. Cardinality(Cells(h, r)) <= Cardinality(Cells(grid, r)) + Cardinality(Marks(cells))
    BY <1>8, SheetFinite, CountWritten
  <1> QED BY <1>4, <1>5, <1>6, <1>8, <1>9

\* The count of a request that has ended.
LEMMA CountGrows ==
  ASSUME NEW given \in Nat, NEW n \in Nat, NEW spent \in Nat, n <= given * spent
  PROVE  /\ n <= given * (spent + 1)
         /\ \A m, k \in Nat : m <= given /\ k <= n + m => k <= given * (spent + 1)
  <1>1. given * (spent + 1) = given * spent + given /\ given * spent \in Nat
    OBVIOUS
  <1> QED BY <1>1

\* A request that is refused, or fails, has changed nothing.
LEMMA RefusedKeeps ==
  ASSUME ExcelInv, NEW r \in Requests, pc[r] # "done",
         NEW status \in {"bad_request", "conflict", "failed"}, Refuse(r, status),
         UNCHANGED <<inputs, moves>>
  PROVE  ExcelInv' /\ OwnStep(r) /\ grid' = grid /\ answer'[r].status = status
  <1>1. TypeOK /\ SheetInv /\ ControlInv(r) /\ CountInv(r)
    BY DEF ExcelInv, RequestInv
  <1>2. /\ Finish(r, status, 0) /\ grid' = grid /\ table' = table /\ columns' = columns
        /\ stale' = stale /\ current' = current \ {r}
    BY DEF Refuse, workbook
  <1> DEFINE a == [status |-> status, row |-> 0]
  <1>3. /\ pc'[r] = "done" /\ answer'[r] = a
        /\ tries' = tries /\ ordered' = ordered /\ address' = address
        /\ \A s \in Requests : s # r =>
              /\ pc'[s] = pc[s] /\ used'[s] = used[s] /\ edited'[s] = edited[s]
              /\ answer'[s] = answer[s]
        /\ pc' = [pc EXCEPT ![r] = "done"]
        /\ used' = [used EXCEPT ![r] = NoRange]
        /\ edited' = [edited EXCEPT ![r] = NoCopy]
        /\ answer' = [answer EXCEPT ![r] = a]
    BY <1>1, <1>2, FinishChanges, Zenon
  <1>4. mode' = mode /\ place' = place /\ sent' = sent /\ moves' = moves
    BY DEF inputs
  <1>5. a \in [status: {"none", "added", "bad_request", "conflict", "failed"}, row: 0 .. MaxRow]
        /\ a.status = status
    BY SheetAssumption
  <1>6. NoRange \in [row: Nat, col: Nat, rows: Nat, cols: Nat]
    BY DEF NoRange
  <1> HIDE DEF a
  <1>7. TypeOK'
    BY <1>1, <1>2, <1>3, <1>4, <1>5, <1>6 DEF TypeOK
  <1>8. OwnStep(r)
    <2>1. tries'[r] \in {tries[r], tries[r] + 1} /\ current' \subseteq current \cup {r}
      BY <1>2, <1>3
    <2> QED BY <1>2, <1>3, <1>4, <2>1, Zenon DEF OwnStep
  <1>9. RequestInv(r)'
    <2>1. ControlInv(r)'
      BY <1>1, <1>2, <1>3, <1>4 DEF ControlInv
    <2>2. OrderedInv(r)' /\ AddressInv(r)' /\ CopyInv(r)'
      BY <1>3 DEF OrderedInv, AddressInv, CopyInv
    <2>3. CountInv(r)'
      <3> DEFINE n == Cardinality(Cells(grid, r))
                 k == Given(r)
      <3>1. Given(r)' = k /\ k \in Nat /\ n \in Nat /\ tries[r] \in Nat
        <4>1. Given(r)' = Given(r)
          BY <1>4 DEF Given
        <4>2. k \in Nat
          BY <1>1, OrderedFits
        <4>3. n \in Nat
          BY SheetFinite
        <4>4. tries[r] \in Nat
          BY <1>1 DEF TypeOK
        <4> QED BY <4>1, <4>2, <4>3, <4>4
      <3>2. Cells(grid, r)' = Cells(grid, r)
        BY <1>2 DEF Cells
      <3>3. n <= k * tries[r]
        <4>1. n <= k * (tries[r] + 0)
          BY <1>1 DEF CountInv
        <4> QED BY <3>1, <4>1
      <3>4. mode = "graph" /\ place[r] = "sheet" /\ ~stale[r] => n <= k
        BY SheetCount
      <3> HIDE DEF n, k
      <3>5. n <= k * (tries[r] + 1)
        BY <3>1, <3>3, CountGrows
      <3> QED BY <1>2, <1>3, <1>4, <3>1, <3>2, <3>4, <3>5 DEF CountInv, n, k
    <2> QED BY <2>1, <2>2, <2>3 DEF RequestInv
  <1>10. ExcelInv'
    BY <1>2, <1>7, <1>8, <1>9, QuietKeeps
  <1> QED BY <1>2, <1>3, <1>5, <1>8, <1>10

-----------------------------------------------------------------------------
(* The steps of a request.                                                 *)

\* The row of r is where it should be after a step.
AtTheEnd(r) == AtEnd(r, grid', table', columns', answer'[r].row)

LosesNothing == NoneLost(grid, grid')

\* Cells written over blank ones.
LEMMA BlankOverwritten ==
  ASSUME NEW g, NEW h, NEW row, NEW col, NEW cells, NEW r, Wrote(h, g, row, col, cells, r),
         \A c \in Cols : row \in Rows /\ c \in col .. col + Len(cells) - 1 => g[row][c] = Blank,
         NEW v, v # Blank
  PROVE  Cardinality(Cells(g, v)) <= Cardinality(Cells(h, v))
  <1>1. ASSUME NEW x \in Cells(g, v) PROVE x \in Cells(h, v)
    <2>1. x \in Rows \X Cols /\ x[1] \in Rows /\ x[2] \in Cols /\ g[x[1]][x[2]] = v
      BY DEF Cells
    <2>2. h[x[1]][x[2]] = g[x[1]][x[2]]
      BY <2>1 DEF Wrote
    <2> QED BY <2>1, <2>2 DEF Cells
  <1> QED BY <1>1, FewerCells

\* Counting from 1, and from the left edge.
LEMMA Span ==
  ASSUME NEW left \in Nat, NEW right \in Nat, NEW n \in Nat, n = right - left + 1
  PROVE  /\ left + n - 1 = right
         /\ \A c \in Nat : c - left + 1 \in 1 .. n => c \in left .. right
         /\ \A c \in Nat : c \in left .. left + n - 1 => c \in left .. right
  OBVIOUS

\* The cells written can be read where they were written.
LEMMA WrittenRead ==
  ASSUME NEW g, NEW h, NEW row \in Rows, NEW col \in Nat, NEW cells \in Seq(BOOLEAN),
         NEW r \in Requests, Wrote(h, g, row, col, cells, r),
         col >= 1, col + Len(cells) - 1 <= MaxCol
  PROVE  Shows(h, row, col, cells, r)
  <1>1. ASSUME NEW i \in DOMAIN cells PROVE cells[i] <=> h[row][col + i - 1] = r
    <2> DEFINE c == col + i - 1
    <2>1. i \in Nat /\ i >= 1 /\ i <= Len(cells) /\ Len(cells) \in Nat /\ MaxCol \in Nat
      <3>1. DOMAIN cells = 1 .. Len(cells) /\ Len(cells) \in Nat
        OBVIOUS
      <3>2. MaxCol \in Nat
        BY SheetAssumption
      <3> QED BY <3>1, <3>2
    <2>2. c \in Cols /\ c \in col .. col + Len(cells) - 1 /\ c - col + 1 = i
      BY <2>1 DEF Cols
    <2> HIDE DEF c
    <2>3. h[row][c] = IF cells[c - col + 1] THEN r ELSE Blank
      BY <2>2 DEF Wrote
    <2>4. r # Blank
      BY CellAssumption
    <2>5. cells[i] <=> h[row][c] = r
      BY <2>2, <2>3, <2>4
    <2> QED BY <2>5 DEF c
  <1> QED BY <1>1 DEF Shows

\* A request that just started has nothing in the sheet, in graph mode.
LEMMA NothingYet ==
  ASSUME ExcelInv, NEW r \in Requests, pc[r] \in {"start", "probe"}, mode = "graph"
  PROVE  tries[r] = 0 /\ Cardinality(Cells(grid, r)) = 0 /\ Cells(grid, r) = {}
  <1>1. TypeOK /\ SheetInv /\ ControlInv(r) /\ CountInv(r)
    BY DEF ExcelInv, RequestInv
  <1>2. tries[r] = 0
    BY <1>1 DEF ControlInv
  <1>3. Given(r) \in Nat /\ Cardinality(Cells(grid, r)) \in Nat
    BY <1>1, OrderedFits, SheetFinite
  <1>4. Cardinality(Cells(grid, r)) <= Given(r) * 0
    BY <1>1, <1>2 DEF CountInv
  <1>5. Cardinality(Cells(grid, r)) = 0
    BY <1>3, <1>4
  <1>6. Cells(grid, r) = {}
    BY <1>5, SheetFinite, FS_EmptySet
  <1> QED BY <1>2, <1>5, <1>6

\* The first column with data above a row, in a sheet with nothing from the row on, or in
\* one that is the same above the row.
LEMMA LeftEdgeIsFirst ==
  ASSUME NEW g, NEW row \in Nat, \A n \in Rows, c \in Cols : g[n][c] # Blank => n < row
  PROVE  LeftEdge(g, row) = FirstUsedCol(g)
  <1>1. {c \in Cols : \E n \in Rows : n < row /\ g[n][c] # Blank} = UsedCols(g)
    BY DEF UsedCols
  <1> QED BY <1>1 DEF LeftEdge, FirstUsedCol

LEMMA LeftEdgeKept ==
  ASSUME NEW g, NEW h, NEW row, NEW col, NEW cells, NEW r, Wrote(h, g, row, col, cells, r),
         row \in Nat
  PROVE  LeftEdge(h, row) = LeftEdge(g, row)
  <1>1. ASSUME NEW n \in Rows, NEW c \in Cols, n < row PROVE h[n][c] = g[n][c]
    <2>1. n # row
      BY <1>1 DEF Rows
    <2> QED BY <2>1 DEF Wrote
  <1>2. {c \in Cols : \E n \in Rows : n < row /\ h[n][c] # Blank}
          = {c \in Cols : \E n \in Rows : n < row /\ g[n][c] # Blank}
    BY <1>1
  <1> QED BY <1>2 DEF LeftEdge

\* The counts in a workbook with one row more.
LEMMA EditCounted ==
  ASSUME ExcelInv, NEW r \in Requests, pc[r] # "done", NEW h, NEW m \in Nat, m <= Given(r),
         \A s \in Requests : s # r => Cardinality(Cells(h, s)) <= Cardinality(Cells(grid, s)),
         Cardinality(Cells(h, r)) <= Cardinality(Cells(grid, r)) + m, NEW s \in Requests
  PROVE  Cardinality(Cells(h, s)) <= Given(s) * Rounds(s, r)
  <1>1. TypeOK /\ SheetInv /\ CountInv(s)
    BY DEF ExcelInv, RequestInv
  <1> DEFINE n == Cardinality(Cells(grid, s))
             i == Cardinality(Cells(h, s))
             k == Given(s)
  <1>2. k \in Nat /\ n \in Nat /\ i \in Nat /\ tries[s] \in Nat
    <2>1. k \in Nat
      BY <1>1, OrderedFits
    <2>2. n \in Nat /\ i \in Nat
      BY SheetFinite
    <2>3. tries[s] \in Nat
      BY <1>1, TriesBound DEF TypeOK
    <2> QED BY <2>1, <2>2, <2>3
  <1>3. n <= k * (tries[s] + IF pc[s] = "done" THEN 1 ELSE 0)
    BY <1>1 DEF CountInv
  <1>4. CASE s = r
    <2>1. n <= k * tries[s]
      <3>1. tries[s] + 0 = tries[s]
        BY <1>2
      <3> QED BY <1>3, <1>4, <3>1
    <2>2. i <= n + m /\ m <= k
      BY <1>4
    <2>3. Rounds(s, r) = tries[s] + 1
      BY <1>4 DEF Rounds
    <2> HIDE DEF n, i, k
    <2>4. i <= k * (tries[s] + 1)
      BY <1>2, <2>1, <2>2, CountGrows
    <2> QED BY <2>3, <2>4 DEF i, k
  <1>5. CASE s # r
    <2>1. Rounds(s, r) = tries[s] + IF pc[s] = "done" THEN 1 ELSE 0
      BY <1>5 DEF Rounds
    <2>2. i <= n
      BY <1>5
    <2> DEFINE q == k * (tries[s] + IF pc[s] = "done" THEN 1 ELSE 0)
    <2>3. q \in Nat /\ n <= q
      BY <1>2, <1>3
    <2>4. q = Given(s) * Rounds(s, r)
      BY <2>1
    <2> HIDE DEF n, i, k, q
    <2>5. i <= q
      BY <1>2, <2>2, <2>3
    <2> QED BY <2>4, <2>5 DEF i
  <1> QED BY <1>4, <1>5

\* excel_edit makes a good copy, of a table.
LEMMA TableRowEdited ==
  ASSUME ExcelInv, NEW r \in Requests, place[r] = "table", pc[r] # "done",
         Matches(r), ~InTheWay
  PROVE  Good(TableEdit(r), r) /\ NoneLost(grid, TableEdit(r).grid)
  <1>1. TypeOK /\ SheetInv /\ TableRowsStayInTable
    BY DEF ExcelInv
  <1> DEFINE row == TargetRow
             cells == Ordered(r)
             h == WithRow(grid, row, table.left, cells, r)
             t == Grown(table, row)
             w == [grid |-> h, table |-> t, columns |-> columns, row |-> row - table.top]
  <1>2. /\ table.left \in Nat /\ table.right \in Nat /\ table.top \in Nat /\ table.bottom \in Nat
        /\ table.left >= 1 /\ table.top >= 1 /\ table.left <= table.right
        /\ table.top <= table.bottom /\ table.right <= MaxCol /\ MaxCol \in Nat
        /\ table.bottom <= MaxRow /\ table \in Refs /\ Columns(table) \subseteq Cols
    <2>1. table \in Refs
      BY <1>1 DEF TypeOK
    <2>2. MaxRow \in Nat /\ MaxCol \in Nat
      BY SheetAssumption
    <2>3. table.right \in Cols /\ table.bottom \in Rows
      BY <2>1, TableShape
    <2>4. table.right <= MaxCol /\ table.bottom <= MaxRow
      BY <2>2, <2>3 DEF Rows, Cols
    <2> QED BY <2>1, <2>2, <2>4, TableShape
  <1>3. Floor \in Nat /\ MaxRow \in Nat /\ Floor + 1 <= MaxRow /\ table.bottom <= Floor
    BY <1>1, Room DEF SheetInv
  <1>4. row \in Nat /\ row > table.top /\ row <= table.bottom + 1
        /\ \A n \in Rows, c \in Columns(table) :
              n >= row /\ n <= table.bottom => grid[n][c] = Blank
    BY <1>1, Target
  <1>5. cells \in Seq(BOOLEAN) /\ Cardinality(Marks(cells)) <= Given(r) /\ Given(r) \in Nat
        /\ Cardinality(Marks(cells)) \in Nat
    BY <1>1, OrderedFits, MarksFinite
  <1>6. /\ Len(cells) = table.right - table.left + 1 /\ Len(cells) \in Nat
        /\ table.left + Len(cells) - 1 = table.right
        /\ \A c \in Nat : c - table.left + 1 \in 1 .. Len(cells) => c \in Columns(table)
        /\ \A c \in Nat : c \in table.left .. table.left + Len(cells) - 1 => c \in Columns(table)
    <2>1. Len(cells) = table.right - table.left + 1
      BY <1>1 DEF Matches, TypeOK
    <2>2. Len(cells) \in Nat
      BY <1>5
    <2> DEFINE left == table.left
               right == table.right
               n == Len(cells)
    <2>3. left \in Nat /\ right \in Nat /\ n \in Nat /\ n = right - left + 1
      BY <1>2, <2>1, <2>2
    <2> HIDE DEF left, right, n
    <2>4. /\ left + n - 1 = right
          /\ \A c \in Nat : c - left + 1 \in 1 .. n => c \in left .. right
          /\ \A c \in Nat : c \in left .. left + n - 1 => c \in left .. right
      BY <2>3, Span
    <2> QED BY <2>1, <2>2, <2>4, Zenon DEF left, right, n, Columns
  <1>7. row > table.bottom => IsBlankRow(grid, row, Columns(table))
    BY DEF InTheWay, Grows
  <1>8. row \in Rows /\ row <= Floor + 1 /\ row - table.top \in 0 .. MaxRow
    BY <1>2, <1>3, <1>4 DEF Rows
  <1>9. /\ t \in Refs /\ t.left = table.left /\ t.right = table.right
        /\ t.top = table.top /\ row <= t.bottom /\ table.bottom <= t.bottom
        /\ t.bottom <= Floor + 1 /\ t.bottom \in Nat
        /\ t.bottom = row \/ t.bottom = table.bottom
    <2>1. CASE row > table.bottom
      <3>1. t = [table EXCEPT !.bottom = row]
        BY <2>1 DEF Grown
      <3> QED BY <1>2, <1>3, <1>4, <1>8, <2>1, <3>1 DEF Refs
    <2>2. CASE ~(row > table.bottom)
      <3>1. t = table
        BY <2>2 DEF Grown
      <3> QED BY <1>2, <1>3, <1>4, <2>2, <3>1
    <2> QED BY <2>1, <2>2
  <1>10. h \in Grids /\ Wrote(h, grid, row, table.left, cells, r)
    BY <1>1, <1>2, <1>5, <1>8, RowWritten DEF TypeOK
  <1>11. TableEdit(r) = w
    BY DEF TableEdit
  <1>12. w.grid = h /\ w.table = t /\ w.columns = columns /\ w.row = row - table.top
    OBVIOUS
  <1>13. w \in Copies
    <2>1. columns \in Seq(ToSet(Headers))
      BY <1>1 DEF TypeOK
    <2> HIDE DEF row, cells, h, t
    <2> QED BY <1>8, <1>9, <1>10, <2>1 DEF Copies
  <1> HIDE DEF row, cells, h, t, w
  <1>14. /\ \A c \in Columns(table) : h[table.top][c] # Blank
         /\ \A s \in Rows, c \in Cols : h[s][c] # Blank => s <= Floor + 1
         /\ \A s \in Requests : s # r => /\ Cells(h, s) \subseteq Cells(grid, s)
                                        /\ Cardinality(Cells(h, s)) <= Cardinality(Cells(grid, s))
         /\ Cells(h, r) \subseteq Cells(grid, r) \cup Placed(row, table.left, cells)
         /\ Cardinality(Cells(h, r)) <= Cardinality(Cells(grid, r)) + Cardinality(Marks(cells))
    BY <1>2, <1>4, <1>5, <1>8, <1>10, WriteKeeps
  <1>15. Columns(t) = Columns(table)
    BY <1>9 DEF Columns
  <1>16. Shape(w)
    <2>1. Len(columns) = table.right - table.left + 1 /\ table.right <= LastCol /\ IsInjective(columns)
      BY <1>1 DEF TypeOK, SheetInv
    <2> QED BY <1>9, <1>12, <1>13, <1>14, <1>15, <2>1 DEF Shape
  <1>17. Within(w, Floor + 1)
    BY <1>9, <1>12, <1>14 DEF Within
  <1>18. Inside(w)
    <2>1. ASSUME NEW s \in Requests, place[s] = "table", NEW x \in Cells(h, s)
          PROVE  x[1] \in t.top + 1 .. t.bottom /\ x[2] \in Columns(t)
      <3>1. CASE x \in Cells(grid, s)
        <4>1. x[1] \in table.top + 1 .. table.bottom /\ x[2] \in Columns(table)
          BY <1>1, <2>1, <3>1 DEF TableRowsStayInTable
        <4> QED BY <1>2, <1>9, <1>15, <4>1
      <3>2. CASE x \notin Cells(grid, s)
        <4>1. x \in Placed(row, table.left, cells)
          BY <1>14, <2>1, <3>2
        <4>2. x[1] = row /\ x[2] \in Cols /\ x[2] - table.left + 1 \in Marks(cells)
          BY <4>1 DEF Placed
        <4>3. x[2] - table.left + 1 \in 1 .. Len(cells) /\ x[2] \in Nat
          BY <1>5, <4>2, MarksFinite DEF Cols
        <4>4. x[2] \in Columns(table)
          BY <1>6, <4>3, Zenon
        <4> QED BY <1>2, <1>4, <1>9, <1>15, <4>2, <4>4
      <3> QED BY <3>1, <3>2
    <2> QED BY <1>12, <2>1 DEF Inside
  <1>19. Counted(w, r)
    <2> DEFINE m == Cardinality(Marks(cells))
    <2>1. m \in Nat /\ m <= Given(r)
          /\ Cardinality(Cells(h, r)) <= Cardinality(Cells(grid, r)) + m
      BY <1>5, <1>14
    <2> HIDE DEF m
    <2>2. \A s \in Requests : Cardinality(Cells(h, s)) <= Given(s) * Rounds(s, r)
      BY <1>14, <2>1, EditCounted
    <2> QED BY <1>12, <2>2 DEF Counted
  <1>20. AtEnd(r, h, t, columns, row - table.top)
    <2>1. t.top + (row - table.top) = row
      BY <1>2, <1>4, <1>9
    <2>2. Shows(h, row, table.left, cells, r)
      <3> DEFINE left == table.left
      <3>1. left \in Nat /\ left >= 1 /\ left + Len(cells) - 1 = table.right
            /\ Wrote(h, grid, row, left, cells, r)
        BY <1>2, <1>6, <1>10, Zenon
      <3> HIDE DEF left
      <3>2. Shows(h, row, left, cells, r)
        <4>1. left + Len(cells) - 1 <= MaxCol
          BY <1>2, <3>1
        <4> QED BY <1>5, <1>8, <3>1, <4>1, WrittenRead
      <3> QED BY <3>2 DEF left
    <2>3. ASSUME NEW s \in Rows, s > row, s <= t.bottom PROVE IsBlankRow(h, s, Columns(t))
      <3>1. s \in Nat /\ s # row /\ s >= row /\ s <= table.bottom
        BY <1>2, <1>4, <1>9, <2>3 DEF Rows
      <3>2. ASSUME NEW c \in Columns(table) PROVE h[s][c] = Blank
        <4>1. c \in Cols /\ grid[s][c] = Blank
          BY <1>2, <1>4, <3>1
        <4> QED BY <1>10, <3>1, <4>1 DEF Wrote
      <3> QED BY <1>15, <3>2 DEF IsBlankRow
    <2>4. cells = OrderedBy(columns, r)
      BY DEF cells, Ordered, OrderedBy
    <2> DEFINE told == row - table.top
    <2>5. t.top + told = row /\ t.left = table.left
      BY <1>9, <2>1
    <2> HIDE DEF told
    <2>6. AtEnd(r, h, t, columns, told)
      BY <2>2, <2>3, <2>4, <2>5 DEF AtEnd
    <2> QED BY <2>6 DEF told
  <1>21. \A c \in Cols : c \in table.left .. table.left + Len(cells) - 1 => grid[row][c] = Blank
    <2>1. ASSUME NEW c \in Cols, c \in table.left .. table.left + Len(cells) - 1
          PROVE  grid[row][c] = Blank
      <3>1. c \in Columns(table)
        <4>1. c \in Nat
          BY DEF Cols
        <4> QED BY <1>6, <2>1, <4>1, Zenon
      <3>2. CASE row > table.bottom
        BY <1>7, <3>1, <3>2 DEF IsBlankRow
      <3>3. CASE ~(row > table.bottom)
        <4>1. row <= table.bottom /\ row >= row
          BY <1>2, <1>4, <3>3
        <4> QED BY <1>4, <1>8, <3>1, <4>1
      <3> QED BY <3>2, <3>3
    <2> QED BY <2>1
  <1>22. NoneLost(grid, h)
    <2>1. ASSUME NEW v, v # Blank PROVE Cardinality(Cells(grid, v)) <= Cardinality(Cells(h, v))
      BY <1>10, <1>21, <2>1, BlankOverwritten
    <2> QED BY <2>1 DEF NoneLost
  <1> QED BY <1>11, <1>12, <1>16, <1>17, <1>18, <1>19, <1>20, <1>22 DEF Good

\* And of a sheet.
LEMMA SheetRowEdited ==
  ASSUME ExcelInv, NEW r \in Requests, place[r] = "sheet", pc[r] # "done"
  PROVE  Good(SheetEdit(r), r) /\ NoneLost(grid, SheetEdit(r).grid)
  <1>1. TypeOK /\ SheetInv /\ TableRowsStayInTable
    BY DEF ExcelInv
  <1> DEFINE row == LastUsedRow(grid) + 1
             left == FirstUsedCol(grid)
             cells == sent[r].cells
             h == WithRow(grid, row, left, cells, r)
             w == [grid |-> h, table |-> table, columns |-> columns, row |-> row]
  <1>2. /\ table.top \in Nat /\ table.bottom \in Nat /\ table \in Refs
        /\ MaxRow \in Nat /\ MaxCol \in Nat /\ LastCol \in Nat
    <2>1. table \in Refs
      BY <1>1 DEF TypeOK
    <2> QED BY <2>1, TableShape, SheetAssumption
  <1>3. Floor \in Nat /\ Floor + 1 <= MaxRow /\ table.bottom <= Floor
    BY <1>1, Room DEF SheetInv
  <1>4. /\ LastUsedRow(grid) \in Rows /\ left \in 1 .. LastCol /\ left \in Cols
        /\ table.top <= LastUsedRow(grid) /\ LastUsedRow(grid) <= Floor
        /\ \A n \in Rows, c \in Cols : grid[n][c] # Blank => n <= LastUsedRow(grid)
    BY <1>1, UsedPart
  <1>5. row \in Rows /\ row \in Nat /\ row > table.top /\ row <= Floor + 1 /\ row \in 0 .. MaxRow
    BY <1>2, <1>3, <1>4 DEF Rows
  <1>6. ASSUME NEW n \in Rows, n >= row, NEW c \in Cols PROVE grid[n][c] = Blank
    <2>1. ~(n <= LastUsedRow(grid))
      BY <1>4, <1>6 DEF Rows
    <2> QED BY <1>4, <2>1
  <1>7. left \in Nat /\ left >= 1
    BY <1>4 DEF Cols
  <1>8. cells \in Seq(BOOLEAN) /\ Cardinality(Marks(cells)) <= Given(r) /\ Given(r) \in Nat
        /\ Cardinality(Marks(cells)) \in Nat
    BY <1>1, OrderedFits, MarksFinite
  <1>9. left + Len(cells) - 1 <= MaxCol
    <2>1. sent[r] \in RowsToAdd
      BY <1>1 DEF TypeOK
    <2>2. LastCol + Len(cells) <= MaxCol + 1
      BY <2>1, SheetAssumption
    <2> DEFINE n == Len(cells)
    <2>3. n \in Nat /\ LastCol + n <= MaxCol + 1
      BY <1>8, <2>2
    <2> HIDE DEF n, left
    <2>4. left + n - 1 <= MaxCol
      BY <1>2, <1>4, <2>3
    <2> QED BY <2>4 DEF n
  <1>10. h \in Grids /\ Wrote(h, grid, row, left, cells, r)
    <2>1. grid \in Grids
      BY <1>1 DEF TypeOK
    <2> HIDE DEF row, left, cells
    <2> QED BY <1>5, <1>7, <1>8, <2>1, RowWritten
  <1>11. SheetEdit(r) = w
    BY DEF SheetEdit
  <1>12. w.grid = h /\ w.table = table /\ w.columns = columns /\ w.row = row
    OBVIOUS
  <1>13. w \in Copies
    <2>1. columns \in Seq(ToSet(Headers))
      BY <1>1 DEF TypeOK
    <2> HIDE DEF row, left, cells, h
    <2> QED BY <1>2, <1>5, <1>10, <2>1 DEF Copies
  <1>14. left = LeftEdge(grid, row)
    <2>1. \A n \in Rows, c \in Cols : grid[n][c] # Blank => n < row
      BY <1>4 DEF Rows
    <2> HIDE DEF row
    <2> QED BY <1>5, <2>1, LeftEdgeIsFirst
  <1> HIDE DEF row, left, cells, h, w
  <1>15. /\ \A c \in Columns(table) : h[table.top][c] # Blank
         /\ \A s \in Rows, c \in Cols : h[s][c] # Blank => s <= Floor + 1
         /\ \A s \in Requests : s # r => /\ Cells(h, s) \subseteq Cells(grid, s)
                                        /\ Cardinality(Cells(h, s)) <= Cardinality(Cells(grid, s))
         /\ Cells(h, r) \subseteq Cells(grid, r) \cup Placed(row, left, cells)
         /\ Cardinality(Cells(h, r)) <= Cardinality(Cells(grid, r)) + Cardinality(Marks(cells))
    BY <1>5, <1>7, <1>8, <1>10, WriteKeeps
  <1>16. Shape(w)
    <2>1. Len(columns) = table.right - table.left + 1 /\ table.right <= LastCol /\ IsInjective(columns)
      BY <1>1 DEF TypeOK, SheetInv
    <2> QED BY <1>12, <1>13, <1>15, <2>1 DEF Shape
  <1>17. Within(w, Floor + 1)
    <2>1. table.bottom <= Floor + 1
      BY <1>2, <1>3
    <2> QED BY <1>12, <1>15, <2>1 DEF Within
  <1>18. Inside(w)
    <2>1. ASSUME NEW s \in Requests, place[s] = "table", NEW x \in Cells(h, s)
          PROVE  x[1] \in table.top + 1 .. table.bottom /\ x[2] \in Columns(table)
      <3>1. x \in Cells(grid, s)
        BY <1>15, <2>1
      <3> QED BY <1>1, <2>1, <3>1 DEF TableRowsStayInTable
    <2> QED BY <1>12, <2>1 DEF Inside
  <1>19. Counted(w, r)
    <2> DEFINE m == Cardinality(Marks(cells))
    <2>1. m \in Nat /\ m <= Given(r)
          /\ Cardinality(Cells(h, r)) <= Cardinality(Cells(grid, r)) + m
      BY <1>8, <1>15
    <2> HIDE DEF m
    <2>2. \A s \in Requests : Cardinality(Cells(h, s)) <= Given(s) * Rounds(s, r)
      BY <1>15, <2>1, EditCounted
    <2> QED BY <1>12, <2>2 DEF Counted
  <1>20. AtEnd(r, h, table, columns, row)
    <2>1. Shows(h, row, left, cells, r)
      BY <1>5, <1>7, <1>8, <1>9, <1>10, WrittenRead
    <2>2. left = LeftEdge(h, row)
      BY <1>5, <1>10, <1>14, LeftEdgeKept
    <2>3. ASSUME NEW s \in Rows, s > row PROVE IsBlankRow(h, s, Cols)
      <3>1. s # row /\ s >= row
        BY <1>5, <2>3 DEF Rows
      <3>2. \A c \in Cols : h[s][c] = Blank
        BY <1>6, <1>10, <3>1 DEF Wrote
      <3> QED BY <3>2 DEF IsBlankRow
    <2> QED BY <2>1, <2>2, <2>3 DEF AtEnd, cells
  <1>21. \A c \in Cols : row \in Rows /\ c \in left .. left + Len(cells) - 1 => grid[row][c] = Blank
    BY <1>5, <1>6
  <1>22. NoneLost(grid, h)
    <2>1. ASSUME NEW v, v # Blank PROVE Cardinality(Cells(grid, v)) <= Cardinality(Cells(h, v))
      BY <1>10, <1>21, <2>1, BlankOverwritten
    <2> QED BY <2>1 DEF NoneLost
  <1> QED BY <1>11, <1>12, <1>16, <1>17, <1>18, <1>19, <1>20, <1>22 DEF Good

\* A copy is made, which changes nothing yet.
LEMMA CopyMade ==
  ASSUME ExcelInv, NEW r \in Requests, mode = "download", pc[r] = "start", NEW w,
         Good(w, r), NoneLost(grid, w.grid), Download(r, w), UNCHANGED <<inputs, moves>>
  PROVE  ExcelInv' /\ OwnStep(r) /\ grid' = grid /\ answer'[r].status # "added"
  <1>1. TypeOK /\ SheetInv /\ ControlInv(r) /\ CountInv(r)
    BY DEF ExcelInv, RequestInv
  <1>2. /\ pc' = [pc EXCEPT ![r] = "put"] /\ edited' = [edited EXCEPT ![r] = w]
        /\ current' = current \cup {r}
        /\ mode' = mode /\ place' = place /\ sent' = sent /\ columns' = columns /\ moves' = moves
        /\ grid' = grid /\ table' = table /\ ordered' = ordered /\ used' = used
        /\ address' = address /\ tries' = tries /\ answer' = answer /\ stale' = stale
    BY DEF Download, Goto, inputs, workbook, looked
  <1>3. w \in Copies
    BY DEF Good, Shape
  <1>4. TypeOK'
    BY <1>1, <1>2, <1>3 DEF TypeOK
  <1>5. /\ pc'[r] = "put" /\ edited'[r] = w
        /\ \A s \in Requests : s # r => pc'[s] = pc[s] /\ edited'[s] = edited[s]
    BY <1>1, <1>2 DEF TypeOK
  <1>6. OwnStep(r)
    BY <1>2, <1>5 DEF OwnStep
  <1>7. answer[r] = NoAnswer /\ ~stale[r]
    BY <1>1 DEF ControlInv
  <1>8. ControlInv(r)'
    BY <1>1, <1>2, <1>5, <1>7 DEF ControlInv
  <1>9. OrderedInv(r)' /\ AddressInv(r)'
    BY <1>5 DEF OrderedInv, AddressInv
  <1>10. CountInv(r)'
    <2>1. Given(r)' = Given(r) /\ Cells(grid, r)' = Cells(grid, r)
      BY <1>2 DEF Given, Cells
    <2> QED BY <1>1, <1>2, <1>5, <2>1 DEF CountInv
  <1>11. CopyInv(r)'
    <2>1. Progress
      BY <1>1, <1>6, OwnProgress
    <2>2. Good(edited[r], r)'
      BY <1>2, <1>4, <1>5, <2>1, GoodCarries
    <2>3. NoneLost(grid, edited[r].grid)'
      BY <1>2, <1>5 DEF NoneLost, Cells
    <2> QED BY <2>2, <2>3 DEF CopyInv
  <1>12. ExcelInv'
    BY <1>2, <1>4, <1>6, <1>8, <1>9, <1>10, <1>11, QuietKeeps DEF RequestInv
  <1>13. answer'[r].status # "added"
    BY <1>2, <1>7 DEF NoAnswer
  <1> QED BY <1>2, <1>6, <1>12, <1>13

\* What the end of a round does to the request.
RoundOver(r, to, n, a) ==
    /\ pc' = [pc EXCEPT ![r] = to] /\ tries' = [tries EXCEPT ![r] = n]
    /\ edited' = [edited EXCEPT ![r] = NoCopy] /\ answer' = [answer EXCEPT ![r] = a]
    /\ ordered' = ordered /\ address' = address
    /\ used' = used \/ used' = [used EXCEPT ![r] = NoRange]
    /\ \/ to = "start" /\ n = tries[r] + 1 /\ n \in 0 .. MostTries /\ a = answer[r]
       \/ to = "done" /\ n = tries[r] /\ a.status # "none"
    /\ a.status = "added" => a.row = edited[r].row \/ a = answer[r]
    /\ a \in [status: {"none", "added", "bad_request", "conflict", "failed"}, row: 0 .. MaxRow]

LEMMA RoundEnds ==
  ASSUME TypeOK, NEW r \in Requests, edited[r] \in Copies,
         \/ Finish(r, "added", edited[r].row)
         \/ Finish(r, "failed", 0)
         \/ NextRound(r)
  PROVE  \E to, n, a : RoundOver(r, to, n, a)
  <1>1. tries[r] \in Nat /\ tries \in [Requests -> 0 .. MostTries] /\ MaxRow \in Nat
        /\ answer[r] \in [status: {"none", "added", "bad_request", "conflict", "failed"},
                           row: 0 .. MaxRow]
    BY SheetAssumption DEF TypeOK
  <1>2. ASSUME NEW status \in {"added", "conflict", "failed"}, NEW row \in 0 .. MaxRow,
               Finish(r, status, row), status = "added" => row = edited[r].row
        PROVE  \E to, n, a : RoundOver(r, to, n, a)
    <2> DEFINE a == [status |-> status, row |-> row]
    <2>1. /\ a \in [status: {"none", "added", "bad_request", "conflict", "failed"}, row: 0 .. MaxRow]
          /\ a.status # "none" /\ (a.status = "added" => a.row = edited[r].row)
      BY <1>2
    <2>2. tries' = [tries EXCEPT ![r] = tries[r]]
      <3>1. tries' = tries
        BY <1>2 DEF Finish
      <3> QED BY <1>1, <3>1
    <2>3. /\ pc' = [pc EXCEPT ![r] = "done"] /\ edited' = [edited EXCEPT ![r] = NoCopy]
          /\ answer' = [answer EXCEPT ![r] = a]
          /\ ordered' = ordered /\ address' = address /\ used' = [used EXCEPT ![r] = NoRange]
      BY <1>2 DEF Finish, Goto
    <2> HIDE DEF a
    <2>4. RoundOver(r, "done", tries[r], a)
      BY <2>1, <2>2, <2>3 DEF RoundOver
    <2> QED BY <2>4
  <1>3. CASE Finish(r, "added", edited[r].row)
    <2> DEFINE row == edited[r].row
    <2>1. row \in 0 .. MaxRow
      BY DEF Copies
    <2> HIDE DEF row
    <2>2. Finish(r, "added", row)
      BY <1>3 DEF row
    <2>3. row = edited[r].row
      BY DEF row
    <2> QED BY <1>2, <2>1, <2>2, <2>3
  <1>4. CASE Finish(r, "failed", 0)
    BY <1>1, <1>2, <1>4
  <1>5. CASE NextRound(r)
    <2>1. CASE Finish(r, "conflict", 0)
      BY <1>1, <1>2, <2>1
    <2>2. CASE ~Finish(r, "conflict", 0)
      <3>1. /\ tries[r] < EXCEL_APPEND_ATTEMPTS - 1
            /\ tries' = [tries EXCEPT ![r] = @ + 1]
            /\ pc' = [pc EXCEPT ![r] = "start"]
            /\ edited' = [edited EXCEPT ![r] = NoCopy]
            /\ ordered' = ordered /\ used' = used /\ address' = address /\ answer' = answer
        BY <1>5, <2>2 DEF NextRound, Goto, looked
      <3> DEFINE n == tries[r] + 1
                 a == answer[r]
      <3>2. n \in 0 .. MostTries
        BY <1>1, <3>1, TriesBound
      <3>3. tries' = [tries EXCEPT ![r] = n] /\ n = tries[r] + 1
        BY <3>1
      <3>4. answer' = [answer EXCEPT ![r] = a] /\ a = answer[r]
        <4>1. answer = [answer EXCEPT ![r] = answer[r]]
          BY DEF TypeOK
        <4> QED BY <3>1, <4>1
      <3>5. a \in [status: {"none", "added", "bad_request", "conflict", "failed"}, row: 0 .. MaxRow]
        BY <1>1
      <3> HIDE DEF n, a
      <3>6. RoundOver(r, "start", n, a)
        BY <3>1, <3>2, <3>3, <3>4, <3>5 DEF RoundOver
      <3> QED BY <3>6
    <2> QED BY <2>1, <2>2
  <1> QED BY <1>3, <1>4, <1>5

LEMMA RoundChanges ==
  ASSUME TypeOK, NEW r \in Requests, NEW to, NEW n, NEW a, RoundOver(r, to, n, a),
         pc[r] # "done"
  PROVE  /\ pc'[r] = to /\ tries'[r] = n /\ answer'[r] = a
         /\ \A s \in Requests : s # r =>
               /\ pc'[s] = pc[s] /\ ordered'[s] = ordered[s] /\ used'[s] = used[s]
               /\ address'[s] = address[s] /\ edited'[s] = edited[s]
               /\ tries'[s] = tries[s] /\ answer'[s] = answer[s]
         /\ pc' \in [Requests -> {"start", "add", "probe", "patch", "put", "chunk", "done"}]
         /\ ordered' \in [Requests -> Seq(BOOLEAN)]
         /\ used' \in [Requests -> [row: Nat, col: Nat, rows: Nat, cols: Nat]]
         /\ address' = address
         /\ edited' \in [Requests -> Copies \cup {NoCopy}]
         /\ tries' \in [Requests -> 0 .. MostTries]
         /\ answer' \in [Requests ->
               [status: {"none", "added", "bad_request", "conflict", "failed"}, row: 0 .. MaxRow]]
         /\ Progress /\ tries[r] \in Nat
  <1>1. /\ pc \in [Requests -> {"start", "add", "probe", "patch", "put", "chunk", "done"}]
        /\ ordered \in [Requests -> Seq(BOOLEAN)]
        /\ used \in [Requests -> [row: Nat, col: Nat, rows: Nat, cols: Nat]]
        /\ edited \in [Requests -> Copies \cup {NoCopy}]
        /\ tries \in [Requests -> 0 .. MostTries]
        /\ answer \in [Requests ->
              [status: {"none", "added", "bad_request", "conflict", "failed"}, row: 0 .. MaxRow]]
    BY DEF TypeOK
  <1>2. NoRange \in [row: Nat, col: Nat, rows: Nat, cols: Nat]
    BY DEF NoRange
  <1>3. /\ pc' = [pc EXCEPT ![r] = to] /\ tries' = [tries EXCEPT ![r] = n]
        /\ edited' = [edited EXCEPT ![r] = NoCopy] /\ answer' = [answer EXCEPT ![r] = a]
        /\ ordered' = ordered /\ address' = address
        /\ used' = used \/ used' = [used EXCEPT ![r] = NoRange]
        /\ a \in [status: {"none", "added", "bad_request", "conflict", "failed"}, row: 0 .. MaxRow]
    BY DEF RoundOver
  <1>4. to \in {"start", "done"} /\ n \in 0 .. MostTries /\ (to # "done" => n = tries[r] + 1)
        /\ n \in {tries[r], tries[r] + 1}
    BY <1>1 DEF RoundOver
  <1>5. tries[r] \in Nat
    BY <1>1
  <1>6. /\ pc'[r] = to /\ tries'[r] = n /\ answer'[r] = a
        /\ \A s \in Requests : s # r =>
              /\ pc'[s] = pc[s] /\ ordered'[s] = ordered[s] /\ used'[s] = used[s]
              /\ address'[s] = address[s] /\ edited'[s] = edited[s]
              /\ tries'[s] = tries[s] /\ answer'[s] = answer[s]
    BY <1>1, <1>3
  <1>7. Progress
    <2>1. ASSUME NEW s \in Requests
          PROVE  /\ tries[s] <= tries'[s]
                 /\ tries[s] = tries'[s] /\ pc[s] = "done" => pc'[s] = "done"
      <3>1. tries[s] \in Nat
        BY <1>1
      <3>2. CASE s # r
        BY <1>6, <3>1, <3>2
      <3>3. CASE s = r
        BY <1>4, <1>6, <3>1, <3>3
      <3> QED BY <3>2, <3>3
    <2> QED BY <2>1 DEF Progress
  <1>8. pc' \in [Requests -> {"start", "add", "probe", "patch", "put", "chunk", "done"}]
    BY <1>1, <1>3, <1>4
  <1>9. used' \in [Requests -> [row: Nat, col: Nat, rows: Nat, cols: Nat]]
    BY <1>1, <1>2, <1>3
  <1>10. edited' \in [Requests -> Copies \cup {NoCopy}]
    BY <1>1, <1>3
  <1>11. tries' \in [Requests -> 0 .. MostTries]
    BY <1>1, <1>3, <1>4
  <1>12. answer' \in [Requests ->
           [status: {"none", "added", "bad_request", "conflict", "failed"}, row: 0 .. MaxRow]]
    BY <1>1, <1>3
  <1> QED BY <1>1, <1>3, <1>5, <1>6, <1>7, <1>8, <1>9, <1>10, <1>11, <1>12

\* The file is somebody's copy now, and the request goes on.
LEMMA StoreKeeps ==
  ASSUME ExcelInv, NEW r \in Requests, pc[r] \in {"put", "chunk"}, Store(r),
         \/ Finish(r, "added", edited[r].row)
         \/ Finish(r, "failed", 0)
         \/ NextRound(r),
         UNCHANGED <<inputs, moves>>
  PROVE  /\ ExcelInv'
         /\ r \in current => LosesNothing
         /\ answer'[r].status = "added" => AtTheEnd(r)
         /\ \A s \in Requests : s # r => answer'[s] = answer[s]
         /\ pc'[r] # pc[r]
  <1>1. TypeOK /\ SheetInv /\ TableRowsStayInTable /\ ControlInv(r) /\ CopyInv(r)
    BY DEF ExcelInv, RequestInv
  <1> DEFINE w == edited[r]
  <1>2. Good(w, r) /\ (r \in current => NoneLost(grid, w.grid))
    BY <1>1 DEF CopyInv
  <1>3. Shape(w) /\ Within(w, Floor + 1) /\ Inside(w) /\ Counted(w, r)
        /\ AtEnd(r, w.grid, w.table, w.columns, w.row)
    BY <1>2 DEF Good
  <1>4. w \in Copies /\ w.grid \in Grids /\ w.table \in Refs /\ w.columns \in Seq(ToSet(Headers))
    BY <1>3 DEF Shape, Copies
  <1>5. mode = "download" /\ answer[r] = NoAnswer /\ ~stale[r]
    BY <1>1 DEF ControlInv
  <1>6. /\ grid' = w.grid /\ table' = w.table /\ columns' = w.columns /\ current' = {}
        /\ stale' = stale
    BY DEF Store
  <1>7. mode' = mode /\ place' = place /\ sent' = sent /\ moves' = moves
    BY DEF inputs
  <1>8. PICK to, n, a : RoundOver(r, to, n, a)
    BY <1>1, <1>4, RoundEnds
  <1>9. /\ pc'[r] = to /\ tries'[r] = n /\ answer'[r] = a
        /\ \A s \in Requests : s # r =>
              /\ pc'[s] = pc[s] /\ ordered'[s] = ordered[s] /\ used'[s] = used[s]
              /\ address'[s] = address[s] /\ edited'[s] = edited[s]
              /\ tries'[s] = tries[s] /\ answer'[s] = answer[s]
        /\ pc' \in [Requests -> {"start", "add", "probe", "patch", "put", "chunk", "done"}]
        /\ ordered' \in [Requests -> Seq(BOOLEAN)]
        /\ used' \in [Requests -> [row: Nat, col: Nat, rows: Nat, cols: Nat]]
        /\ address' = address
        /\ edited' \in [Requests -> Copies \cup {NoCopy}]
        /\ tries' \in [Requests -> 0 .. MostTries]
        /\ answer' \in [Requests ->
              [status: {"none", "added", "bad_request", "conflict", "failed"}, row: 0 .. MaxRow]]
        /\ Progress /\ tries[r] \in Nat
    BY <1>1, <1>8, RoundChanges
  <1>10. /\ (to = "start" /\ n = tries[r] + 1 /\ a = answer[r]) \/ (to = "done" /\ n = tries[r])
         /\ a.status = "added" => a.row = w.row \/ a = answer[r]
    BY <1>8 DEF RoundOver
  <1> HIDE DEF w
  <1>11. TypeOK'
    <2>1. Len(columns') = table'.right - table'.left + 1
      BY <1>3, <1>6 DEF Shape
    <2> QED BY <1>1, <1>4, <1>6, <1>7, <1>9, <2>1 DEF TypeOK
  <1>12. Floor \in Nat /\ Floor' \in Nat /\ Floor + 1 <= Floor'
    BY <1>1, <1>9, <1>10, <1>11, FloorRises
  <1>13. SheetInv'
    <2>1. table'.bottom <= Floor'
      <3>1. table'.bottom <= Floor + 1 /\ table'.bottom \in Nat
        BY <1>3, <1>4, <1>6, TableShape DEF Within
      <3> QED BY <1>12, <3>1
    <2>2. ASSUME NEW row \in Rows, NEW c \in Cols, grid'[row][c] # Blank PROVE row <= Floor'
      <3>1. row <= Floor + 1 /\ row \in Nat
        BY <1>3, <1>6, <2>2 DEF Within, Rows
      <3>2. ASSUME NEW i \in Nat, NEW f \in Nat, NEW g \in Nat, i <= f + 1, f + 1 <= g PROVE i <= g
        BY <3>2
      <3> QED BY <1>12, <3>1, <3>2
    <2>3. /\ table'.right <= LastCol /\ IsInjective(columns')
          /\ \A c \in Columns(table') : grid'[table'.top][c] # Blank
      BY <1>3, <1>6 DEF Shape
    <2> QED BY <2>1, <2>2, <2>3 DEF SheetInv
  <1>14. TableRowsStayInTable'
    <2>1. \A s \in Requests : place'[s] = "table" => \A c \in Cells(grid', s) :
             c[1] \in table'.top + 1 .. table'.bottom /\ c[2] \in Columns(table')
      BY <1>3, <1>6, <1>7 DEF Inside
    <2>2. \A s : Cells(grid, s)' = Cells(grid', s)
      BY DEF Cells
    <2> QED BY <2>1, <2>2 DEF TableRowsStayInTable
  <1>15. ASSUME NEW s \in Requests PROVE RequestInv(s)'
    <2>1. ControlInv(s) /\ CopyInv(s)
      BY DEF ExcelInv, RequestInv
    <2>2. ControlInv(s)'
      <3>1. CASE s # r
        BY <1>6, <1>7, <1>9, <2>1, <3>1 DEF ControlInv
      <3>2. CASE s = r
        BY <1>5, <1>6, <1>7, <1>9, <1>10, <2>1, <3>2 DEF ControlInv
      <3> QED BY <3>1, <3>2
    <2>3. pc'[s] \notin {"add", "probe", "patch"}
      BY <1>5, <1>7, <2>2 DEF ControlInv
    <2>4. OrderedInv(s)' /\ AddressInv(s)'
      BY <2>3 DEF OrderedInv, AddressInv
    <2>5. CountInv(s)'
      <3>1. Cardinality(Cells(w.grid, s)) <= Given(s) * Rounds(s, r)
        BY <1>3 DEF Counted
      <3>2. Given(s)' = Given(s) /\ Cells(grid, s)' = Cells(w.grid, s)
        BY <1>6, <1>7 DEF Given, Cells
      <3>3. tries'[s] + (IF pc'[s] = "done" THEN 1 ELSE 0) = Rounds(s, r)
        <4>1. CASE s # r
          BY <1>9, <4>1 DEF Rounds
        <4>2. CASE s = r
          <5>1. tries[r] + 1 + 0 = tries[r] + 1
            BY <1>9, SMTT(30)
          <5> QED BY <1>9, <1>10, <4>2, <5>1 DEF Rounds
        <4> QED BY <4>1, <4>2
      <3> QED BY <1>5, <1>7, <3>1, <3>2, <3>3 DEF CountInv
    <2>6. CopyInv(s)'
      <3>1. CASE s = r
        BY <1>9, <1>10, <3>1 DEF CopyInv
      <3>2. CASE s # r
        <4>1. ASSUME pc[s] \in {"put", "chunk"} PROVE Good(edited[s], s)'
          <5> DEFINE x == edited[s]
          <5>1. Good(x, s) /\ edited'[s] = x
            BY <1>9, <2>1, <3>2, <4>1 DEF CopyInv
          <5> HIDE DEF x
          <5> QED BY <1>7, <1>9, <1>11, <5>1, GoodCarries
        <4> QED BY <1>6, <1>9, <3>2, <4>1 DEF CopyInv
      <3> QED BY <3>1, <3>2
    <2> QED BY <2>2, <2>4, <2>5, <2>6 DEF RequestInv
  <1>16. r \in current => LosesNothing
    BY <1>2, <1>6 DEF LosesNothing
  <1>17. ASSUME answer'[r].status = "added" PROVE AtTheEnd(r)
    <2>1. answer'[r].row = w.row
      BY <1>5, <1>9, <1>10, <1>17 DEF NoAnswer
    <2> QED BY <1>3, <1>6, <2>1 DEF AtTheEnd
  <1>18. pc'[r] # pc[r]
    BY <1>9, <1>10
  <1> QED BY <1>9, <1>11, <1>13, <1>14, <1>15, <1>16, <1>17, <1>18 DEF ExcelInv

\* A copy that is out of date is dropped, and the request goes on.
LEMMA CopyDropped ==
  ASSUME ExcelInv, NEW r \in Requests, UploadRefused(r)
  PROVE  ExcelInv' /\ OwnStep(r) /\ grid' = grid /\ answer'[r].status # "added"
  <1>1. TypeOK /\ SheetInv /\ ControlInv(r) /\ CountInv(r) /\ CopyInv(r)
    BY DEF ExcelInv, RequestInv
  <1>2. /\ pc[r] = "put" /\ NextRound(r)
        /\ mode' = mode /\ place' = place /\ sent' = sent /\ moves' = moves
        /\ grid' = grid /\ table' = table /\ columns' = columns /\ current' = current
        /\ stale' = stale
    BY DEF UploadRefused, inputs, workbook
  <1>3. mode = "download" /\ answer[r] = NoAnswer /\ ~stale[r]
    BY <1>1, <1>2 DEF ControlInv
  <1>4. edited[r] \in Copies
    BY <1>1, <1>2 DEF CopyInv, Good, Shape
  <1>5. PICK to, n, a : RoundOver(r, to, n, a)
    BY <1>1, <1>2, <1>4, RoundEnds
  <1>6. pc[r] # "done"
    BY <1>2
  <1>7. /\ pc'[r] = to /\ tries'[r] = n /\ answer'[r] = a
        /\ \A s \in Requests : s # r =>
              /\ pc'[s] = pc[s] /\ ordered'[s] = ordered[s] /\ used'[s] = used[s]
              /\ address'[s] = address[s] /\ edited'[s] = edited[s]
              /\ tries'[s] = tries[s] /\ answer'[s] = answer[s]
        /\ pc' \in [Requests -> {"start", "add", "probe", "patch", "put", "chunk", "done"}]
        /\ ordered' \in [Requests -> Seq(BOOLEAN)]
        /\ used' \in [Requests -> [row: Nat, col: Nat, rows: Nat, cols: Nat]]
        /\ address' = address
        /\ edited' \in [Requests -> Copies \cup {NoCopy}]
        /\ tries' \in [Requests -> 0 .. MostTries]
        /\ answer' \in [Requests ->
              [status: {"none", "added", "bad_request", "conflict", "failed"}, row: 0 .. MaxRow]]
        /\ Progress /\ tries[r] \in Nat
    BY <1>1, <1>5, <1>6, RoundChanges
  <1>8. (to = "start" /\ n = tries[r] + 1 /\ a = answer[r]) \/ (to = "done" /\ n = tries[r])
    BY <1>5 DEF RoundOver
  <1>9. TypeOK'
    BY <1>1, <1>2, <1>7 DEF TypeOK
  <1>10. OwnStep(r)
    <2>1. tries'[r] \in {tries[r], tries[r] + 1} /\ current' \subseteq current \cup {r}
      BY <1>2, <1>7, <1>8
    <2> QED BY <1>2, <1>6, <1>7, <2>1, Zenon DEF OwnStep
  <1>11. answer'[r].status # "added"
    <2>1. CASE Finish(r, "conflict", 0)
      <3> DEFINE e == [status |-> "conflict", row |-> 0]
      <3>1. answer'[r] = e
        BY <1>1, <2>1, FinishChanges
      <3> QED BY <3>1
    <2>2. CASE ~Finish(r, "conflict", 0)
      <3>1. answer' = answer
        BY <1>2, <2>2 DEF NextRound
      <3> QED BY <1>3, <3>1 DEF NoAnswer
    <2> QED BY <2>1, <2>2
  <1>12. ControlInv(r)'
    BY <1>1, <1>2, <1>3, <1>7, <1>8 DEF ControlInv
  <1>13. OrderedInv(r)' /\ AddressInv(r)' /\ CopyInv(r)'
    BY <1>7, <1>8 DEF OrderedInv, AddressInv, CopyInv
  <1>14. CountInv(r)'
    <2> DEFINE m == Cardinality(Cells(grid, r))
               k == Given(r)
    <2>1. Given(r)' = k /\ Cells(grid, r)' = Cells(grid, r)
      BY <1>2 DEF Given, Cells
    <2>2. k \in Nat /\ m \in Nat
      BY <1>1, OrderedFits, SheetFinite
    <2>3. m <= k * tries[r]
      <3>1. m <= k * (tries[r] + 0)
        BY <1>1, <1>2 DEF CountInv
      <3> QED BY <1>7, <3>1
    <2> HIDE DEF m, k
    <2>4. m <= k * (tries[r] + 1)
      BY <1>7, <2>2, <2>3, CountGrows
    <2>5. tries[r] + 1 + 0 = tries[r] + 1
      BY <1>7
    <2>6. tries'[r] + (IF pc'[r] = "done" THEN 1 ELSE 0) = tries[r] + 1
      BY <1>7, <1>8, <2>5
    <2> QED BY <1>2, <1>3, <2>1, <2>4, <2>6 DEF CountInv, m
  <1>15. ExcelInv'
    BY <1>2, <1>9, <1>10, <1>12, <1>13, <1>14, QuietKeeps DEF RequestInv
  <1> QED BY <1>2, <1>10, <1>11, <1>15

\* A large copy is going to be saved.
LEMMA SessionOpened ==
  ASSUME ExcelInv, NEW r \in Requests, OpenSession(r)
  PROVE  ExcelInv' /\ OwnStep(r) /\ grid' = grid /\ answer'[r].status # "added"
  <1>1. TypeOK /\ SheetInv /\ ControlInv(r) /\ CountInv(r) /\ CopyInv(r)
    BY DEF ExcelInv, RequestInv
  <1>2. /\ pc[r] = "put" /\ pc' = [pc EXCEPT ![r] = "chunk"]
        /\ edited' = edited /\ current' = current
        /\ mode' = mode /\ place' = place /\ sent' = sent /\ columns' = columns /\ moves' = moves
        /\ grid' = grid /\ table' = table /\ ordered' = ordered /\ used' = used
        /\ address' = address /\ tries' = tries /\ answer' = answer /\ stale' = stale
    BY DEF OpenSession, Goto, inputs, workbook, looked, copies
  <1>3. TypeOK'
    BY <1>1, <1>2 DEF TypeOK
  <1>4. pc'[r] = "chunk" /\ \A s \in Requests : s # r => pc'[s] = pc[s]
    BY <1>1, <1>2 DEF TypeOK
  <1>5. OwnStep(r)
    BY <1>2, <1>4 DEF OwnStep
  <1>6. answer[r] = NoAnswer
    BY <1>1, <1>2 DEF ControlInv
  <1>7. ControlInv(r)'
    BY <1>1, <1>2, <1>4, <1>6 DEF ControlInv
  <1>8. OrderedInv(r)' /\ AddressInv(r)'
    BY <1>4 DEF OrderedInv, AddressInv
  <1>9. CountInv(r)'
    <2>1. Given(r)' = Given(r) /\ Cells(grid, r)' = Cells(grid, r)
      BY <1>2 DEF Given, Cells
    <2> QED BY <1>1, <1>2, <1>4, <2>1 DEF CountInv
  <1>10. CopyInv(r)'
    <2> DEFINE w == edited[r]
    <2>1. Good(w, r) /\ (r \in current => NoneLost(grid, w.grid)) /\ edited'[r] = w
      BY <1>1, <1>2 DEF CopyInv
    <2>2. Progress
      BY <1>1, <1>5, OwnProgress
    <2> HIDE DEF w
    <2>3. Good(edited[r], r)'
      BY <1>2, <1>3, <2>1, <2>2, GoodCarries
    <2>4. NoneLost(grid, edited[r].grid)' <=> NoneLost(grid, w.grid)
      BY <1>2, <2>1 DEF NoneLost, Cells
    <2> QED BY <1>2, <2>1, <2>3, <2>4 DEF CopyInv
  <1>11. ExcelInv'
    BY <1>2, <1>3, <1>5, <1>7, <1>8, <1>9, <1>10, QuietKeeps DEF RequestInv
  <1>12. answer'[r].status # "added"
    BY <1>2, <1>6 DEF NoAnswer
  <1> QED BY <1>2, <1>5, <1>11, <1>12

LEMMA ColumnsRead ==
  ASSUME ExcelInv, NEW r \in Requests, GetColumns(r)
  PROVE  ExcelInv' /\ OwnStep(r) /\ grid' = grid /\ answer'[r].status # "added"
  <1>1. TypeOK /\ SheetInv /\ ControlInv(r) /\ CountInv(r)
    BY DEF ExcelInv, RequestInv
  <1>2. UNCHANGED <<inputs, moves>> /\ pc[r] = "start" /\ mode = "graph"
        /\ place[r] = "table"
    BY DEF GetColumns
  <1>3. CASE Refuse(r, "bad_request")
    BY <1>2, <1>3, RefusedKeeps
  <1>4. CASE ~Refuse(r, "bad_request")
    <2>1. /\ Matches(r) /\ pc' = [pc EXCEPT ![r] = "add"]
          /\ ordered' = [ordered EXCEPT ![r] = Ordered(r)]
          /\ grid' = grid /\ table' = table /\ used' = used /\ address' = address
          /\ tries' = tries /\ answer' = answer /\ stale' = stale
          /\ columns' = columns /\ edited' = edited /\ current' = current
      BY <1>4 DEF GetColumns, Goto, workbook, copies
    <2>2. mode' = mode /\ place' = place /\ sent' = sent /\ columns' = columns /\ moves' = moves
      BY <1>2, <2>1 DEF inputs
    <2>3. Ordered(r) \in Seq(BOOLEAN) /\ Cardinality(Marks(Ordered(r))) <= Given(r)
      BY <1>1, OrderedFits
    <2>4. TypeOK'
      BY <1>1, <2>1, <2>2, <2>3 DEF TypeOK
    <2>5. pc'[r] = "add" /\ ordered'[r] = Ordered(r)
          /\ \A s \in Requests : s # r => pc'[s] = pc[s] /\ ordered'[s] = ordered[s]
      BY <1>1, <2>1 DEF TypeOK
    <2>6. OwnStep(r)
      BY <1>2, <2>1, <2>2, <2>5 DEF OwnStep
    <2>7. answer[r] = NoAnswer /\ ~stale[r]
      BY <1>1, <1>2 DEF ControlInv
    <2>8. ControlInv(r)'
      BY <1>1, <1>2, <2>1, <2>2, <2>5, <2>7 DEF ControlInv
    <2>9. OrderedInv(r)'
      <3>1. Ordered(r)' = Ordered(r) /\ Given(r)' = Given(r)
        BY <2>2 DEF Ordered, Given
      <3>2. Len(Ordered(r)) = Len(columns)
        BY <2>1 DEF Matches
      <3> QED BY <2>2, <2>3, <2>5, <3>1, <3>2 DEF OrderedInv
    <2>10. AddressInv(r)' /\ CopyInv(r)'
      BY <2>5 DEF AddressInv, CopyInv
    <2>11. CountInv(r)'
      <3>1. Given(r)' = Given(r) /\ Cells(grid, r)' = Cells(grid, r)
        BY <2>1, <2>2 DEF Given, Cells
      <3> QED BY <1>1, <1>2, <2>1, <2>2, <2>5, <3>1 DEF CountInv
    <2>12. ExcelInv'
      BY <2>1, <2>4, <2>6, <2>8, <2>9, <2>10, <2>11, QuietKeeps DEF RequestInv
    <2>13. answer'[r].status # "added"
      BY <2>1, <2>7 DEF NoAnswer
    <2> QED BY <2>1, <2>6, <2>12, <2>13
  <1> QED BY <1>3, <1>4

\* The address of the row: below the range that was read, and as wide as the row.
LEMMA AddressChosen ==
  ASSUME ExcelInv, NEW r \in Requests, pc[r] \in {"start", "probe"}, mode = "graph",
         place[r] = "sheet", NEW range \in [row: Nat, col: Nat, rows: Nat, cols: Nat],
         range.row + range.rows \in table.top + 1 .. Floor + 1, range.col \in 1 .. LastCol,
         ~stale[r] => /\ range.row + range.rows = LastUsedRow(grid) + 1
                      /\ range.col = FirstUsedCol(grid),
         Choose(r, range, FALSE), ordered' = ordered,
         used' \in [Requests -> [row: Nat, col: Nat, rows: Nat, cols: Nat]],
         \A s \in Requests : s # r => used'[s] = used[s],
         UNCHANGED <<inputs, workbook, copies, tries, answer, stale, moves>>
  PROVE  ExcelInv' /\ OwnStep(r) /\ grid' = grid /\ answer'[r].status # "added"
  <1> DEFINE row == range.row + range.rows
             from == column_letter(range.col - 1)
             to == column_letter(range.col - 1 + Len(sent[r].cells) - 1)
             cells == sent[r].cells
             a == [row |-> row, from |-> from, to |-> to]
  <1>1. TypeOK /\ SheetInv /\ ControlInv(r) /\ CountInv(r)
    BY DEF ExcelInv, RequestInv
  <1>2. /\ mode' = mode /\ place' = place /\ sent' = sent /\ columns' = columns /\ moves' = moves
        /\ grid' = grid /\ table' = table /\ tries' = tries /\ answer' = answer
        /\ stale' = stale /\ edited' = edited /\ current' = current
    BY DEF inputs, workbook, copies
  <1>3. /\ pc' = [pc EXCEPT ![r] = "patch"]
        /\ address' = [address EXCEPT ![r] = a]
    BY DEF Choose, Goto
  <1>4. /\ range.col \in Nat /\ range.col - 1 \in Int /\ range.col - 1 + 1 = range.col
        /\ cells \in Seq(BOOLEAN) /\ Len(cells) \in Nat
        /\ range.col - 1 + Len(cells) - 1 \in Int
        /\ range.col - 1 + Len(cells) - 1 + 1 = range.col + Len(cells) - 1
        /\ range.col + Len(cells) - 1 \in Nat
    <2>1. LastCol \in Nat /\ cells \in Seq(BOOLEAN)
      BY <1>1, OrderedFits, SheetAssumption
    <2> DEFINE c == range.col
               n == Len(cells)
    <2>2. c \in Nat /\ c >= 1 /\ n \in Nat
      BY <2>1
    <2> HIDE DEF cells, c, n
    <2>3. c - 1 \in Int /\ c - 1 + 1 = c /\ c - 1 + n - 1 \in Int
          /\ c - 1 + n - 1 + 1 = c + n - 1 /\ c + n - 1 \in Nat
      BY <2>2
    <2> QED BY <2>1, <2>2, <2>3 DEF c, n
  <1>5. from \in Seq(0 .. LETTERS - 1) /\ ColumnOf(from) = range.col
    <2> DEFINE n == range.col - 1
    <2>1. n \in Int /\ n + 1 \in Nat /\ n + 1 = range.col
      BY <1>4
    <2> HIDE DEF n
    <2>2. column_letter(n) \in Seq(0 .. LETTERS - 1) /\ ColumnOf(column_letter(n)) = n + 1
      BY <2>1, LettersNameColumns
    <2> QED BY <2>1, <2>2 DEF n
  <1>6. to \in Seq(0 .. LETTERS - 1) /\ ColumnOf(to) = range.col + Len(cells) - 1
    <2> DEFINE n == range.col - 1 + Len(cells) - 1
    <2>1. n \in Int /\ n + 1 \in Nat /\ n + 1 = range.col + Len(cells) - 1
      BY <1>4
    <2> HIDE DEF n
    <2>2. column_letter(n) \in Seq(0 .. LETTERS - 1) /\ ColumnOf(column_letter(n)) = n + 1
      BY <2>1, LettersNameColumns
    <2> QED BY <2>1, <2>2 DEF n
  <1>7. Floor \in Nat /\ Floor + 1 <= MaxRow /\ MaxRow \in Nat /\ table.top \in Nat
    <2>1. table.top \in Nat
      BY <1>1, TableShape DEF TypeOK
    <2> QED BY <1>1, <2>1, Room
  <1>8. row \in 0 .. MaxRow
    BY <1>7
  <1> HIDE DEF from, to, row
  <1>9. a \in [row: 0 .. MaxRow, from: Seq(0 .. LETTERS - 1), to: Seq(0 .. LETTERS - 1)]
        /\ a.row = row /\ a.from = from /\ a.to = to
    BY <1>5, <1>6, <1>8
  <1> HIDE DEF a
  <1>10. TypeOK'
    BY <1>1, <1>2, <1>3, <1>9 DEF TypeOK
  <1>11. pc'[r] = "patch" /\ address'[r] = a
         /\ \A s \in Requests : s # r => pc'[s] = pc[s] /\ address'[s] = address[s]
    BY <1>1, <1>3 DEF TypeOK
  <1>12. OwnStep(r)
    BY <1>2, <1>11 DEF OwnStep
  <1>13. answer[r] = NoAnswer
    BY <1>1 DEF ControlInv
  <1>14. ControlInv(r)'
    BY <1>1, <1>2, <1>11, <1>13 DEF ControlInv
  <1>15. OrderedInv(r)' /\ CopyInv(r)'
    BY <1>11 DEF OrderedInv, CopyInv
  <1>16. AddressInv(r)'
    <2>1. /\ ColumnOf(address'[r].from) \in 1 .. LastCol
          /\ ColumnOf(address'[r].to) = ColumnOf(address'[r].from) + Len(cells) - 1
      BY <1>5, <1>6, <1>9, <1>11
    <2>2. Floor' = Floor
      <3>1. Over(tries', pc') = Over(tries, pc)
        <4>1. tries' = tries /\ \A s \in Requests : pc'[s] = "done" <=> pc[s] = "done"
          BY <1>2, <1>11
        <4> QED BY <4>1 DEF Over, Attempts
      <3> QED BY <3>1 DEF Floor, Taken
    <2>3. address'[r].row \in table'.top + 1 .. Floor' + 1
      BY <1>2, <1>9, <1>11, <2>2 DEF row
    <2>4. ASSUME ~stale[r]
          PROVE  /\ ColumnOf(a.from) = LeftEdge(grid, a.row)
                 /\ \A n \in Rows, c \in Cols : grid[n][c] # Blank =>
                       /\ ColumnOf(a.from) <= c /\ n <= a.row
                       /\ n = a.row <=> grid[n][c] = r
                       /\ n = a.row => c - ColumnOf(a.from) + 1 \in Marks(cells)
      <3>1. row = LastUsedRow(grid) + 1 /\ ColumnOf(a.from) = FirstUsedCol(grid)
        BY <1>5, <1>9, <2>4 DEF row
      <3>2. ASSUME NEW n \in Rows, NEW c \in Cols, grid[n][c] # Blank
            PROVE  FirstUsedCol(grid) <= c /\ n <= row /\ n # row /\ n < row /\ grid[n][c] # r
        <4>1. n <= LastUsedRow(grid) /\ FirstUsedCol(grid) <= c /\ LastUsedRow(grid) \in Nat
              /\ n \in Nat
          BY <1>1, <3>2, UsedPart DEF Rows
        <4>2. grid[n][c] # r
          <5>1. Cells(grid, r) = {}
            BY NothingYet
          <5>2. <<n, c>> \in Rows \X Cols
            OBVIOUS
          <5> QED BY <5>1, <5>2 DEF Cells
        <4> QED BY <3>1, <4>1, <4>2
      <3>3. LeftEdge(grid, row) = FirstUsedCol(grid)
        <4>1. row \in Nat
          BY <1>7, <1>8
        <4> QED BY <3>2, <4>1, LeftEdgeIsFirst
      <3> QED BY <1>9, <3>1, <3>2, <3>3
    <2>5. ~stale'[r] => Below(r)'
      BY <1>2, <1>11, <2>4 DEF Below
    <2> QED BY <1>2, <1>11, <2>1, <2>3, <2>5 DEF AddressInv
  <1>17. CountInv(r)'
    <2>1. Given(r)' = Given(r) /\ Cells(grid, r)' = Cells(grid, r)
      BY <1>2 DEF Given, Cells
    <2> QED BY <1>1, <1>2, <1>11, <2>1 DEF CountInv
  <1>18. ExcelInv'
    BY <1>2, <1>10, <1>12, <1>14, <1>15, <1>16, <1>17, QuietKeeps DEF RequestInv
  <1>19. answer'[r].status # "added"
    BY <1>2, <1>13 DEF NoAnswer
  <1> QED BY <1>2, <1>12, <1>18, <1>19

LEMMA RangeAsked ==
  ASSUME ExcelInv, NEW r \in Requests, GetUsedRange(r)
  PROVE  ExcelInv' /\ OwnStep(r) /\ grid' = grid /\ answer'[r].status # "added"
  <1>1. TypeOK /\ SheetInv /\ ControlInv(r) /\ CountInv(r)
    BY DEF ExcelInv, RequestInv
  <1>2. UNCHANGED <<inputs, moves>> /\ pc[r] = "start" /\ mode = "graph"
        /\ place[r] = "sheet"
    BY DEF GetUsedRange
  <1>3. CASE Refuse(r, "bad_request")
    BY <1>2, <1>3, RefusedKeeps
  <1>4. /\ UsedRange \in [row: Nat, col: Nat, rows: Nat, cols: Nat]
        /\ UsedRange.row + UsedRange.rows = LastUsedRow(grid) + 1
        /\ UsedRange.col = FirstUsedCol(grid)
        /\ FirstUsedCol(grid) \in 1 .. LastCol
        /\ LastUsedRow(grid) + 1 \in table.top + 1 .. Floor + 1
    <2>1. table.top \in Nat /\ Floor \in Nat
      BY <1>1, TableShape, Room DEF TypeOK
    <2>2. LastUsedRow(grid) \in Nat /\ table.top <= LastUsedRow(grid) /\ LastUsedRow(grid) <= Floor
          /\ FirstUsedCol(grid) \in 1 .. LastCol
      BY <1>1, UsedPart DEF Rows
    <2>3. LastUsedRow(grid) + 1 \in table.top + 1 .. Floor + 1
      BY <2>1, <2>2
    <2> QED BY <1>1, <2>2, <2>3, RangeRead
  <1>5. CASE ~Refuse(r, "bad_request")
    <2>1. /\ used' = [used EXCEPT ![r] = UsedRange]
          /\ grid' = grid /\ table' = table /\ ordered' = ordered
          /\ tries' = tries /\ answer' = answer /\ stale' = stale
          /\ columns' = columns /\ edited' = edited /\ current' = current
          /\ (Goto(r, "probe") /\ address' = address) \/ Choose(r, UsedRange, FALSE)
      BY <1>5 DEF GetUsedRange, workbook, copies
    <2>2. mode' = mode /\ place' = place /\ sent' = sent /\ columns' = columns /\ moves' = moves
      BY <1>2, <2>1 DEF inputs
    <2>3. /\ used' \in [Requests -> [row: Nat, col: Nat, rows: Nat, cols: Nat]]
          /\ used'[r] = UsedRange /\ \A s \in Requests : s # r => used'[s] = used[s]
      BY <1>1, <1>4, <2>1 DEF TypeOK
    <2>4. CASE Choose(r, UsedRange, FALSE)
      <3>1. UNCHANGED <<inputs, workbook, copies, tries, answer, stale, moves>>
        BY <1>2, <2>1 DEF workbook, copies
      <3> DEFINE range == UsedRange
      <3>2. /\ range \in [row: Nat, col: Nat, rows: Nat, cols: Nat]
            /\ range.row + range.rows \in table.top + 1 .. Floor + 1
            /\ range.col \in 1 .. LastCol
            /\ range.row + range.rows = LastUsedRow(grid) + 1
            /\ range.col = FirstUsedCol(grid) /\ Choose(r, range, FALSE)
        BY <1>4, <2>4
      <3> HIDE DEF range
      <3>3. pc[r] \in {"start", "probe"}
        BY <1>2
      <3> QED BY <1>2, <2>1, <2>3, <3>1, <3>2, <3>3, AddressChosen
    <2>5. CASE Goto(r, "probe") /\ address' = address
      <3>1. pc' = [pc EXCEPT ![r] = "probe"]
        BY <2>5 DEF Goto
      <3>2. TypeOK'
        BY <1>1, <2>1, <2>2, <2>3, <2>5, <3>1 DEF TypeOK
      <3>3. pc'[r] = "probe" /\ \A s \in Requests : s # r => pc'[s] = pc[s]
        BY <1>1, <3>1 DEF TypeOK
      <3>4. OwnStep(r)
        BY <1>2, <2>1, <2>2, <2>3, <2>5, <3>3 DEF OwnStep
      <3>5. answer[r] = NoAnswer /\ ~stale[r]
        BY <1>1, <1>2 DEF ControlInv
      <3>6. ControlInv(r)'
        BY <1>1, <1>2, <2>1, <2>2, <3>3, <3>5 DEF ControlInv
      <3>7. OrderedInv(r)' /\ CopyInv(r)'
        BY <3>3 DEF OrderedInv, CopyInv
      <3>8. AddressInv(r)'
        <4>1. Floor' = Floor
          <5>1. Over(tries', pc') = Over(tries, pc)
            <6>1. tries' = tries /\ \A s \in Requests : pc'[s] = "done" <=> pc[s] = "done"
              BY <1>2, <2>1, <3>3
            <6> QED BY <6>1 DEF Over, Attempts
          <5> QED BY <5>1 DEF Floor, Taken
        <4>2. UsedRange' = UsedRange
          BY <2>1 DEF UsedRange, UsedRows, UsedCols, LastUsedRow, LastUsedCol, FirstUsedCol,
                      IsBlankRow
        <4>3. used'[r].col \in 1 .. LastCol
              /\ used'[r].row + used'[r].rows \in table'.top + 1 .. Floor' + 1
          BY <1>4, <2>1, <2>3, <4>1
        <4> QED BY <2>3, <3>3, <4>2, <4>3 DEF AddressInv
      <3>9. CountInv(r)'
        <4>1. Given(r)' = Given(r) /\ Cells(grid, r)' = Cells(grid, r)
          BY <2>1, <2>2 DEF Given, Cells
        <4> QED BY <1>1, <1>2, <2>1, <2>2, <3>3, <4>1 DEF CountInv
      <3>10. ExcelInv'
        BY <2>1, <3>2, <3>4, <3>6, <3>7, <3>8, <3>9, QuietKeeps DEF RequestInv
      <3>11. answer'[r].status # "added"
        BY <2>1, <3>5 DEF NoAnswer
      <3> QED BY <2>1, <3>4, <3>10, <3>11
    <2> QED BY <2>1, <2>4, <2>5
  <1> QED BY <1>3, <1>5

LEMMA SheetProbed ==
  ASSUME ExcelInv, NEW r \in Requests, ProbeSheet(r)
  PROVE  ExcelInv' /\ OwnStep(r) /\ grid' = grid /\ answer'[r].status # "added"
  <1>1. TypeOK /\ SheetInv /\ ControlInv(r) /\ AddressInv(r)
    BY DEF ExcelInv, RequestInv
  <1>2. /\ pc[r] = "probe" /\ Choose(r, used[r], UsedRows(grid) = {})
        /\ UNCHANGED <<inputs, workbook, ordered, used, copies, tries, answer, stale, moves>>
    BY DEF ProbeSheet
  <1>3. mode = "graph" /\ place[r] = "sheet" /\ pc[r] \in {"start", "probe"}
    BY <1>1, <1>2 DEF ControlInv
  <1> DEFINE range == used[r]
  <1>4. Choose(r, range, FALSE)
    <2>1. (UsedRows(grid) = {}) = FALSE
      BY <1>1, UsedPart
    <2> QED BY <1>2, <2>1
  <1>5. /\ range \in [row: Nat, col: Nat, rows: Nat, cols: Nat]
        /\ range.row + range.rows \in table.top + 1 .. Floor + 1
        /\ range.col \in 1 .. LastCol
        /\ ~stale[r] => range = UsedRange
    BY <1>1, <1>2 DEF AddressInv, TypeOK
  <1>6. ~stale[r] => /\ range.row + range.rows = LastUsedRow(grid) + 1
                     /\ range.col = FirstUsedCol(grid)
    BY <1>1, <1>5, RangeRead
  <1>7. /\ ordered' = ordered
        /\ used' \in [Requests -> [row: Nat, col: Nat, rows: Nat, cols: Nat]]
        /\ \A s \in Requests : s # r => used'[s] = used[s]
        /\ UNCHANGED <<inputs, workbook, copies, tries, answer, stale, moves>>
    BY <1>1, <1>2 DEF TypeOK
  <1> HIDE DEF range
  <1> QED BY <1>3, <1>4, <1>5, <1>6, <1>7, AddressChosen

LEMMA Retried ==
  ASSUME ExcelInv, NEW r \in Requests, Throttled(r)
  PROVE  ExcelInv' /\ OwnStep(r) /\ grid' = grid /\ answer'[r].status # "added"
  <1>1. TypeOK /\ SheetInv /\ ControlInv(r) /\ OrderedInv(r) /\ AddressInv(r) /\ CountInv(r)
    BY DEF ExcelInv, RequestInv
  <1>2. /\ pc[r] \in {"add", "patch"} /\ tries[r] < MAX_RETRIES
        /\ tries' = [tries EXCEPT ![r] = @ + 1]
        /\ mode' = mode /\ place' = place /\ sent' = sent /\ columns' = columns /\ moves' = moves
        /\ grid' = grid /\ table' = table /\ pc' = pc /\ answer' = answer /\ stale' = stale
        /\ ordered' = ordered /\ used' = used /\ address' = address
        /\ edited' = edited /\ current' = current
    BY DEF Throttled, inputs, workbook, looked, copies
  <1>3. tries[r] \in Nat /\ tries[r] + 1 \in 0 .. MostTries
    <2>1. tries[r] \in 0 .. MostTries
      BY <1>1 DEF TypeOK
    <2> QED BY <1>2, <2>1, TriesBound
  <1>4. TypeOK'
    BY <1>1, <1>2, <1>3 DEF TypeOK
  <1>5. tries'[r] = tries[r] + 1 /\ \A s \in Requests : s # r => tries'[s] = tries[s]
    BY <1>1, <1>2 DEF TypeOK
  <1>6. OwnStep(r)
    BY <1>2, <1>5 DEF OwnStep
  <1>7. answer[r] = NoAnswer /\ mode = "graph"
    BY <1>1, <1>2 DEF ControlInv
  <1>8. ControlInv(r)'
    BY <1>1, <1>2, <1>7 DEF ControlInv
  <1>9. OrderedInv(r)'
    <2>1. Given(r)' = Given(r) /\ Ordered(r)' = Ordered(r)
      BY <1>2 DEF Given, Ordered
    <2> QED BY <1>1, <1>2, <2>1 DEF OrderedInv
  <1>10. AddressInv(r)'
    <2>1. CASE pc[r] = "patch"
      <3>1. /\ ColumnOf(address[r].from) \in 1 .. LastCol
            /\ ColumnOf(address[r].to) = ColumnOf(address[r].from) + Len(sent[r].cells) - 1
            /\ address[r].row \in table.top + 1 .. Floor + 1
            /\ ~stale[r] => Below(r)
        BY <1>1, <2>1 DEF AddressInv
      <3>2. Floor \in Nat /\ Floor' \in Nat /\ Floor <= Floor' /\ table.top \in Nat
        BY <1>1, <1>4, <1>6, FloorGrows, TableShape DEF TypeOK
      <3>3. ASSUME NEW t \in Nat, NEW f \in Nat, NEW g \in Nat, f <= g, NEW n \in t + 1 .. f + 1
            PROVE  n \in t + 1 .. g + 1
        BY <3>3
      <3>4. address'[r].row \in table'.top + 1 .. Floor' + 1
        BY <1>2, <3>1, <3>2, <3>3
      <3>5. Below(r)' <=> Below(r)
        BY <1>2 DEF Below
      <3> QED BY <1>2, <2>1, <3>1, <3>4, <3>5 DEF AddressInv
    <2>2. CASE pc[r] = "add"
      BY <1>2, <2>2 DEF AddressInv
    <2> QED BY <1>2, <2>1, <2>2
  <1>14. CopyInv(r)'
    BY <1>2 DEF CopyInv
  <1>11. CountInv(r)'
    <2> DEFINE n == Cardinality(Cells(grid, r))
               k == Given(r)
    <2>1. Given(r)' = k /\ Cells(grid, r)' = Cells(grid, r)
      BY <1>2 DEF Given, Cells
    <2>2. k \in Nat /\ n \in Nat
      BY <1>1, OrderedFits, SheetFinite
    <2>3. n <= k * tries[r]
      <3>1. n <= k * (tries[r] + 0)
        BY <1>1, <1>2 DEF CountInv
      <3> QED BY <1>3, <3>1
    <2> HIDE DEF n, k
    <2>4. n <= k * (tries[r] + 1)
      BY <1>3, <2>2, <2>3, CountGrows
    <2>5. n <= k * (tries[r] + 1 + 0)
      BY <1>3, <2>4
    <2> QED BY <1>2, <1>5, <2>1, <2>5 DEF CountInv, n
  <1>12. ExcelInv'
    BY <1>2, <1>4, <1>6, <1>8, <1>9, <1>10, <1>11, <1>14, QuietKeeps DEF RequestInv
  <1>13. answer'[r].status # "added"
    BY <1>2, <1>7 DEF NoAnswer
  <1> QED BY <1>2, <1>6, <1>12, <1>13

LEMMA InsertedShifts ==
  ASSUME ExcelInv, NEW r \in Requests, pc[r] = "add"
  PROVE  /\ Inserted(r) \in Grids /\ Shifted(Inserted(r), grid, table, ordered[r], r)
         /\ ordered[r] \in Seq(BOOLEAN) /\ Len(ordered[r]) = table.right - table.left + 1
         /\ table.bottom + 1 \in Rows /\ table.bottom + 1 <= Floor + 1
  <1> DEFINE below == table.bottom + 1
             left == table.left
             cells == ordered[r]
             pushed == [s \in Rows |-> [c \in Cols |->
                          IF c \in Columns(table) /\ s > below THEN grid[s - 1][c] ELSE grid[s][c]]]
             h == WithRow(pushed, below, left, cells, r)
  <1>1. TypeOK /\ SheetInv /\ OrderedInv(r)
    BY DEF ExcelInv, RequestInv
  <1>2. /\ table \in Refs /\ left \in Nat /\ table.right \in Nat /\ table.bottom \in Nat
        /\ table.bottom >= 1 /\ MaxRow \in Nat /\ Columns(table) = left .. table.right
    <2>1. table \in Refs /\ MaxRow \in Nat
      BY <1>1, SheetAssumption DEF TypeOK
    <2>2. table.bottom \in Rows
      BY <2>1, TableShape
    <2> QED BY <2>1, <2>2, TableShape DEF Rows, Columns
  <1>3. Inserted(r) = h
    BY DEF Inserted
  <1>4. cells \in Seq(BOOLEAN) /\ Len(cells) = table.right - left + 1
    BY <1>1 DEF TypeOK, OrderedInv
  <1>5. Floor \in Nat /\ Floor + 1 <= MaxRow /\ table.bottom <= Floor
    BY <1>1, Room DEF SheetInv
  <1>6. below \in Rows /\ below <= Floor + 1 /\ below \in Nat
    BY <1>2, <1>5 DEF Rows
  <1>7. pushed \in Grids
    <2>1. ASSUME NEW s \in Rows, NEW c \in Cols
          PROVE  (IF c \in Columns(table) /\ s > below THEN grid[s - 1][c] ELSE grid[s][c]) \in Values
      <3>1. grid \in [Rows -> [Cols -> Values]]
        BY <1>1 DEF TypeOK, Grids
      <3>2. s > below => s - 1 \in Rows
        BY <1>2, <1>6 DEF Rows
      <3> QED BY <3>1, <3>2
    <2> QED BY <2>1 DEF Grids
  <1>8. \A s \in Rows, c \in Cols :
           pushed[s][c] = IF c \in Columns(table) /\ s > below THEN grid[s - 1][c] ELSE grid[s][c]
    OBVIOUS
  <1> HIDE DEF below, left, cells, pushed
  <1>9. h \in Grids /\ Wrote(h, pushed, below, left, cells, r)
    BY <1>2, <1>4, <1>6, <1>7, RowWritten
  <1> HIDE DEF h
  <1>10. ASSUME NEW s \in Rows, NEW c \in Cols
         PROVE  h[s][c] = IF c \notin Columns(table) \/ s <= table.bottom THEN grid[s][c]
                          ELSE IF s = below
                          THEN IF cells[c - left + 1] THEN r ELSE Blank
                          ELSE grid[s - 1][c]
    <2>1. s \in Nat /\ c \in Nat
      BY DEF Rows, Cols
    <2>2. h[s][c] = IF s = below /\ c \in left .. left + Len(cells) - 1
                    THEN IF cells[c - left + 1] THEN r ELSE Blank
                    ELSE pushed[s][c]
      BY <1>9 DEF Wrote
    <2>3. c \in left .. left + Len(cells) - 1 <=> c \in Columns(table)
      BY <1>2, <1>4
    <2>4. below = table.bottom + 1
      BY DEF below
    <2>5. CASE c \notin Columns(table)
      BY <1>8, <2>2, <2>3, <2>5
    <2>6. CASE c \in Columns(table) /\ s <= table.bottom
      <3>1. s # below /\ ~(s > below)
        BY <1>2, <2>1, <2>4, <2>6
      <3> QED BY <1>8, <2>2, <2>6, <3>1
    <2>7. CASE c \in Columns(table) /\ s = below
      <3>1. ~(s <= table.bottom)
        BY <1>2, <2>1, <2>4, <2>7
      <3> QED BY <2>2, <2>3, <2>7, <3>1
    <2>8. CASE c \in Columns(table) /\ s > below
      <3>1. ~(s <= table.bottom) /\ s # below
        BY <1>2, <2>1, <2>4, <2>8
      <3> QED BY <1>8, <2>2, <2>8, <3>1
    <2>9. s <= table.bottom \/ s = below \/ s > below
      BY <1>2, <2>1, <2>4
    <2> QED BY <2>5, <2>6, <2>7, <2>8, <2>9
  <1>11. Shifted(h, grid, table, cells, r)
    BY <1>10 DEF Shifted, below, left
  <1> QED BY <1>3, <1>4, <1>6, <1>9, <1>11 DEF below, left, cells

LEMMA RowInserted ==
  ASSUME ExcelInv, NEW r \in Requests, AddRow(r)
  PROVE  /\ ExcelInv' /\ OwnStep(r) /\ LosesNothing
         /\ answer'[r].status = "added" /\ ~stale[r] => AtTheEnd(r)
  <1> DEFINE h == Inserted(r)
             cells == ordered[r]
             below == table.bottom + 1
             told == table.bottom + 1 - table.top
  <1>1. TypeOK /\ SheetInv /\ TableRowsStayInTable /\ ControlInv(r) /\ OrderedInv(r)
        /\ CountInv(r)
    BY DEF ExcelInv, RequestInv
  <1>2. /\ pc[r] = "add" /\ Save(r, h) /\ table' = [table EXCEPT !.bottom = @ + 1]
        /\ Answered(r, told)
        /\ mode' = mode /\ place' = place /\ sent' = sent /\ moves' = moves
    <2>1. /\ pc[r] = "add" /\ Save(r, Inserted(r)) /\ table' = [table EXCEPT !.bottom = @ + 1]
          /\ Answered(r, table.bottom + 1 - table.top) /\ UNCHANGED <<inputs, moves>>
      BY Zenon DEF AddRow
    <2>2. mode' = mode /\ place' = place /\ sent' = sent /\ moves' = moves
      BY <2>1 DEF inputs
    <2> QED BY <2>1, <2>2
  <1>3. /\ table.left \in Nat /\ table.right \in Nat /\ table.top \in Nat /\ table.bottom \in Nat
        /\ table.left >= 1 /\ table.top >= 1 /\ table.left <= table.right
        /\ table.top <= table.bottom /\ table.right <= MaxCol /\ MaxCol \in Nat
        /\ table.top \in Rows /\ MaxRow \in Nat
        /\ table \in Refs /\ Columns(table) \subseteq Cols
    <2>1. table \in Refs
      BY <1>1 DEF TypeOK
    <2>2. MaxRow \in Nat /\ MaxCol \in Nat
      BY SheetAssumption
    <2>3. table.right \in Cols
      BY <2>1, TableShape
    <2>4. table.right <= MaxCol
      BY <2>2, <2>3 DEF Cols
    <2> QED BY <2>1, <2>2, <2>4, TableShape
  <1>4. /\ h \in Grids /\ Shifted(h, grid, table, cells, r)
        /\ cells \in Seq(BOOLEAN) /\ Len(cells) = table.right - table.left + 1
        /\ below \in Rows /\ below <= Floor + 1
    BY <1>2, InsertedShifts
  <1>5. Floor \in Nat /\ Floor + 1 <= MaxRow /\ table.bottom <= Floor
    BY <1>1, <1>2, Room DEF SheetInv
  <1>6. below = table.bottom + 1 /\ below \in Nat /\ table.top + told = below
        /\ told \in 0 .. MaxRow
    <2> DEFINE top == table.top
               bottom == table.bottom
    <2>1. top \in Nat /\ bottom \in Nat /\ top <= bottom /\ MaxRow \in Nat
          /\ bottom + 1 <= MaxRow
      BY <1>3, <1>4 DEF Rows
    <2> HIDE DEF top, bottom
    <2>2. bottom + 1 \in Nat /\ top + (bottom + 1 - top) = bottom + 1
          /\ bottom + 1 - top \in 0 .. MaxRow
      BY <2>1
    <2> QED BY <2>2 DEF top, bottom
  <1> HIDE DEF h, cells, told
  <1>7. /\ grid' = h /\ stale' \in [Requests -> BOOLEAN]
        /\ columns' = columns /\ current' = current
        /\ \A s \in Requests : s # r /\ pc[s] \in {"probe", "patch"} /\ grid' # grid => stale'[s]
        /\ \A s \in Requests : stale[s] => stale'[s]
        /\ \A s \in Requests : stale'[s] =>
              stale[s] \/ (s # r /\ pc[s] \in {"probe", "patch"} /\ grid' # grid)
    BY <1>1, <1>2, SaveChanges, Zenon
  <1>8. pc[r] # "done"
    BY <1>2
  <1>9. /\ ordered' = ordered /\ address' = address
        /\ \/ pc'[r] = "done" /\ tries'[r] = tries[r]
              /\ answer'[r] \in {[status |-> "added", row |-> told],
                                [status |-> "failed", row |-> 0]}
           \/ pc' = pc /\ used' = used /\ answer' = answer /\ tries'[r] = tries[r] + 1
        /\ edited' \in [Requests -> Copies \cup {NoCopy}]
        /\ \A s \in Requests : s # r => /\ pc'[s] = pc[s] /\ used'[s] = used[s]
                                       /\ edited'[s] = edited[s]
                                       /\ tries'[s] = tries[s] /\ answer'[s] = answer[s]
        /\ pc' \in [Requests -> {"start", "add", "probe", "patch", "put", "chunk", "done"}]
        /\ used' \in [Requests -> [row: Nat, col: Nat, rows: Nat, cols: Nat]]
        /\ tries' \in [Requests -> 0 .. MostTries]
        /\ answer' \in [Requests ->
              [status: {"none", "added", "bad_request", "conflict", "failed"}, row: 0 .. MaxRow]]
    BY <1>1, <1>2, <1>6, <1>8, AnsweredChanges, Zenon
  <1>10. /\ table' \in Refs /\ table'.left = table.left /\ table'.right = table.right
         /\ table'.top = table.top /\ table'.bottom = below
    <2>1. table \in [left: Cols, top: Rows, right: Cols, bottom: Rows]
      BY <1>3 DEF Refs
    <2>2. /\ table' \in [left: Cols, top: Rows, right: Cols, bottom: Rows]
          /\ table'.left = table.left /\ table'.right = table.right
          /\ table'.top = table.top /\ table'.bottom = below
      BY <1>2, <1>4, <2>1
    <2>3. table.top <= below
      BY <1>3, <1>6
    <2> QED BY <1>3, <2>2, <2>3 DEF Refs
  <1>11. TypeOK'
    <2>1. Len(columns') = table'.right - table'.left + 1
      BY <1>1, <1>7, <1>10 DEF TypeOK
    <2> QED BY <1>1, <1>2, <1>4, <1>7, <1>9, <1>10, <2>1 DEF TypeOK
  <1>12. OwnStep(r)
    <2>1. \E b : table' = [table EXCEPT !.bottom = b]
      BY <1>2, Zenon
    <2>2. tries'[r] \in {tries[r], tries[r] + 1} /\ current' \subseteq current \cup {r}
          /\ mode = "graph"
      BY <1>1, <1>2, <1>7, <1>9 DEF ControlInv
    <2>3. \A s \in Requests : s # r =>
             /\ pc'[s] = pc[s] /\ ordered'[s] = ordered[s] /\ used'[s] = used[s]
             /\ address'[s] = address[s] /\ edited'[s] = edited[s]
             /\ tries'[s] = tries[s] /\ answer'[s] = answer[s]
      BY <1>9
    <2> QED BY <1>2, <1>7, <1>8, <2>1, <2>2, <2>3, Zenon DEF OwnStep
  <1>13. Floor' \in Nat /\ Floor + 1 <= Floor'
    <2>1. tries[r] \in Nat
      BY <1>1 DEF TypeOK
    <2>2. tries'[r] # tries[r] \/ pc'[r] = "done"
      BY <1>9, <2>1
    <2> QED BY <1>1, <1>11, <1>12, <2>2, FloorGrows
  <1>14. \A c \in Columns(table) : h[table.top][c] # Blank
    BY <1>1, <1>3, <1>4 DEF Shifted, SheetInv
  <1>15. table'.bottom <= Floor'
    BY <1>3, <1>4, <1>5, <1>6, <1>10, <1>13
  <1>16. ASSUME NEW s \in Rows, NEW c \in Cols, h[s][c] # Blank PROVE s <= Floor'
    <2>1. s \in Nat /\ s >= 1
      BY DEF Rows
    <2>2. CASE c \notin Columns(table) \/ s <= table.bottom
      <3>1. grid[s][c] # Blank
        BY <1>4, <1>16, <2>2 DEF Shifted
      <3>2. s <= Floor
        BY <1>1, <3>1 DEF SheetInv
      <3> QED BY <1>5, <1>13, <2>1, <3>2
    <2>3. CASE s = below
      BY <1>4, <1>5, <1>6, <1>13, <2>3
    <2>4. CASE c \in Columns(table) /\ ~(s <= table.bottom) /\ s # below
      <3> DEFINE q == s - 1
      <3>1. q \in Rows /\ q \in Nat /\ s = q + 1
        BY <1>3, <2>1, <2>4 DEF Rows
      <3>2. grid[q][c] # Blank
        BY <1>4, <1>16, <2>4 DEF Shifted
      <3> HIDE DEF q
      <3>3. q <= Floor
        BY <1>1, <3>1, <3>2 DEF SheetInv
      <3> QED BY <1>5, <1>13, <3>1, <3>3
    <2> QED BY <2>2, <2>3, <2>4
  <1>17. ASSUME NEW v, v # Blank
         PROVE  /\ v # r => Cardinality(Cells(h, v)) <= Cardinality(Cells(grid, v))
                /\ Cardinality(Cells(h, v)) <= Cardinality(Cells(grid, v)) + Cardinality(Marks(cells))
                /\ Cardinality(Cells(grid, v)) <= Cardinality(Cells(h, v))
    <2> DEFINE t == table
    <2>1. t.bottom < MaxRow
      BY <1>3, <1>5
    <2>2. ASSUME NEW c \in Columns(t) PROVE grid[MaxRow][c] = Blank
      <3>1. MaxRow \in Rows /\ c \in Cols /\ ~(MaxRow <= Floor)
        BY <1>3, <1>5 DEF Rows
      <3> QED BY <1>1, <3>1 DEF SheetInv
    <2>3. t \in Refs /\ Len(cells) = t.right - t.left + 1 /\ Shifted(h, grid, t, cells, r)
      BY <1>3, <1>4
    <2> HIDE DEF t
    <2>4. /\ v # r => Cardinality(Cells(h, v)) <= Cardinality(Cells(grid, v))
          /\ Cardinality(Cells(h, v)) <= Cardinality(Cells(grid, v)) + Cardinality(Marks(cells))
          /\ t.bottom < MaxRow /\ (\A c \in Columns(t) : grid[MaxRow][c] = Blank)
               => Cardinality(Cells(grid, v)) <= Cardinality(Cells(h, v))
      BY <1>4, <1>17, <2>3, ShiftCount
    <2> QED BY <2>1, <2>2, <2>4
  <1>18. \A s \in Requests : s # Blank
    BY CellAssumption
  <1>19. ASSUME NEW s \in Requests, place[s] = "table", NEW x \in Cells(h, s)
         PROVE  x[1] \in table.top + 1 .. table'.bottom /\ x[2] \in Columns(table)
    <2>1. x \in Rows \X Cols /\ x[1] \in Rows /\ x[2] \in Cols /\ h[x[1]][x[2]] = s
          /\ x[1] \in Nat
      BY DEF Cells, Rows
    <2>2. ASSUME NEW y \in Rows, grid[y][x[2]] = s
          PROVE  y \in table.top + 1 .. table.bottom /\ x[2] \in Columns(table)
      <3>1. <<y, x[2]>> \in Cells(grid, s)
        BY <2>1, <2>2 DEF Cells
      <3> DEFINE z == <<y, x[2]>>
      <3>2. z[1] = y /\ z[2] = x[2] /\ z \in Cells(grid, s)
        BY <3>1
      <3> HIDE DEF z
      <3> QED BY <1>1, <1>19, <3>2 DEF TableRowsStayInTable
    <2>3. CASE x[2] \notin Columns(table) \/ x[1] <= table.bottom
      <3>1. grid[x[1]][x[2]] = s
        BY <1>4, <2>1, <2>3 DEF Shifted
      <3>2. x[1] \in table.top + 1 .. table.bottom /\ x[2] \in Columns(table)
        BY <2>1, <2>2, <3>1
      <3> QED BY <1>3, <1>6, <1>10, <3>2
    <2>4. CASE x[2] \in Columns(table) /\ x[1] = below
      BY <1>3, <1>6, <1>10, <2>4
    <2>5. CASE x[2] \in Columns(table) /\ ~(x[1] <= table.bottom) /\ x[1] # below
      <3> DEFINE q == x[1] - 1
      <3>1. q \in Rows /\ q \in Nat /\ ~(q <= table.bottom)
        BY <1>3, <1>6, <2>1, <2>5 DEF Rows
      <3>2. grid[q][x[2]] = s
        BY <1>4, <2>1, <2>5 DEF Shifted
      <3> HIDE DEF q
      <3>3. q \in table.top + 1 .. table.bottom
        BY <2>2, <3>1, <3>2
      <3> QED BY <1>3, <3>1, <3>3
    <2> QED BY <2>3, <2>4, <2>5
  <1>20. RequestInv(r)'
    <2>1. answer[r] = NoAnswer /\ mode = "graph" /\ place[r] = "table"
      BY <1>1, <1>2 DEF ControlInv
    <2>2. ControlInv(r)'
      BY <1>1, <1>2, <1>7, <1>9, <2>1 DEF ControlInv
    <2>3. OrderedInv(r)'
      <3>1. Given(r)' = Given(r) /\ Ordered(r)' = Ordered(r)
        BY <1>2, <1>7 DEF Given, Ordered
      <3>2. ~stale'[r] => ~stale[r]
        BY <1>7
      <3> QED BY <1>1, <1>2, <1>7, <1>9, <3>1, <3>2 DEF OrderedInv
    <2>4. AddressInv(r)' /\ CopyInv(r)'
      BY <1>2, <1>9 DEF AddressInv, CopyInv
    <2>5. CountInv(r)'
      <3> DEFINE n == Cardinality(Cells(grid, r))
                 k == Given(r)
                 m == Cardinality(Marks(cells))
                 i == Cardinality(Cells(h, r))
      <3>1. Given(r)' = k /\ Cells(grid, r)' = Cells(h, r)
        BY <1>2, <1>7 DEF Given, Cells
      <3>2. k \in Nat /\ n \in Nat /\ m \in Nat /\ i \in Nat
        BY <1>1, <1>4, OrderedFits, SheetFinite, MarksFinite
      <3>3. tries[r] \in Nat
        BY <1>1 DEF TypeOK
      <3>4. n <= k * tries[r]
        <4>1. n <= k * (tries[r] + 0)
          BY <1>1, <1>2 DEF CountInv
        <4> QED BY <3>3, <4>1
      <3>5. m <= k
        BY <1>1, <1>2 DEF OrderedInv, cells
      <3>6. i <= n + m
        BY <1>17, <1>18
      <3> HIDE DEF n, k, m, i
      <3>7. i <= k * (tries[r] + 1)
        BY <3>2, <3>3, <3>4, <3>5, <3>6, CountGrows
      <3>8. tries[r] + 1 + 0 = tries[r] + 1
        BY <3>3
      <3>9. tries'[r] + (IF pc'[r] = "done" THEN 1 ELSE 0) = tries[r] + 1
        BY <1>2, <1>9, <3>8
      <3> QED BY <1>2, <2>1, <3>1, <3>7, <3>9 DEF CountInv, i
    <2> QED BY <2>2, <2>3, <2>4, <2>5 DEF RequestInv
  <1>21. \A s \in Requests : s # r => Cardinality(Cells(grid', s)) <= Cardinality(Cells(grid, s))
    BY <1>7, <1>17, <1>18
  <1>22. ExcelInv'
    BY <1>7, <1>11, <1>12, <1>14, <1>15, <1>16, <1>19, <1>20, <1>21, StepKeeps
  <1>23. LosesNothing
    BY <1>7, <1>17 DEF LosesNothing, NoneLost
  <1>24. ASSUME answer'[r].status = "added", ~stale[r] PROVE AtTheEnd(r)
    <2>1. answer[r] = NoAnswer /\ place[r] = "table"
      BY <1>1, <1>2 DEF ControlInv
    <2>2. answer'[r].row = told
      BY <1>9, <1>24, <2>1 DEF NoAnswer
    <2>3. cells = Ordered(r)
      BY <1>1, <1>2, <1>24 DEF OrderedInv, cells
    <2>4. ASSUME NEW i \in DOMAIN cells PROVE cells[i] <=> h[below][table.left + i - 1] = r
      <3> DEFINE c == table.left + i - 1
      <3>1. i \in Nat /\ i >= 1 /\ i <= Len(cells)
        BY <1>4
      <3>2. c \in Columns(table) /\ c \in Cols /\ c - table.left + 1 = i
        <4> DEFINE first == table.left
                   last == table.right
                   n == Len(cells)
        <4>1. first \in Nat /\ last \in Nat /\ n = last - first + 1 /\ i \in Nat /\ i >= 1
              /\ i <= n
          BY <1>3, <1>4, <3>1
        <4> HIDE DEF first, last, n
        <4>2. first + i - 1 \in first .. last /\ (first + i - 1) - first + 1 = i
          BY <4>1
        <4>3. c \in Columns(table) /\ c - table.left + 1 = i
          BY <4>2, Zenon DEF first, last, Columns
        <4> HIDE DEF c
        <4> QED BY <1>3, <4>3
      <3>3. ~(below <= table.bottom)
        BY <1>3, <1>6
      <3> HIDE DEF c
      <3>4. h[below][c] = IF cells[c - table.left + 1] THEN r ELSE Blank
        BY <1>4, <1>6, <3>2, <3>3 DEF Shifted
      <3>5. cells[i] <=> h[below][c] = r
        BY <1>18, <3>2, <3>4
      <3> QED BY <3>5 DEF c
    <2>5. ASSUME NEW s \in Rows, s > below, s <= table'.bottom PROVE FALSE
      BY <1>6, <1>10, <2>5 DEF Rows
    <2> HIDE DEF below
    <2>6. /\ table'.top + told = below /\ table'.left = table.left
          /\ cells = OrderedBy(columns', r)
      BY <1>6, <1>7, <1>10, <2>3 DEF Ordered, OrderedBy
    <2>7. Shows(h, below, table'.left, cells, r)
      BY <2>4, <2>6 DEF Shows
    <2>8. AtEnd(r, h, table', columns', told)
      BY <2>1, <2>5, <2>6, <2>7 DEF AtEnd
    <2> QED BY <1>7, <2>2, <2>8 DEF AtTheEnd
  <1> QED BY <1>12, <1>22, <1>23, <1>24

LEMMA RangeWritten ==
  ASSUME ExcelInv, NEW r \in Requests, PatchRange(r)
  PROVE  /\ ExcelInv' /\ OwnStep(r)
         /\ stale[r] \/ LosesNothing
         /\ pc'[r] # pc[r] \/ tries'[r] # tries[r]
         /\ answer'[r].status = "added" /\ ~stale[r] => AtTheEnd(r)
  <1> DEFINE row == address[r].row
             left == ColumnOf(address[r].from)
             right == ColumnOf(address[r].to)
             cells == sent[r].cells
             h == WithRow(grid, row, left, cells, r)
  <1>1. TypeOK /\ SheetInv /\ TableRowsStayInTable /\ ControlInv(r) /\ AddressInv(r)
        /\ CountInv(r)
    BY DEF ExcelInv, RequestInv
  <1>2. /\ table.top \in Nat /\ table.bottom \in Nat
        /\ MaxRow \in Nat /\ MaxCol \in Nat /\ LastCol \in Nat
    <2>1. table \in Refs
      BY <1>1 DEF TypeOK
    <2> QED BY <2>1, TableShape, SheetAssumption
  <1>3. pc[r] = "patch"
    BY DEF PatchRange
  <1>4. /\ left \in 1 .. LastCol /\ right = left + Len(cells) - 1
        /\ row \in table.top + 1 .. Floor + 1
        /\ ~stale[r] => Below(r)
    BY <1>1, <1>3 DEF AddressInv
  <1>5. cells \in Seq(BOOLEAN) /\ Cardinality(Marks(cells)) <= Given(r) /\ Given(r) \in Nat
        /\ Cardinality(Marks(cells)) \in Nat /\ Len(cells) \in Nat
    BY <1>1, OrderedFits, MarksFinite
  <1>6. right - left + 1 = Len(cells) /\ left \in Nat /\ left >= 1
    <2> DEFINE n == Len(cells)
    <2>1. left \in Nat /\ left >= 1
      BY <1>2, <1>4
    <2>2. n \in Nat /\ right = left + n - 1
      BY <1>4, <1>5
    <2> HIDE DEF n, left, right
    <2>3. right - left + 1 = n
      BY <2>1, <2>2
    <2> QED BY <2>1, <2>3 DEF n
  <1>7. /\ Save(r, h) /\ Answered(r, row) /\ table' = table
        /\ mode' = mode /\ place' = place /\ sent' = sent /\ moves' = moves
    <2>1. /\ Save(r, h) /\ Answered(r, row) /\ table' = table
          /\ UNCHANGED <<inputs, moves>>
      BY <1>6, Zenon DEF PatchRange
    <2> QED BY <2>1 DEF inputs
  <1>8. Floor \in Nat /\ Floor + 1 <= MaxRow /\ table.bottom <= Floor
    BY <1>1, <1>3, Room DEF SheetInv
  <1>9. row \in Rows /\ row \in Nat /\ row > table.top /\ row <= Floor + 1 /\ row \in 0 .. MaxRow
    <2> DEFINE top == table.top
    <2>1. top \in Nat /\ MaxRow \in Nat /\ Floor \in Nat /\ Floor + 1 <= MaxRow
          /\ row \in top + 1 .. Floor + 1
      BY <1>2, <1>4, <1>8
    <2> HIDE DEF top, row
    <2>2. row \in 1 .. MaxRow /\ row \in Nat /\ row > top /\ row <= Floor + 1 /\ row \in 0 .. MaxRow
      BY <2>1
    <2> QED BY <2>2 DEF top, Rows
  <1>10. left + Len(cells) - 1 <= MaxCol
    <2>1. sent[r] \in RowsToAdd
      BY <1>1 DEF TypeOK
    <2>2. LastCol + Len(cells) <= MaxCol + 1
      BY <2>1, SheetAssumption
    <2> DEFINE n == Len(cells)
    <2>3. n \in Nat /\ LastCol + n <= MaxCol + 1
      BY <1>5, <2>2
    <2> HIDE DEF n, left
    <2>4. left + n - 1 <= MaxCol
      BY <1>2, <1>4, <2>3
    <2> QED BY <2>4 DEF n
  <1> HIDE DEF row, left, right, cells
  <1>11. h \in Grids /\ Wrote(h, grid, row, left, cells, r)
    <2>1. grid \in Grids
      BY <1>1 DEF TypeOK
    <2> QED BY <1>5, <1>6, <1>9, <2>1, RowWritten
  <1> HIDE DEF h
  <1>12. /\ grid' = h /\ stale' \in [Requests -> BOOLEAN]
         /\ columns' = columns /\ current' = current
         /\ \A s \in Requests : s # r /\ pc[s] \in {"probe", "patch"} /\ grid' # grid => stale'[s]
         /\ \A s \in Requests : stale[s] => stale'[s]
         /\ \A s \in Requests : stale'[s] =>
               stale[s] \/ (s # r /\ pc[s] \in {"probe", "patch"} /\ grid' # grid)
    BY <1>1, <1>7, SaveChanges, Zenon
  <1>13. pc[r] # "done"
    BY <1>3
  <1>14. /\ ordered' = ordered /\ address' = address
         /\ \/ pc'[r] = "done" /\ tries'[r] = tries[r]
               /\ answer'[r] \in {[status |-> "added", row |-> row],
                                 [status |-> "failed", row |-> 0]}
            \/ pc' = pc /\ used' = used /\ answer' = answer /\ tries'[r] = tries[r] + 1
         /\ \A s \in Requests : s # r => /\ pc'[s] = pc[s] /\ used'[s] = used[s]
                                        /\ edited'[s] = edited[s]
                                        /\ tries'[s] = tries[s] /\ answer'[s] = answer[s]
         /\ edited' \in [Requests -> Copies \cup {NoCopy}]
         /\ pc' \in [Requests -> {"start", "add", "probe", "patch", "put", "chunk", "done"}]
         /\ used' \in [Requests -> [row: Nat, col: Nat, rows: Nat, cols: Nat]]
         /\ tries' \in [Requests -> 0 .. MostTries]
         /\ answer' \in [Requests ->
               [status: {"none", "added", "bad_request", "conflict", "failed"}, row: 0 .. MaxRow]]
    BY <1>1, <1>7, <1>9, <1>13, AnsweredChanges, Zenon
  <1>15. TypeOK'
    BY <1>1, <1>7, <1>11, <1>12, <1>14 DEF TypeOK
  <1>16. OwnStep(r)
    <2>1. tries'[r] \in {tries[r], tries[r] + 1} /\ current' \subseteq current \cup {r}
          /\ mode = "graph"
      BY <1>1, <1>3, <1>12, <1>14 DEF ControlInv
    <2>2. \A s \in Requests : s # r =>
             /\ pc'[s] = pc[s] /\ ordered'[s] = ordered[s] /\ used'[s] = used[s]
             /\ address'[s] = address[s] /\ edited'[s] = edited[s]
             /\ tries'[s] = tries[s] /\ answer'[s] = answer[s]
      BY <1>14
    <2> QED BY <1>7, <1>12, <1>13, <2>1, <2>2, Zenon DEF OwnStep
  <1>17. tries[r] \in Nat /\ (tries'[r] # tries[r] \/ pc'[r] = "done")
    <2>1. tries[r] \in Nat
      BY <1>1 DEF TypeOK
    <2> QED BY <1>14, <2>1
  <1>18. Floor' \in Nat /\ Floor + 1 <= Floor'
    BY <1>1, <1>15, <1>16, <1>17, FloorGrows
  <1>19. /\ \A c \in Columns(table) : h[table.top][c] # Blank
         /\ \A s \in Rows, c \in Cols : h[s][c] # Blank => s <= Floor + 1
         /\ \A s \in Requests : s # r => /\ Cells(h, s) \subseteq Cells(grid, s)
                                        /\ Cardinality(Cells(h, s)) <= Cardinality(Cells(grid, s))
         /\ Cells(h, r) \subseteq Cells(grid, r) \cup Placed(row, left, cells)
         /\ Cardinality(Cells(h, r)) <= Cardinality(Cells(grid, r)) + Cardinality(Marks(cells))
    BY <1>5, <1>6, <1>9, <1>11, WriteKeeps
  <1>20. mode = "graph" /\ place[r] = "sheet" /\ answer[r] = NoAnswer
    BY <1>1, <1>3 DEF ControlInv
  <1>21. ASSUME ~stale[r]
         PROVE  \A n \in Rows, c \in Cols : grid[n][c] # Blank =>
                   /\ left <= c /\ n <= row
                   /\ n = row <=> grid[n][c] = r
                   /\ n = row => c - left + 1 \in Marks(cells)
    BY <1>4, <1>21 DEF Below, row, left, cells
  <1>32. ASSUME ~stale[r] PROVE left = LeftEdge(grid, row) /\ LeftEdge(h, row) = left
    <2>1. left = LeftEdge(grid, row)
      BY <1>4, <1>32 DEF Below, row, left
    <2> QED BY <1>9, <1>11, <2>1, LeftEdgeKept
  <1>22. r # Blank
    BY CellAssumption
  <1>23. ASSUME ~stale[r]
         PROVE  \A n \in Rows, c \in Cols : h[n][c] # Blank =>
                   /\ left <= c /\ n <= row
                   /\ n = row <=> h[n][c] = r
                   /\ n = row => c - left + 1 \in Marks(cells)
    <2>1. ASSUME NEW n \in Rows, NEW c \in Cols, h[n][c] # Blank
          PROVE  /\ left <= c /\ n <= row
                 /\ n = row <=> h[n][c] = r
                 /\ n = row => c - left + 1 \in Marks(cells)
      <3>1. n \in Nat /\ c \in Nat
        BY DEF Rows, Cols
      <3>2. CASE n = row /\ c \in left .. left + Len(cells) - 1
        <4>1. cells[c - left + 1] /\ h[n][c] = r
          BY <1>11, <2>1, <3>2 DEF Wrote
        <4>2. c - left + 1 \in DOMAIN cells
          BY <1>5, <1>6, <3>1, <3>2
        <4>3. left <= c /\ n <= row
          BY <1>6, <1>9, <3>1, <3>2
        <4> QED BY <3>2, <4>1, <4>2, <4>3 DEF Marks
      <3>3. CASE ~(n = row /\ c \in left .. left + Len(cells) - 1)
        <4>1. h[n][c] = grid[n][c]
          BY <1>11, <3>3 DEF Wrote
        <4> QED BY <1>21, <1>23, <2>1, <4>1
      <3> QED BY <3>2, <3>3
    <2> QED BY <2>1
  <1>24. RequestInv(r)'
    <2>1. ControlInv(r)'
      BY <1>1, <1>3, <1>7, <1>12, <1>14, <1>20 DEF ControlInv
    <2>2. OrderedInv(r)' /\ CopyInv(r)'
      BY <1>3, <1>14 DEF OrderedInv, CopyInv
    <2>3. AddressInv(r)'
      <3>1. CASE pc'[r] = "done"
        BY <3>1 DEF AddressInv
      <3>2. CASE pc'[r] # "done"
        <4>1. ASSUME NEW t \in Nat, NEW f \in Nat, NEW g \in Nat, f + 1 <= g, NEW n \in t + 1 .. f + 1
              PROVE  n \in t + 1 .. g + 1
          BY <4>1
        <4>2. row \in table.top + 1 .. Floor' + 1
          <5>1. row \in table.top + 1 .. Floor + 1
            BY <1>4 DEF row
          <5> QED BY <1>2, <1>8, <1>18, <4>1, <5>1
        <4>3. address'[r].row \in table'.top + 1 .. Floor' + 1
          BY <1>7, <1>14, <4>2 DEF row
        <4>4. /\ ColumnOf(address'[r].from) \in 1 .. LastCol
              /\ ColumnOf(address'[r].to) = ColumnOf(address'[r].from) + Len(sent'[r].cells) - 1
          BY <1>4, <1>7, <1>14 DEF left, right, cells
        <4>5. ~stale'[r] => Below(r)'
          <5>1. ~stale'[r] => ~stale[r]
            BY <1>12
          <5>2. address'[r].row = row /\ ColumnOf(address'[r].from) = left /\ sent'[r].cells = cells
                /\ grid' = h
            BY <1>7, <1>12, <1>14 DEF row, left, cells
          <5> QED BY <1>23, <1>32, <5>1, <5>2 DEF Below
        <4>6. pc'[r] = "patch"
          BY <1>3, <1>14, <3>2
        <4> QED BY <4>3, <4>4, <4>5, <4>6 DEF AddressInv
      <3> QED BY <3>1, <3>2
    <2>4. CountInv(r)'
      <3> DEFINE n == Cardinality(Cells(grid, r))
                 k == Given(r)
                 m == Cardinality(Marks(cells))
                 i == Cardinality(Cells(h, r))
      <3>1. Given(r)' = k /\ Cells(grid, r)' = Cells(h, r)
        BY <1>7, <1>12 DEF Given, Cells
      <3>2. k \in Nat /\ n \in Nat /\ m \in Nat /\ i \in Nat
        BY <1>5, SheetFinite
      <3>3. n <= k * tries[r]
        <4>1. n <= k * (tries[r] + 0)
          BY <1>1, <1>3 DEF CountInv
        <4> QED BY <1>17, <4>1
      <3>4. m <= k
        BY <1>5
      <3>5. i <= n + m
        BY <1>19
      <3>6. ASSUME ~stale[r] PROVE i <= k
        <4>1. Cells(h, r) \subseteq Placed(row, left, cells)
          <5>1. ASSUME NEW x \in Cells(h, r) PROVE x \in Placed(row, left, cells)
            <6>1. x \in Rows \X Cols /\ x[1] \in Rows /\ x[2] \in Cols /\ h[x[1]][x[2]] = r
              BY DEF Cells
            <6>2. x[1] = row /\ x[2] - left + 1 \in Marks(cells)
              BY <1>22, <1>23, <3>6, <6>1
            <6> QED BY <6>1, <6>2 DEF Placed
          <5> QED BY <5>1
        <4>2. Cells(h, r) \subseteq {} \cup Placed(row, left, cells)
          BY <4>1
        <4>3. Cardinality(Cells(h, r)) <= Cardinality({}) + Cardinality(Marks(cells))
          <5> DEFINE e == {}
          <5>1. IsFiniteSet(e) /\ Cells(h, r) \subseteq e \cup Placed(row, left, cells)
            BY <4>2, FS_EmptySet
          <5> HIDE DEF e
          <5>2. Cardinality(Cells(h, r)) <= Cardinality(e) + Cardinality(Marks(cells))
            BY <1>5, <1>6, <5>1, CountWritten
          <5> QED BY <5>2 DEF e
        <4> QED BY <3>2, <3>4, <4>3, FS_EmptySet
      <3> HIDE DEF n, k, m, i
      <3>7. i <= k * (tries[r] + 1)
        BY <1>17, <3>2, <3>3, <3>4, <3>5, CountGrows
      <3>8. tries[r] + 1 + 0 = tries[r] + 1
        BY <1>17
      <3>9. tries'[r] + (IF pc'[r] = "done" THEN 1 ELSE 0) = tries[r] + 1
        BY <1>3, <1>14, <3>8
      <3>10. ~stale'[r] => ~stale[r]
        BY <1>12
      <3> QED BY <3>1, <3>6, <3>7, <3>9, <3>10 DEF CountInv, i
    <2> QED BY <2>1, <2>2, <2>3, <2>4 DEF RequestInv
  <1>25. ASSUME NEW s \in Requests, place[s] = "table", NEW x \in Cells(h, s)
         PROVE  x[1] \in table.top + 1 .. table'.bottom /\ x[2] \in Columns(table)
    <2>1. s # r
      BY <1>20, <1>25
    <2>2. x \in Cells(grid, s)
      BY <1>19, <2>1
    <2> QED BY <1>1, <1>7, <1>25, <2>2 DEF TableRowsStayInTable
  <1>26. table'.bottom <= Floor'
    BY <1>2, <1>7, <1>8, <1>18
  <1>27. ASSUME NEW s \in Rows, NEW c \in Cols, grid'[s][c] # Blank PROVE s <= Floor'
    <2>1. s <= Floor + 1 /\ s \in Nat
      BY <1>12, <1>19, <1>27 DEF Rows
    <2> QED BY <1>8, <1>18, <2>1
  <1>28. ExcelInv'
    BY <1>12, <1>15, <1>16, <1>19, <1>24, <1>25, <1>26, <1>27, StepKeeps
  <1>29. ASSUME ~stale[r] PROVE LosesNothing
    <2>1. ASSUME NEW v, v # Blank PROVE Cardinality(Cells(grid, v)) <= Cardinality(Cells(h, v))
      <3>1. ASSUME NEW x \in Cells(grid, v) PROVE x \in Cells(h, v)
        <4>1. x \in Rows \X Cols /\ x[1] \in Rows /\ x[2] \in Cols /\ grid[x[1]][x[2]] = v
          BY DEF Cells
        <4>2. CASE x[1] = row
          <5>1. v = r /\ x[2] - left + 1 \in Marks(cells) /\ left <= x[2]
            BY <1>21, <1>29, <2>1, <4>1, <4>2
          <5>2. x[2] - left + 1 \in 1 .. Len(cells) /\ cells[x[2] - left + 1]
            BY <1>5, <5>1, MarksFinite DEF Marks
          <5>3. x[2] \in left .. left + Len(cells) - 1
            BY <1>5, <1>6, <4>1, <5>1, <5>2 DEF Cols
          <5>4. h[x[1]][x[2]] = r
            BY <1>11, <4>1, <4>2, <5>2, <5>3 DEF Wrote
          <5> QED BY <4>1, <5>1, <5>4 DEF Cells
        <4>3. CASE x[1] # row
          <5>1. h[x[1]][x[2]] = v
            BY <1>11, <4>1, <4>3 DEF Wrote
          <5> QED BY <4>1, <5>1 DEF Cells
        <4> QED BY <4>2, <4>3
      <3> QED BY <3>1, FewerCells
    <2> QED BY <1>12, <2>1 DEF LosesNothing, NoneLost
  <1>30. ASSUME answer'[r].status = "added", ~stale[r] PROVE AtTheEnd(r)
    <2>1. answer'[r].row = row
      BY <1>14, <1>20, <1>30 DEF NoAnswer
    <2>2. Shows(h, row, left, cells, r)
      BY <1>5, <1>6, <1>9, <1>10, <1>11, WrittenRead
    <2>3. ASSUME NEW s \in Rows, s > row PROVE IsBlankRow(h, s, Cols)
      <3>1. ~(s <= row)
        BY <1>9, <2>3 DEF Rows
      <3>2. \A c \in Cols : h[s][c] = Blank
        BY <1>23, <1>30, <3>1
      <3> QED BY <3>2 DEF IsBlankRow
    <2>4. left = LeftEdge(h, row)
      BY <1>30, <1>32
    <2>5. AtEnd(r, h, table', columns', row)
      BY <1>20, <2>2, <2>3, <2>4 DEF AtEnd, cells
    <2> QED BY <1>12, <2>1, <2>5 DEF AtTheEnd
  <1>31. pc'[r] # pc[r] \/ tries'[r] # tries[r]
    BY <1>3, <1>17
  <1> QED BY <1>16, <1>28, <1>29, <1>30, <1>31

LEMMA CallFailed ==
  ASSUME ExcelInv, NEW r \in Requests, CallFails(r)
  PROVE  ExcelInv' /\ OwnStep(r) /\ grid' = grid /\ answer'[r].status # "added"
  <1>1. pc[r] # "done" /\ Refuse(r, "failed") /\ UNCHANGED <<inputs, moves>>
    BY DEF CallFails
  <1> QED BY <1>1, RefusedKeeps

\* A column of the table is moved.
LEMMA ColumnMoved ==
  ASSUME ExcelInv, NEW i \in DOMAIN columns, NEW j \in DOMAIN columns, i < j,
         PersonMovesColumn(i, j)
  PROVE  ExcelInv' /\ LosesNothing /\ answer' = answer /\ sent' = sent
  <1> DEFINE c == table.left + i - 1
             d == table.left + j - 1
  <1>1. TypeOK /\ SheetInv /\ TableRowsStayInTable /\ \A r \in Requests : RequestInv(r)
    BY DEF ExcelInv
  <1>2. /\ moves < MaxMoves /\ moves' = moves + 1
        /\ columns' = Swapped(columns, i, j)
        /\ grid' = [r \in Rows |-> IF r \in table.top .. table.bottom THEN Swapped(grid[r], c, d)
                                   ELSE grid[r]]
        /\ stale' = [r \in Requests |-> stale[r] \/ pc[r] = "add"
                                        \/ (pc[r] \in {"probe", "patch"} /\ grid' # grid)]
        /\ current' = {}
        /\ UNCHANGED <<inputs, table, pc, looked, edited, tries, answer>>
    BY Zenon DEF PersonMovesColumn
  <1>3. /\ mode' = mode /\ place' = place /\ sent' = sent /\ table' = table /\ pc' = pc
        /\ ordered' = ordered /\ used' = used /\ address' = address
        /\ tries' = tries /\ answer' = answer /\ edited' = edited /\ current' = {}
    BY <1>2 DEF inputs, looked
  <1>4. /\ table.left \in Nat /\ table.right \in Nat /\ table.top \in Nat /\ table.bottom \in Nat
        /\ table.left >= 1 /\ table.top <= table.bottom
        /\ table \in Refs /\ Columns(table) \subseteq Cols
        /\ table.left <= table.right /\ table.top \in Rows
    <2>1. table \in Refs
      BY <1>1 DEF TypeOK
    <2> QED BY <2>1, TableShape
  <1>5. /\ columns \in Seq(ToSet(Headers)) /\ Len(columns) = table.right - table.left + 1
        /\ DOMAIN columns = 1 .. Len(columns) /\ IsInjective(columns)
        /\ i \in Nat /\ j \in Nat
    BY <1>1 DEF TypeOK, SheetInv
  <1>6. c \in Columns(table) /\ d \in Columns(table) /\ c # d /\ c \in Cols /\ d \in Cols
    <2>1. i \in 1 .. table.right - table.left + 1 /\ j \in 1 .. table.right - table.left + 1
      BY <1>5
    <2>2. c \in table.left .. table.right /\ d \in table.left .. table.right /\ c # d
      <3>1. ASSUME NEW l \in Nat, NEW m \in Nat, NEW k \in 1 .. m - l + 1
            PROVE  l + k - 1 \in l .. m
        BY <3>1
      <3>2. c # d
        BY <1>4, <1>5
      <3> QED BY <1>4, <2>1, <3>1, <3>2
    <2> QED BY <1>4, <2>2 DEF Columns
  <1> HIDE DEF c, d
  <1>7. /\ columns' \in Seq(ToSet(Headers)) /\ Len(columns') = Len(columns)
        /\ DOMAIN columns' = DOMAIN columns
        /\ \A k \in DOMAIN columns : columns'[k] = IF k = i THEN columns[j]
                                                   ELSE IF k = j THEN columns[i] ELSE columns[k]
    <2>1. columns' = [columns EXCEPT ![i] = columns[j], ![j] = columns[i]]
      BY <1>2 DEF Swapped
    <2> QED BY <1>5, <2>1
  <1>8. IsInjective(columns')
    <2>1. ASSUME NEW a \in DOMAIN columns, NEW b \in DOMAIN columns, columns'[a] = columns'[b]
          PROVE  a = b
      <3>1. \A x, y \in DOMAIN columns : columns[x] = columns[y] => x = y
        BY <1>5 DEF IsInjective
      <3> QED BY <1>7, <2>1, <3>1
    <2> QED BY <1>7, <2>1 DEF IsInjective
  <1>9. ASSUME NEW s \in Rows, NEW k \in Cols
        PROVE  grid'[s][k] = IF s \notin table.top .. table.bottom \/ k \notin {c, d} THEN grid[s][k]
                             ELSE IF k = c THEN grid[s][d] ELSE grid[s][c]
    <2>1. grid[s] \in [Cols -> Values]
      BY <1>1 DEF TypeOK, Grids
    <2>2. grid'[s] = IF s \in table.top .. table.bottom
                     THEN [grid[s] EXCEPT ![c] = grid[s][d], ![d] = grid[s][c]] ELSE grid[s]
      BY <1>2 DEF Swapped
    <2> QED BY <1>6, <2>1, <2>2
  <1>10. grid' \in Grids
    <2>1. ASSUME NEW s \in Rows
          PROVE  (IF s \in table.top .. table.bottom THEN Swapped(grid[s], c, d) ELSE grid[s])
                    \in [Cols -> Values]
      <3>1. grid[s] \in [Cols -> Values]
        BY <1>1 DEF TypeOK, Grids
      <3>2. [grid[s] EXCEPT ![c] = grid[s][d], ![d] = grid[s][c]] \in [Cols -> Values]
        BY <1>6, <3>1
      <3> QED BY <3>1, <3>2 DEF Swapped
    <2> QED BY <1>2, <2>1 DEF Grids
  <1>11. Exchanged(grid', grid, table, c, d)
    BY <1>9 DEF Exchanged
  <1>12. \A v : Cardinality(Cells(grid', v)) = Cardinality(Cells(grid, v))
    <2> DEFINE t == table
    <2>1. Exchanged(grid', grid, t, c, d)
      BY <1>11
    <2> HIDE DEF t
    <2> QED BY <1>6, <2>1, ExchangeCount
  <1>13. /\ stale' \in [Requests -> BOOLEAN]
         /\ \A r \in Requests : stale[r] => stale'[r]
         /\ \A r \in Requests : pc[r] = "add" => stale'[r]
         /\ \A r \in Requests : pc[r] \in {"probe", "patch"} /\ grid' # grid => stale'[r]
         /\ \A r \in Requests : stale'[r] => stale[r] \/ pc[r] \in {"add", "probe", "patch"}
    <2>1. \A r \in Requests : stale'[r] = (stale[r] \/ pc[r] = "add"
                                           \/ (pc[r] \in {"probe", "patch"} /\ grid' # grid))
      BY <1>2
    <2>2. stale' \in [Requests -> BOOLEAN]
      BY <1>2, Zenon
    <2> QED BY <2>1, <2>2
  <1>14. moves' \in 0 .. MaxMoves
    <2>1. moves \in 0 .. MaxMoves
      BY <1>1 DEF TypeOK
    <2>2. MaxMoves \in Nat
      BY SheetAssumption
    <2> QED BY <1>1, <1>2, <2>1, <2>2
  <1>15. TypeOK'
    <2>1. Len(columns') = table'.right - table'.left + 1
      BY <1>3, <1>5, <1>7
    <2> QED BY <1>1, <1>3, <1>7, <1>10, <1>13, <1>14, <2>1 DEF TypeOK
  <1>16. Floor' = Floor
    BY <1>3 DEF Floor, Taken
  <1>17. \A s \in Rows, k \in Cols : grid'[s][k] # Blank =>
            \E l \in Cols : grid[s][l] # Blank
    BY <1>6, <1>9
  <1>18. SheetInv'
    <2>1. \A k \in Columns(table) : grid'[table.top][k] # Blank
      <3>1. ASSUME NEW k \in Columns(table) PROVE grid'[table.top][k] # Blank
        <4>1. k \in Cols
          BY <1>4
        <4> QED BY <1>1, <1>4, <1>6, <1>9, <4>1 DEF SheetInv
      <3> QED BY <3>1
    <2>2. \A row \in Rows, k \in Cols : grid'[row][k] # Blank => row <= Floor
      BY <1>1, <1>17 DEF SheetInv
    <2>3. Columns(table)' = Columns(table)
      BY <1>3
    <2> QED BY <1>1, <1>3, <1>8, <1>16, <2>1, <2>2, <2>3 DEF SheetInv
  <1>19. TableRowsStayInTable'
    <2>1. ASSUME NEW r \in Requests, place[r] = "table", NEW x \in Cells(grid', r)
          PROVE  x[1] \in table.top + 1 .. table.bottom /\ x[2] \in Columns(table)
      <3>1. x \in Rows \X Cols /\ x[1] \in Rows /\ x[2] \in Cols /\ grid'[x[1]][x[2]] = r
        BY DEF Cells
      <3>2. ASSUME NEW k \in Cols, grid[x[1]][k] = r
            PROVE  x[1] \in table.top + 1 .. table.bottom /\ k \in Columns(table)
        <4> DEFINE z == <<x[1], k>>
        <4>1. z \in Cells(grid, r) /\ z[1] = x[1] /\ z[2] = k
          BY <3>1, <3>2 DEF Cells
        <4> HIDE DEF z
        <4> QED BY <1>1, <2>1, <4>1 DEF TableRowsStayInTable
      <3>3. CASE x[2] \notin {c, d}
        <4>1. grid[x[1]][x[2]] = r
          BY <1>9, <3>1, <3>3
        <4> QED BY <3>1, <3>2, <4>1
      <3>4. CASE x[2] \in {c, d}
        <4>1. \E k \in Cols : grid[x[1]][k] = r
          BY <1>6, <1>9, <3>1
        <4> QED BY <1>6, <3>2, <3>4, <4>1
      <3> QED BY <3>3, <3>4
    <2>2. Columns(table)' = Columns(table)
      BY <1>3
    <2>3. \A r : Cells(grid, r)' = Cells(grid', r)
      BY DEF Cells
    <2> QED BY <1>3, <2>1, <2>2, <2>3 DEF TableRowsStayInTable
  <1>20. ASSUME NEW r \in Requests PROVE RequestInv(r)'
    <2>1. ControlInv(r) /\ OrderedInv(r) /\ AddressInv(r) /\ CountInv(r) /\ CopyInv(r)
      BY <1>1 DEF RequestInv
    <2>2. ControlInv(r)'
      BY <1>3, <1>13, <2>1 DEF ControlInv
    <2>3. OrderedInv(r)'
      <3>1. Given(r)' = Given(r)
        BY <1>3 DEF Given
      <3> QED BY <1>3, <1>7, <1>13, <2>1, <3>1 DEF OrderedInv
    <2>4. AddressInv(r)'
      <3>1. pc[r] \in {"probe", "patch"} /\ ~stale'[r] => grid' = grid /\ ~stale[r]
        BY <1>13
      <3>2. grid' = grid => UsedRange' = UsedRange
        BY DEF UsedRange, UsedRows, UsedCols, LastUsedRow, LastUsedCol, FirstUsedCol, IsBlankRow
      <3>3. grid' = grid => (Below(r)' <=> Below(r))
        BY <1>3 DEF Below
      <3> QED BY <1>3, <1>16, <2>1, <3>1, <3>2, <3>3 DEF AddressInv
    <2>5. CountInv(r)'
      <3>1. Given(r)' = Given(r) /\ Cardinality(Cells(grid, r))' = Cardinality(Cells(grid, r))
        <4>1. Cells(grid, r)' = Cells(grid', r)
          BY DEF Cells
        <4> QED BY <1>3, <1>12, <4>1 DEF Given
      <3> QED BY <1>3, <1>13, <2>1, <3>1 DEF CountInv
    <2>6. CopyInv(r)'
      <3>1. Progress
        <4>1. \A s \in Requests : tries[s] \in Nat
          BY <1>1 DEF TypeOK
        <4> QED BY <1>3, <4>1 DEF Progress
      <3>2. ASSUME pc[r] \in {"put", "chunk"} PROVE Good(edited[r], r)'
        <4> DEFINE w == edited[r]
        <4>1. Good(w, r) /\ edited'[r] = w
          BY <1>3, <2>1, <3>2 DEF CopyInv
        <4> HIDE DEF w
        <4> QED BY <1>3, <1>15, <3>1, <4>1, GoodCarries
      <3> QED BY <1>3, <3>2 DEF CopyInv
    <2> QED BY <2>2, <2>3, <2>4, <2>5, <2>6 DEF RequestInv
  <1>21. LosesNothing
    <2>1. ASSUME NEW v PROVE Cardinality(Cells(grid, v)) <= Cardinality(Cells(grid', v))
      <3>1. Cardinality(Cells(grid, v)) \in Nat /\ Cardinality(Cells(grid', v)) = Cardinality(Cells(grid, v))
        BY <1>12, SheetFinite
      <3> QED BY <3>1
    <2> QED BY <2>1 DEF LosesNothing, NoneLost
  <1> QED BY <1>3, <1>15, <1>18, <1>19, <1>20, <1>21 DEF ExcelInv

-----------------------------------------------------------------------------
(* The beginning.                                                          *)

LEMMA ExcelInit == Init => ExcelInv
  <1> SUFFICES ASSUME Init PROVE ExcelInv
    OBVIOUS
  <1>1. /\ mode \in {"download", "graph"} /\ place \in [Requests -> {"table", "sheet"}]
        /\ sent \in [Requests -> RowsToAdd]
        /\ \A r \in Requests : sent[r].names # {} => place[r] = "table"
        /\ table \in Refs /\ table.bottom <= FirstRows
        /\ FirstCol <= table.left /\ table.right <= LastCol
        /\ columns = SubSeq(Headers, 1, table.right - table.left + 1)
        /\ pc = [r \in Requests |-> "start"] /\ ordered = [r \in Requests |-> <<>>]
        /\ used = [r \in Requests |-> NoRange] /\ address = [r \in Requests |-> NoAddress]
        /\ tries = [r \in Requests |-> 0] /\ answer = [r \in Requests |-> NoAnswer]
        /\ stale = [r \in Requests |-> FALSE] /\ moves = 0
        /\ edited = [r \in Requests |-> NoCopy] /\ current = {}
    BY DEF Init
  <1>2. PICK data \in SUBSET ((1 .. FirstRows) \X (FirstCol .. LastCol)) :
          /\ \A c \in Columns(table) : <<table.top, c>> \in data
          /\ grid = [r \in Rows |-> [c \in Cols |-> IF <<r, c>> \in data THEN Old ELSE Blank]]
    BY Zenon DEF Init
  <1>3. /\ FirstRows \in Nat /\ LastCol \in Nat /\ FirstCol \in Nat /\ MaxRow \in Nat
        /\ MostTries \in Nat /\ MaxMoves \in Nat /\ LETTERS \in Nat \ {0}
    BY SheetAssumption, TriesBound
  <1>4. /\ table.left \in Nat /\ table.right \in Nat /\ table.top \in Nat /\ table.bottom \in Nat
        /\ table.left >= 1 /\ table.left <= table.right /\ Columns(table) \subseteq Cols
        /\ table.top \in Rows
    BY <1>1, TableShape
  <1> DEFINE n == table.right - table.left + 1
  <1>5. columns \in Seq(ToSet(Headers)) /\ Len(columns) = n
        /\ \A k \in 1 .. n : columns[k] = Headers[k] /\ k \in DOMAIN Headers
    <2>1. Headers \in Seq(ToSet(Headers)) /\ Len(Headers) > LastCol - FirstCol /\ Len(Headers) \in Nat
          /\ DOMAIN Headers = 1 .. Len(Headers)
      BY RowAssumption
    <2>2. n \in Nat /\ n <= Len(Headers)
      BY <1>1, <1>3, <1>4, <2>1
    <2>3. columns = SubSeq(Headers, 1, n)
      BY <1>1
    <2> HIDE DEF n
    <2>4. \A k \in 1 .. n : k \in DOMAIN Headers
      BY <2>1, <2>2
    <2>5. columns = [k \in 1 .. n |-> Headers[k]]
      <3>1. SubSeq(Headers, 1, n) = [k \in 1 .. n - 1 + 1 |-> Headers[k + 1 - 1]]
        BY <2>1, <2>2
      <3> QED BY <2>2, <2>3, <3>1
    <2>6. \A k \in 1 .. n : Headers[k] \in ToSet(Headers)
      BY <2>1, <2>4 DEF ToSet
    <2>7. columns \in [1 .. n -> ToSet(Headers)]
      BY <2>5, <2>6
    <2>8. columns \in Seq(ToSet(Headers))
      BY <2>2, <2>7, SeqDef
    <2> QED BY <2>2, <2>4, <2>5, <2>7, <2>8
  <1>6. IsInjective(columns)
    <2>1. DOMAIN columns = 1 .. n
      BY <1>5
    <2>2. \A a, b \in DOMAIN Headers : Headers[a] = Headers[b] => a = b
      BY RowAssumption DEF IsInjective
    <2> HIDE DEF n
    <2>3. \A a, b \in DOMAIN columns : columns[a] = columns[b] => a = b
      BY <1>5, <2>1, <2>2
    <2> QED BY <2>3 DEF IsInjective
  <1>7. \A r \in Rows, c \in Cols : grid[r][c] = IF <<r, c>> \in data THEN Old ELSE Blank
    BY <1>2
  <1>8. grid \in Grids
    <2>1. Old \in Values /\ Blank \in Values
      BY DEF Values
    <2> QED BY <1>2, <2>1 DEF Grids
  <1>9. TypeOK
    <2>1. NoRange \in [row: Nat, col: Nat, rows: Nat, cols: Nat]
      BY DEF NoRange
    <2>2. NoAddress \in [row: 0 .. MaxRow, from: Seq(0 .. LETTERS - 1), to: Seq(0 .. LETTERS - 1)]
      BY <1>3 DEF NoAddress
    <2>3. NoAnswer \in [status: {"none", "added", "bad_request", "conflict", "failed"},
                        row: 0 .. MaxRow]
      BY <1>3 DEF NoAnswer
    <2>4. 0 \in 0 .. MostTries /\ 0 \in 0 .. MaxMoves
      BY <1>3
    <2>5. ordered \in [Requests -> Seq(BOOLEAN)]
      <3>1. <<>> \in Seq(BOOLEAN)
        OBVIOUS
      <3> QED BY <1>1, <3>1
    <2>6. Len(columns) = table.right - table.left + 1
      BY <1>5
    <2> HIDE DEF n
    <2> QED BY <1>1, <1>5, <1>8, <2>1, <2>2, <2>3, <2>4, <2>5, <2>6 DEF TypeOK
  <1>10. Floor \in Nat /\ FirstRows <= Floor
    <2>1. Cardinality(Taken) \in Nat
      BY AttemptsFinite DEF Taken
    <2> QED BY <1>3, <2>1 DEF Floor
  <1>11. SheetInv
    <2>1. \A c \in Columns(table) : grid[table.top][c] # Blank
      <3>1. ASSUME NEW c \in Columns(table) PROVE grid[table.top][c] # Blank
        <4>1. <<table.top, c>> \in data /\ c \in Cols
          BY <1>2, <1>4
        <4> QED BY <1>4, <1>7, <4>1, CellAssumption
      <3> QED BY <3>1
    <2>2. ASSUME NEW row \in Rows, NEW c \in Cols, grid[row][c] # Blank PROVE row <= Floor
      <3>1. <<row, c>> \in data
        BY <1>7, <2>2
      <3>2. row \in 1 .. FirstRows
        BY <3>1
      <3> QED BY <1>3, <1>10, <3>2
    <2>3. table.bottom <= Floor
      BY <1>1, <1>3, <1>4, <1>10
    <2> QED BY <1>1, <1>6, <2>1, <2>2, <2>3 DEF SheetInv
  <1>12. ASSUME NEW r \in Requests PROVE Cells(grid, r) = {}
    <2>1. r # Old /\ r # Blank
      BY CellAssumption
    <2> QED BY <1>7, <2>1 DEF Cells
  <1>13. TableRowsStayInTable
    BY <1>12 DEF TableRowsStayInTable
  <1>14. ASSUME NEW r \in Requests PROVE RequestInv(r)
    <2>1. pc[r] = "start" /\ ~stale[r] /\ tries[r] = 0 /\ answer[r] = NoAnswer
      BY <1>1
    <2>2. ControlInv(r)
      BY <1>1, <2>1 DEF ControlInv
    <2>3. OrderedInv(r) /\ AddressInv(r) /\ CopyInv(r)
      BY <2>1 DEF OrderedInv, AddressInv, CopyInv
    <2>4. CountInv(r)
      <3>1. Cardinality(Cells(grid, r)) = 0
        BY <1>12, FS_EmptySet
      <3>2. Given(r) \in Nat
        BY <1>9, <1>11, OrderedFits
      <3>3. 0 <= Given(r) * (0 + 0)
        BY <3>2
      <3> QED BY <2>1, <3>1, <3>3 DEF CountInv
    <2> QED BY <2>2, <2>3, <2>4 DEF RequestInv
  <1> QED BY <1>9, <1>11, <1>13, <1>14 DEF ExcelInv

-----------------------------------------------------------------------------
(* The theorems.                                                           *)

\* A step of a request that writes after the sheet, or the file, changed is what may lose data.
LateWrite(r) ==
    /\ pc'[r] # pc[r] \/ tries'[r] # tries[r]
    /\ (pc[r] = "patch" /\ stale[r]) \/ (pc[r] = "chunk" /\ r \notin current)

LEMMA NothingChanged ==
  ASSUME grid' = grid
  PROVE  LosesNothing
  <1>1. ASSUME NEW v PROVE Cardinality(Cells(grid, v)) <= Cardinality(Cells(grid', v))
    <2>1. Cardinality(Cells(grid, v)) \in Nat
      BY SheetFinite
    <2> QED BY <2>1
  <1> QED BY <1>1 DEF LosesNothing, NoneLost

\* What a step of r does to all.
StepDone(r) ==
    /\ ExcelInv'
    /\ \A s \in Requests : s # r => answer'[s] = answer[s]
    /\ LosesNothing \/ LateWrite(r)
    /\ answer'[r].status = "added" /\ ~stale[r] => AtTheEnd(r)
    /\ sent' = sent

LEMMA QuietStep ==
  ASSUME NEW r \in Requests, ExcelInv', OwnStep(r), grid' = grid, answer'[r].status # "added"
  PROVE  StepDone(r)
  BY NothingChanged DEF StepDone, OwnStep

LEMMA RequestSteps ==
  ASSUME ExcelInv, NEW r \in Requests, Step(r)
  PROVE  StepDone(r)
  <1>1. ASSUME NEW status \in {"bad_request", "conflict", "failed"}, Refuse(r, status),
               pc[r] # "done", UNCHANGED <<inputs, moves>>
        PROVE  StepDone(r)
    <2>1. ExcelInv' /\ OwnStep(r) /\ grid' = grid /\ answer'[r].status = status
      BY <1>1, RefusedKeeps
    <2> QED BY <2>1, QuietStep
  <1>2. ASSUME pc[r] \in {"put", "chunk"}, r \in current \/ pc[r] = "chunk", Store(r),
               \/ Finish(r, "added", edited[r].row)
               \/ Finish(r, "failed", 0)
               \/ NextRound(r),
               UNCHANGED <<inputs, moves>>
        PROVE  StepDone(r)
    <2>1. /\ ExcelInv'
          /\ r \in current => LosesNothing
          /\ answer'[r].status = "added" => AtTheEnd(r)
          /\ \A s \in Requests : s # r => answer'[s] = answer[s]
          /\ pc'[r] # pc[r]
      BY <1>2, StoreKeeps
    <2>2. LosesNothing \/ LateWrite(r)
      BY <1>2, <2>1 DEF LateWrite
    <2>3. sent' = sent
      BY <1>2 DEF inputs
    <2> QED BY <2>1, <2>2, <2>3, Zenon DEF StepDone
  <1>3. CASE AppendToTable(r)
    <2>1. /\ mode = "download" /\ place[r] = "table" /\ pc[r] = "start" /\ pc[r] # "done"
          /\ UNCHANGED <<inputs, moves>>
      BY <1>3 DEF AppendToTable
    <2>2. CASE Refuse(r, "bad_request") \/ Refuse(r, "conflict")
      BY <1>1, <2>1, <2>2
    <2>3. CASE ~(Refuse(r, "bad_request") \/ Refuse(r, "conflict"))
      <3> DEFINE w == TableEdit(r)
      <3>1. Matches(r) /\ ~InTheWay /\ Download(r, w)
        BY <1>3, <2>3, Zenon DEF AppendToTable
      <3>2. Good(w, r) /\ NoneLost(grid, w.grid)
        BY <2>1, <3>1, TableRowEdited
      <3> HIDE DEF w
      <3>3. ExcelInv' /\ OwnStep(r) /\ grid' = grid /\ answer'[r].status # "added"
        BY <2>1, <3>1, <3>2, CopyMade
      <3> QED BY <3>3, QuietStep
    <2> QED BY <2>2, <2>3
  <1>4. CASE AppendBelowData(r)
    <2>1. /\ mode = "download" /\ place[r] = "sheet" /\ pc[r] = "start" /\ pc[r] # "done"
          /\ UNCHANGED <<inputs, moves>>
      BY <1>4 DEF AppendBelowData
    <2>2. CASE Refuse(r, "bad_request")
      BY <1>1, <2>1, <2>2
    <2>3. CASE ~Refuse(r, "bad_request")
      <3> DEFINE w == SheetEdit(r)
      <3>1. Download(r, w)
        BY <1>4, <2>3, Zenon DEF AppendBelowData
      <3>2. Good(w, r) /\ NoneLost(grid, w.grid)
        BY <2>1, SheetRowEdited
      <3> HIDE DEF w
      <3>3. ExcelInv' /\ OwnStep(r) /\ grid' = grid /\ answer'[r].status # "added"
        BY <2>1, <3>1, <3>2, CopyMade
      <3> QED BY <3>3, QuietStep
    <2> QED BY <2>2, <2>3
  <1>5. CASE Upload(r)
    <2>1. /\ pc[r] = "put" /\ r \in current /\ Store(r) /\ UNCHANGED <<inputs, moves>>
          /\ \/ Finish(r, "added", edited[r].row)
             \/ Finish(r, "failed", 0)
             \/ NextRound(r)
      BY <1>5, Zenon DEF Upload, Current
    <2> QED BY <1>2, <2>1
  <1>6. CASE UploadRefused(r)
    BY <1>6, CopyDropped, QuietStep
  <1>7. CASE OpenSession(r)
    BY <1>7, SessionOpened, QuietStep
  <1>8. CASE CommitSession(r)
    <2>1. /\ pc[r] = "chunk" /\ Store(r) /\ UNCHANGED <<inputs, moves>>
          /\ Finish(r, "added", edited[r].row) \/ Finish(r, "failed", 0)
      BY <1>8, Zenon DEF CommitSession
    <2> QED BY <1>2, <2>1
  <1>9. CASE GetColumns(r)
    BY <1>9, ColumnsRead, QuietStep
  <1>10. CASE AddRow(r)
    BY <1>10, RowInserted DEF StepDone, OwnStep
  <1>11. CASE GetUsedRange(r)
    BY <1>11, RangeAsked, QuietStep
  <1>12. CASE ProbeSheet(r)
    BY <1>12, SheetProbed, QuietStep
  <1>13. CASE PatchRange(r)
    <2>1. pc[r] = "patch"
      BY <1>13 DEF PatchRange
    <2>2. CASE Refuse(r, "bad_request")
      <3>1. UNCHANGED <<inputs, moves>>
        BY <1>13 DEF PatchRange
      <3> QED BY <1>1, <2>1, <2>2, <3>1
    <2>3. CASE ~Refuse(r, "bad_request")
      BY <1>13, <2>1, RangeWritten DEF LateWrite, StepDone, OwnStep
    <2> QED BY <2>2, <2>3
  <1>14. CASE Throttled(r)
    BY <1>14, Retried, QuietStep
  <1>15. CASE CallFails(r)
    BY <1>15, CallFailed, QuietStep
  <1> QED BY <1>3, <1>4, <1>5, <1>6, <1>7, <1>8, <1>9, <1>10, <1>11, <1>12, <1>13, <1>14,
             <1>15, Zenon DEF Step

LEMMA StutterKeeps ==
  ASSUME ExcelInv, UNCHANGED vars
  PROVE  ExcelInv' /\ LosesNothing /\ answer' = answer /\ sent' = sent
  <1>1. /\ mode' = mode /\ place' = place /\ sent' = sent /\ grid' = grid /\ table' = table
        /\ columns' = columns /\ pc' = pc /\ ordered' = ordered /\ used' = used
        /\ address' = address /\ tries' = tries /\ answer' = answer /\ stale' = stale
        /\ moves' = moves /\ edited' = edited /\ current' = current
    BY DEF vars, inputs, workbook, looked, copies
  <1>2. TypeOK'
    BY <1>1 DEF ExcelInv, TypeOK
  <1>3. SheetInv' /\ TableRowsStayInTable'
    BY <1>1 DEF ExcelInv, SheetInv, TableRowsStayInTable, Cells, Floor, Taken
  <1>4. ASSUME NEW r \in Requests PROVE RequestInv(r)'
    <2>1. ControlInv(r) /\ OrderedInv(r) /\ AddressInv(r) /\ CountInv(r) /\ CopyInv(r)
      BY DEF ExcelInv, RequestInv
    <2>2. ControlInv(r)'
      BY <1>1, <2>1 DEF ControlInv
    <2>3. Given(r)' = Given(r) /\ Ordered(r)' = Ordered(r) /\ Cells(grid, r)' = Cells(grid, r)
      BY <1>1 DEF Given, Ordered, Cells
    <2>4. OrderedInv(r)' /\ CountInv(r)'
      BY <1>1, <2>1, <2>3 DEF OrderedInv, CountInv
    <2>5. Floor' = Floor /\ UsedRange' = UsedRange /\ (Below(r)' <=> Below(r))
      BY <1>1 DEF Floor, Taken, UsedRange, UsedRows, UsedCols, LastUsedRow, LastUsedCol,
                  FirstUsedCol, IsBlankRow, Below
    <2>6. AddressInv(r)'
      BY <1>1, <2>1, <2>5 DEF AddressInv
    <2>7. CopyInv(r)'
      BY <1>1, <2>1, <2>3, <2>5 DEF CopyInv, Good, Shape, Within, Inside, Counted, Rounds, AtEnd,
                                    OrderedBy, NoneLost, Given, Cells
    <2> QED BY <2>2, <2>4, <2>6, <2>7 DEF RequestInv
  <1> QED BY <1>1, <1>2, <1>3, <1>4, NothingChanged DEF ExcelInv

\* What every step does.
LEMMA ExcelNext ==
  ASSUME ExcelInv, [Next]_vars
  PROVE  /\ ExcelInv'
         /\ LosesNothing \/ \E r \in Requests : LateWrite(r)
         /\ \A r \in Requests :
               answer'[r].status = "added" /\ pc[r] # "done" /\ ~stale[r] => AtTheEnd(r)
         /\ sent' = sent
  <1>1. ASSUME NEW r \in Requests, pc[r] # "done" PROVE answer[r].status # "added"
    BY <1>1 DEF ExcelInv, RequestInv, ControlInv, NoAnswer
  <1>2. CASE \E r \in Requests : Step(r)
    <2>1. PICK r \in Requests : Step(r)
      BY <1>2
    <2>2. /\ ExcelInv' /\ (LosesNothing \/ LateWrite(r)) /\ sent' = sent
          /\ \A s \in Requests : s # r => answer'[s] = answer[s]
          /\ answer'[r].status = "added" /\ ~stale[r] => AtTheEnd(r)
      BY <2>1, RequestSteps DEF StepDone
    <2>3. ASSUME NEW s \in Requests, answer'[s].status = "added", pc[s] # "done", ~stale[s]
          PROVE  AtTheEnd(s)
      <3>1. s = r
        BY <1>1, <2>2, <2>3
      <3> QED BY <2>2, <2>3, <3>1
    <2> QED BY <2>2, <2>3
  <1>3. CASE \E i, j \in DOMAIN columns : i < j /\ PersonMovesColumn(i, j)
    <2>1. PICK i \in DOMAIN columns, j \in DOMAIN columns : i < j /\ PersonMovesColumn(i, j)
      BY <1>3
    <2>2. ExcelInv' /\ LosesNothing /\ answer' = answer /\ sent' = sent
      BY <2>1, ColumnMoved
    <2> QED BY <1>1, <2>2
  <1>4. CASE UNCHANGED vars
    BY <1>1, <1>4, StutterKeeps
  <1> QED BY <1>2, <1>3, <1>4, Zenon DEF Next, Terminated

LEMMA ExcelInvariant == Spec => []ExcelInv
  <1>1. ExcelInv /\ [Next]_vars => ExcelInv'
    BY ExcelNext
  <1> QED BY <1>1, ExcelInit, PTL DEF Spec

\* Every variable of the sheet, of the requests and of their calls has its type: no row
\* is written below or beside the sheet, however many rows are added and retried.
THEOREM ExcelTypeCorrect == Spec => []TypeOK
  <1>1. ExcelInv => TypeOK
    BY DEF ExcelInv
  <1> QED BY <1>1, ExcelInvariant, PTL

\* excel_edit._append_to_table and Graph's rows/add: what was added to the table stays
\* inside its ref and under its header, in both modes, whatever else is written or moved.
THEOREM RowsStayInTheirTable == Spec => []TableRowsStayInTable
  <1>1. ExcelInv => TableRowsStayInTable
    BY DEF ExcelInv
  <1> QED BY <1>1, ExcelInvariant, PTL

\* append_excel_row: a request's values are in the sheet at most once for each attempt that
\* may have added them - a try of a call of _send, or a round of _append_row_by_download -
\* and a sheet row in graph mode only once, unless the cells it goes to were moved.
THEOREM AddedOncePerAttempt == Spec => []LandsOncePerAttempt
  <1>1. ASSUME ExcelInv PROVE LandsOncePerAttempt
    <2>1. ASSUME NEW r \in Requests
          PROVE  Cardinality(Cells(grid, r)) <=
                   Given(r) * (IF mode = "graph" /\ place[r] = "sheet" /\ ~stale[r] THEN 1
                               ELSE tries[r] + 1)
      <3> DEFINE n == Cardinality(Cells(grid, r))
                 k == Given(r)
      <3>1. TypeOK /\ SheetInv /\ ControlInv(r) /\ CountInv(r)
        BY <1>1 DEF ExcelInv, RequestInv
      <3>2. k \in Nat /\ n \in Nat
        BY <3>1, OrderedFits, SheetFinite
      <3>3. tries[r] \in Nat
        BY <3>1 DEF TypeOK
      <3>4. n <= k * (tries[r] + IF pc[r] = "done" THEN 1 ELSE 0)
        BY <3>1 DEF CountInv
      <3>5. mode = "graph" /\ place[r] = "sheet" /\ ~stale[r] => n <= k
        BY <1>1, <3>1, SheetCount DEF CountInv
      <3> HIDE DEF n, k
      <3>6. n <= k * (tries[r] + 1)
        <4>1. CASE pc[r] = "done"
          BY <3>4, <4>1
        <4>2. CASE pc[r] # "done"
          <5>1. n <= k * tries[r]
            BY <3>3, <3>4, <4>2
          <5> QED BY <3>2, <3>3, <5>1, CountGrows
        <4> QED BY <4>1, <4>2
      <3>7. CASE mode = "graph" /\ place[r] = "sheet" /\ ~stale[r]
        <4>1. n <= k * 1
          BY <3>2, <3>5, <3>7
        <4> QED BY <3>7, <4>1 DEF n, k
      <3>8. CASE ~(mode = "graph" /\ place[r] = "sheet" /\ ~stale[r])
        BY <3>6, <3>8 DEF n, k
      <3> QED BY <3>7, <3>8
    <2> QED BY <2>1 DEF LandsOncePerAttempt, Given, Marks
  <1> QED BY <1>1, ExcelInvariant, PTL

\* No step of a request or of a person destroys data, in either mode, but the PATCH of a
\* sheet row whose used range was read before the sheet changed, and the last part of an
\* upload session during which somebody saved the file.
THEOREM DataIsKept == Spec => DataLostOnlyToStaleRow
  <1>1. ASSUME ExcelInv, [Next]_vars
        PROVE  [\A v \in Values \ {Blank} :
                  Cardinality(Cells(grid', v)) < Cardinality(Cells(grid, v)) =>
                    \E r \in Requests :
                      /\ pc'[r] # pc[r] \/ tries'[r] # tries[r]
                      /\ (pc[r] = "patch" /\ stale[r]) \/ (pc[r] = "chunk" /\ r \notin current)]_vars
    <2>1. CASE LosesNothing
      <3>1. ASSUME NEW v \in Values \ {Blank}
            PROVE  ~(Cardinality(Cells(grid', v)) < Cardinality(Cells(grid, v)))
        <4>1. Cardinality(Cells(grid', v)) \in Nat /\ Cardinality(Cells(grid, v)) \in Nat
              /\ Cardinality(Cells(grid, v)) <= Cardinality(Cells(grid', v))
          BY <2>1, SheetFinite DEF LosesNothing, NoneLost
        <4> QED BY <4>1
      <3> QED BY <3>1
    <2>2. CASE \E r \in Requests : LateWrite(r)
      BY <2>2 DEF LateWrite
    <2> QED BY <1>1, <2>1, <2>2, ExcelNext
  <1> QED BY <1>1, ExcelInvariant, PTL DEF Spec, DataLostOnlyToStaleRow

\* append_excel_row: when a caller is told that its row was added, the row is where the
\* answer says, each value in its column, with nothing below it - in download mode always,
\* in graph mode as long as what the request was told of the sheet or the table is still so.
THEOREM RowGoesToTheEnd == Spec => RowIsAtTheEnd
  <1> DEFINE Right(r) ==
        LET ofTable == place[r] = "table"
            row == IF ofTable THEN table'.top + answer'[r].row ELSE answer'[r].row
            left == IF ofTable THEN table'.left ELSE LeftEdge(grid', row)
            cells == IF ofTable THEN Ordered(r)' ELSE sent[r].cells
            cs == IF ofTable THEN Columns(table') ELSE Cols
        IN  /\ \A i \in DOMAIN cells : cells[i] <=> grid'[row][left + i - 1] = r
            /\ \A s \in Rows : s > row /\ (ofTable => s <= table'.bottom) =>
                  IsBlankRow(grid', s, cs)
  <1>1. ASSUME ExcelInv, [Next]_vars
        PROVE  \A r \in Requests :
                 answer'[r].status = "added" /\ pc[r] # "done" /\ ~stale[r] => Right(r)
    <2>1. sent' = sent
      BY <1>1, ExcelNext
    <2>2. ASSUME NEW r \in Requests, AtTheEnd(r) PROVE Right(r)
      <3>1. Ordered(r)' = OrderedBy(columns', r)
        BY <2>1 DEF Ordered, OrderedBy
      <3> QED BY <2>2, <3>1, Zenon DEF AtTheEnd, AtEnd, Shows
    <2> HIDE DEF Right
    <2> QED BY <1>1, <2>2, ExcelNext
  <1> QED BY <1>1, ExcelInvariant, PTL DEF Spec, RowIsAtTheEnd

=============================================================================
