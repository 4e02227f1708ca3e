-------------------------- MODULE FolderReadProofs --------------------------
(***************************************************************************)
(* Theorems about FolderRead, for every library, page size, limit, path    *)
(* and sequence of changes:                                                *)
(*   - TypeCorrect: the type invariant;                                    *)
(*   - StaysInRoot: no Graph call leaves the configured folder;            *)
(*   - ListingsTrue: a listing reports what was there, each once;          *)
(*   - ListingsComplete: and all that stayed while it ran;                 *)
(*   - ReadsAreHonest: a read gives what lay at its path, or a true reason.*)
(*                                                                         *)
(* The inductive invariant says what is known of the URL and path until    *)
(* they are parsed (StartInv), how the tree and what was seen of it hang   *)
(* together (TreeInv), what a read holds (ReadInv), and of a listing which *)
(* folders wait in its queue (QueueInv), which entries they have given     *)
(* (EntryInv) and where everything that stays will be met (LastingInv).    *)
(***************************************************************************)
EXTENDS FolderRead, PathProofs

\* The folder that the request names.
Base == root \o rel

\* From when the path is split, everything that is seen is recorded.
Watching == pc \notin {"start", "admit"} /\ configured # <<>>

KindsSeen(p) == {x.kind : x \in seen[p]}

Listed == {entries[i].path : i \in DOMAIN entries}

StartInv ==
    /\ pc = "start" => /\ \/ configured \in Roots /\ url \in UrlsOf(Site, configured)
                          \/ configured = <<>> /\ url \in WrongUrls
                       /\ root = <<>>
    /\ pc # "start" /\ configured # <<>> => root = configured
    /\ configured = <<>> => pc \in {"start", "done"} /\ addressed = {}
    /\ pc \in {"start", "admit"} =>
          /\ path \in RawPaths /\ rel = <<>> /\ addressed = {} /\ entries = <<>>
          /\ queue = <<>> /\ cursor = 0
          /\ configured # <<>> => tree[configured].kind = "directory"
    /\ pc = "look" => addressed = {} /\ entries = <<>> /\ cursor = 0
    /\ IF pc = "done" THEN answer = "config_error" <=> configured = <<>>
       ELSE answer = "none"
    /\ \A p \in addressed : IsPrefix(configured, p)

TreeInv ==
    /\ InFolders(tree)
    /\ Watching => /\ \A p \in Places : tree[p] \in seen[p]
                   /\ "directory" \in KindsSeen(configured)
                   /\ \A p, q \in Places : IsStrictPrefix(p, q) /\ Nothing \notin seen[q]
                                              => KindsSeen(p) = {"directory"}
                   /\ \A p \in Places :
                         {"directory", "file"} \subseteq KindsSeen(p) => Nothing \in seen[p]

ReadInv ==
    /\ operation = "read" => pc # "page" /\ entries = <<>>
    /\ pc \in {"content", "redirected"} =>
          /\ operation = "read" /\ item.kind = "file"
          /\ Base \in Places /\ item \in seen[Base]
          /\ \/ Nothing \in seen[Base]
             \/ tree[Base].kind = "file" /\ tree[Base].id = item.id

QueueInv ==
    pc = "page" =>
        /\ queue # <<>> /\ IsInjective(queue)
        /\ Len(entries) < MAX_ITEMS
        /\ operation = "list" => queue = <<rel>>
        /\ \A k \in DOMAIN queue :
              /\ queue[k] \in {rel} \cup Listed
              /\ IsPrefix(rel, queue[k])
              /\ root \o queue[k] \in Places /\ "directory" \in KindsSeen(root \o queue[k])

EntryInv ==
    /\ \A i \in DOMAIN entries :
          /\ root \o entries[i].path \in Places
          /\ entries[i].kind \in KindsSeen(root \o entries[i].path)
    /\ IsInjective([i \in DOMAIN entries |-> entries[i].path])
    /\ pc = "page" => \A q \in Listed :
          /\ q # <<>>
          /\ Front(q) \in {rel} \cup Listed
          /\ \A k \in 2 .. Len(queue) : queue[k] # Front(q)
          /\ Front(q) = Head(queue) => Position(Last(q)) <= cursor

\* What lies below the folder throughout, relative to the root.
Stays(p) ==
    /\ p \in Places /\ IsStrictPrefix(Base, p) /\ Nothing \notin seen[p]
    /\ operation = "list" => Len(p) = Len(Base) + 1

\* A place as the entries name it.
FromRoot(p) == SubSeq(p, Len(root) + 1, Len(p))

\* Such an entry is listed, or its folder waits and will still come to it, or the folder
\* above it is itself not listed yet.
Met(q) ==
    \/ q \in Listed
    \/ /\ \E k \in DOMAIN queue : queue[k] = Front(q)
       /\ Front(q) = Head(queue) => Position(Last(q)) > cursor
    \/ Front(q) \notin {rel} \cup Listed

LastingInv == pc = "page" => \A p \in Places : Stays(p) => Met(FromRoot(p))

ReadingInv ==
    /\ TypeOK /\ StartInv /\ TreeInv /\ ReadInv /\ QueueInv /\ EntryInv /\ LastingInv
    /\ ListedWasThere /\ ListingIsComplete /\ ReadIsHonest

-----------------------------------------------------------------------------
(* The library and its changes.                                            *)

\* Three kinds, and only one item of the kind "none".
LEMMA ItemKinds ==
  \A x \in Items \cup {Nothing} :
     x.kind \in {"file", "directory", "none"} /\ (x.kind = "none" <=> x = Nothing)
  BY DEF Items, Nothing

\* A place is its folder and a name, and all above it are places too.
LEMMA PlaceFacts ==
  ASSUME NEW p \in Places
  PROVE  /\ p \in Seq(Names) /\ p # <<>> /\ Len(p) \in Nat \ {0}
         /\ \A q \in Seq(Names) : q # <<>> /\ IsPrefix(q, p) => q \in Places
         /\ Front(p) \in Seq(Names) /\ Len(Front(p)) = Len(p) - 1 /\ Last(p) \in Names
         /\ p = Append(Front(p), Last(p))
         /\ Len(p) > 1 => Front(p) \in Places
  <1>1. p \in Seq(Names) /\ p # <<>>
    BY SiteAssumption
  <1>2. /\ Front(p) \in Seq(Names) /\ Len(Front(p)) = Len(p) - 1 /\ Last(p) \in Names
        /\ p = Append(Front(p), Last(p)) /\ Len(p) \in Nat \ {0}
    BY <1>1, FrontAndLast
  <1>3. ASSUME NEW q \in Seq(Names), q # <<>>, IsPrefix(q, p) PROVE q \in Places
    <2>1. Len(q) \in 1 .. Len(p)
      BY <1>2, <1>3 DEF IsPrefix
    <2>2. SubSeq(q, 1, Len(q)) = q
      BY SubSeqFull
    <2> QED BY <1>3, <2>1, <2>2, SiteAssumption DEF IsPrefix
  <1>4. ASSUME Len(p) > 1 PROVE Front(p) \in Places
    <2>1. Len(p) - 1 \in 1 .. Len(p)
      BY <1>2, <1>4
    <2> QED BY <2>1, SiteAssumption DEF Front
  <1> QED BY <1>1, <1>2, <1>3, <1>4

\* What a change may do to a library.
Follows(t, u) ==
    /\ u \in [Places -> Items \cup {Nothing}] /\ InFolders(u)
    /\ \A p \in Places :
          /\ u[p].kind # t[p].kind => t[p] = Nothing \/ u[p] = Nothing
          /\ t[p].kind = "file" /\ u[p].kind = "file" => u[p].id = t[p].id

\* Changes keep folders above items, never turn one kind into another at once, and never
\* give a file another id.
LEMMA CreatedFollows ==
  ASSUME TypeOK, InFolders(tree), NEW p \in Places, Len(p) > 1, Empty(p), NEW i \in Items
  PROVE  Follows(tree, [tree EXCEPT ![p] = i])
  <1> DEFINE t == [tree EXCEPT ![p] = i]
  <1>1. tree \in [Places -> Items \cup {Nothing}]
    BY DEF TypeOK
  <1>2. t \in [Places -> Items \cup {Nothing}] /\ t[p] = i
        /\ \A x \in Places : x # p => t[x] = tree[x]
    BY <1>1
  <1>3. tree[p] = Nothing /\ Front(p) \in Places /\ tree[Front(p)].kind = "directory"
    BY <1>1, ItemKinds, PlaceFacts DEF Empty, At
  <1> HIDE DEF t
  <1>4. ASSUME NEW x \in Places, NEW y \in Places, IsStrictPrefix(x, y), t[y] # Nothing
        PROVE  t[x].kind = "directory"
    <2>1. CASE y = p
      <3>1. IsPrefix(x, Front(p)) /\ x # p
        BY <1>4, <2>1, PlaceFacts, PrefixOfFront DEF IsStrictPrefix
      <3>2. t[x] = tree[x]
        BY <1>2, <3>1
      <3>3. CASE x = Front(p)
        BY <1>3, <3>2, <3>3
      <3>4. CASE x # Front(p)
        <4>1. IsStrictPrefix(x, Front(p)) /\ tree[Front(p)] # Nothing
          BY <1>3, <3>1, <3>4 DEF IsStrictPrefix, Nothing
        <4> QED BY <1>3, <3>2, <4>1 DEF InFolders
      <3> QED BY <3>3, <3>4
    <2>2. CASE y # p
      <3>1. tree[y] # Nothing
        BY <1>2, <1>4, <2>2
      <3>2. tree[x].kind = "directory"
        BY <1>4, <3>1 DEF InFolders
      <3>3. x # p
        BY <1>3, <3>2 DEF Nothing
      <3> QED BY <1>2, <3>2, <3>3
    <2> QED BY <2>1, <2>2
  <1>5. \A x \in Places : t[x] = tree[x] \/ tree[x] = Nothing
    BY <1>2, <1>3
  <1>6. \A x \in Places : tree[x] = Nothing => tree[x].kind # "file"
    BY DEF Nothing
  <1> QED BY <1>2, <1>4, <1>5, <1>6 DEF Follows, InFolders, t

LEMMA SavedFollows ==
  ASSUME TypeOK, InFolders(tree), NEW p \in Places, tree[p].kind = "file", NEW n \in Sizes
  PROVE  Follows(tree, [tree EXCEPT ![p].size = n])
  <1> DEFINE i == [tree[p] EXCEPT !.size = n]
             t == [tree EXCEPT ![p] = i]
  <1>1. tree \in [Places -> Items \cup {Nothing}]
    BY DEF TypeOK
  <1>2. tree[p] \in Items
    BY <1>1 DEF Nothing
  <1>3. i \in Items /\ i.kind = "file" /\ i.id = tree[p].id
    BY <1>2 DEF Items
  <1> HIDE DEF i
  <1>4. t \in [Places -> Items \cup {Nothing}] /\ t[p] = i
        /\ \A x \in Places : x # p => t[x] = tree[x]
    BY <1>1, <1>3
  <1> HIDE DEF t
  <1>5. \A x \in Places : t[x] # Nothing <=> tree[x] # Nothing
    BY <1>3, <1>4 DEF Nothing
  <1>6. \A x \in Places : t[x].kind = tree[x].kind /\ t[x].id = tree[x].id
    BY <1>3, <1>4
  <1>7. InFolders(t)
    BY <1>5, <1>6 DEF InFolders
  <1> QED BY <1>4, <1>6, <1>7 DEF Follows, t, i

LEMMA DeletedFollows ==
  ASSUME TypeOK, InFolders(tree), NEW p \in Places
  PROVE  Follows(tree, [q \in Places |-> IF IsPrefix(p, q) THEN Nothing ELSE tree[q]])
  <1> DEFINE t == [q \in Places |-> IF IsPrefix(p, q) THEN Nothing ELSE tree[q]]
  <1>1. tree \in [Places -> Items \cup {Nothing}]
    BY DEF TypeOK
  <1>2. t \in [Places -> Items \cup {Nothing}]
    BY <1>1
  <1>3. \A x \in Places : t[x] = IF IsPrefix(p, x) THEN Nothing ELSE tree[x]
    OBVIOUS
  <1> HIDE DEF t
  <1>4. ASSUME NEW x \in Places, NEW y \in Places, IsStrictPrefix(x, y), t[y] # Nothing
        PROVE  t[x].kind = "directory"
    <2>1. ~IsPrefix(p, y) /\ tree[y] # Nothing
      BY <1>3, <1>4
    <2>2. tree[x].kind = "directory"
      BY <1>4, <2>1 DEF InFolders
    <2>3. ~IsPrefix(p, x)
      <3>1. p \in Seq(Names) /\ x \in Seq(Names) /\ y \in Seq(Names) /\ IsPrefix(x, y)
        BY <1>4, PlaceFacts DEF IsStrictPrefix
      <3> QED BY <2>1, <3>1, PrefixOrder
    <2> QED BY <1>3, <2>2, <2>3
  <1>5. \A x \in Places : t[x] = tree[x] \/ t[x] = Nothing
    BY <1>3
  <1> QED BY <1>2, <1>4, <1>5 DEF Follows, InFolders, Nothing, t

LEMMA MovedFollows ==
  ASSUME TypeOK, InFolders(tree), NEW p \in Places, NEW q \in Places, Len(q) > 1,
         Empty(q), ~IsPrefix(p, q)
  PROVE  LET from(x) == p \o SubSeq(x, Len(q) + 1, Len(x)) IN
         Follows(tree, [x \in Places |-> IF IsPrefix(q, x) THEN At(from(x))
                                         ELSE IF IsPrefix(p, x) THEN Nothing ELSE tree[x]])
  <1> DEFINE rest(x) == SubSeq(x, Len(q) + 1, Len(x))
             from(x) == p \o rest(x)
             t == [x \in Places |-> IF IsPrefix(q, x) THEN At(from(x))
                                    ELSE IF IsPrefix(p, x) THEN Nothing ELSE tree[x]]
  <1>1. tree \in [Places -> Items \cup {Nothing}]
    BY DEF TypeOK
  <1>2. \A x : At(x) \in Items \cup {Nothing} /\ (At(x) # Nothing => x \in Places)
    BY <1>1 DEF At
  <1>3. t \in [Places -> Items \cup {Nothing}]
    BY <1>1, <1>2
  <1>4. \A x \in Places : t[x] = IF IsPrefix(q, x) THEN At(from(x))
                                 ELSE IF IsPrefix(p, x) THEN Nothing ELSE tree[x]
    OBVIOUS
  <1> HIDE DEF t
  <1>5. p \in Seq(Names) /\ q \in Seq(Names) /\ p # <<>> /\ \A x \in Places : x \in Seq(Names)
    BY PlaceFacts
  <1>6. ASSUME NEW x \in Places, IsPrefix(q, x)
        PROVE  rest(x) \in Seq(Names) /\ x = q \o rest(x) /\ from(x) \in Seq(Names)
    BY <1>5, <1>6, Remainder, ConcatProperties
  <1>7. tree[q] = Nothing /\ Front(q) \in Places /\ tree[Front(q)].kind = "directory"
    BY <1>1, ItemKinds, PlaceFacts DEF Empty, At
  <1>8. ASSUME NEW x \in Places, IsPrefix(q, x) PROVE tree[x] = Nothing
    <2>1. tree[q].kind # "directory"
      BY <1>7 DEF Nothing
    <2> QED BY <1>7, <1>8, <2>1 DEF InFolders, IsStrictPrefix
  <1>9. ASSUME NEW x \in Places, NEW y \in Places, IsStrictPrefix(x, y), t[y] # Nothing
        PROVE  t[x].kind = "directory"
    <2>1. x \in Seq(Names) /\ y \in Seq(Names) /\ IsPrefix(x, y) /\ x # y
      BY <1>5, <1>9 DEF IsStrictPrefix
    <2>2. CASE IsPrefix(q, x)
      <3>1. IsPrefix(q, y)
        BY <1>5, <2>1, <2>2, PrefixOrder
      <3>2. rest(x) \in Seq(Names) /\ x = q \o rest(x) /\ from(x) \in Seq(Names)
        BY <1>6, <2>2
      <3>3. rest(y) \in Seq(Names) /\ y = q \o rest(y) /\ from(y) \in Seq(Names)
        BY <1>6, <3>1
      <3>4. from(y) \in Places /\ tree[from(y)] # Nothing
        BY <1>2, <1>4, <1>9, <3>1 DEF At
      <3> DEFINE rx == rest(x)
                 ry == rest(y)
      <3>5. rx \in Seq(Names) /\ ry \in Seq(Names) /\ IsPrefix(q \o rx, q \o ry) /\ rx # ry
        BY <2>1, <3>2, <3>3
      <3> HIDE DEF rx, ry
      <3>6. IsPrefix(rx, ry)
        BY <1>5, <3>5, PrefixConcat
      <3>7. IsPrefix(p \o rx, p \o ry) /\ p \o rx # p \o ry /\ IsPrefix(p, p \o rx)
        <4>1. p \in Seq(Names) /\ rx \in Seq(Names) /\ ry \in Seq(Names)
          BY <1>5, <3>5
        <4>2. IsPrefix(p \o rx, p \o ry) <=> IsPrefix(rx, ry)
          BY <4>1, PrefixConcat
        <4>3. p \o rx = p \o ry => rx = ry
          BY <4>1, Cancel
        <4>4. IsPrefix(p, p \o rx)
          BY <4>1, PrefixConcat
        <4> QED BY <3>5, <3>6, <4>2, <4>3, <4>4
      <3>8. IsStrictPrefix(from(x), from(y)) /\ from(x) # <<>>
        <4>1. p \o rx # <<>>
          <5>1. Len(p \o rx) = Len(p) + Len(rx) /\ Len(p) \in Nat \ {0} /\ Len(rx) \in Nat
            BY <1>5, <3>5, ConcatProperties, PlaceFacts
          <5>2. Len(<<>>) = 0 /\ Len(p) + Len(rx) # 0
            BY <5>1
          <5> QED BY <5>1, <5>2
        <4> QED BY <3>7, <4>1 DEF IsStrictPrefix, rx, ry
      <3>9. from(x) \in Places
        BY <3>2, <3>4, <3>8, PlaceFacts DEF IsStrictPrefix
      <3>10. tree[from(x)].kind = "directory"
        BY <3>4, <3>8, <3>9 DEF InFolders
      <3> QED BY <1>4, <2>2, <3>9, <3>10 DEF At
    <2>3. CASE ~IsPrefix(q, x) /\ IsPrefix(q, y)
      <3>1. IsPrefix(x, q) /\ x # q
        BY <1>5, <2>1, <2>3, PrefixOrder
      <3>2. IsPrefix(x, Front(q))
        BY <1>5, <3>1, PlaceFacts, PrefixOfFront DEF IsStrictPrefix
      <3>3. ~IsPrefix(p, x)
        BY <1>5, <2>1, <3>1, PrefixOrder
      <3>4. tree[x].kind = "directory"
        <4>1. CASE x = Front(q)
          BY <1>7, <4>1
        <4>2. CASE x # Front(q)
          <5>1. IsStrictPrefix(x, Front(q)) /\ tree[Front(q)] # Nothing
            BY <1>7, <3>2, <4>2 DEF IsStrictPrefix, Nothing
          <5> QED BY <1>7, <5>1 DEF InFolders
        <4> QED BY <4>1, <4>2
      <3> QED BY <1>4, <2>3, <3>3, <3>4
    <2>4. CASE ~IsPrefix(q, x) /\ ~IsPrefix(q, y)
      <3>1. ~IsPrefix(p, y) /\ tree[y] # Nothing
        BY <1>4, <1>9, <2>4
      <3>2. ~IsPrefix(p, x)
        BY <1>5, <2>1, <3>1, PrefixOrder
      <3>3. tree[x].kind = "directory"
        BY <1>9, <3>1 DEF InFolders
      <3> QED BY <1>4, <2>4, <3>2, <3>3
    <2> QED BY <2>2, <2>3, <2>4
  <1>10. \A x \in Places : t[x] = tree[x] \/ t[x] = Nothing \/ tree[x] = Nothing
    BY <1>4, <1>8
  <1>11. InFolders(t)
    BY <1>9 DEF InFolders
  <1>12. Follows(tree, t)
    BY <1>3, <1>10, <1>11 DEF Follows, Nothing
  <1> QED BY <1>12 DEF t

\* Whatever happens in the library, it goes on as a library does.
LEMMA WorldSteps ==
  ASSUME TypeOK, InFolders(tree), World
  PROVE  \E t : Becomes(t) /\ Follows(tree, t)
  <1>1. PICK p \in Places : /\ Len(p) > 1
                            /\ \/ Created(p) \/ Saved(p) \/ Deleted(p)
                               \/ \E q \in Places : Len(q) > 1 /\ Moved(p, q)
    BY DEF World
  <1>2. CASE Created(p)
    <2>1. NextId \in Nat
      <3>1. FirstId \in Nat /\ MaxChanges \in Nat
        BY ReadAssumption
      <3>2. changes \in 0 .. MaxChanges
        BY DEF TypeOK
      <3> QED BY <3>1, <3>2 DEF NextId
    <2>2. \A n \in Sizes : [kind |-> "file", id |-> NextId, size |-> n] \in Items
      BY <2>1 DEF Items
    <2>3. [kind |-> "directory", id |-> NextId, size |-> 0] \in Items
      BY <2>1 DEF Items
    <2>4. PICK i \in Items : Becomes([tree EXCEPT ![p] = i])
      BY <1>2, <2>2, <2>3 DEF Created
    <2>5. Follows(tree, [tree EXCEPT ![p] = i])
      BY <1>1, <1>2, CreatedFollows DEF Created
    <2> QED BY <2>4, <2>5
  <1>3. CASE Saved(p)
    <2>1. PICK n \in Sizes : Becomes([tree EXCEPT ![p].size = n])
      BY <1>3 DEF Saved
    <2>2. Follows(tree, [tree EXCEPT ![p].size = n])
      BY <1>3, SavedFollows DEF Saved
    <2> QED BY <2>1, <2>2
  <1>4. CASE Deleted(p)
    BY <1>4, DeletedFollows DEF Deleted
  <1>5. CASE \E q \in Places : Len(q) > 1 /\ Moved(p, q)
    <2>1. PICK q \in Places : Len(q) > 1 /\ Moved(p, q)
      BY <1>5
    <2>2. Empty(q) /\ ~IsPrefix(p, q)
      BY <2>1 DEF Moved
    <2> QED BY <2>1, <2>2, MovedFollows DEF Moved
  <1> QED BY <1>1, <1>2, <1>3, <1>4, <1>5

-----------------------------------------------------------------------------
(* The steps of the library, and those that only wait.                     *)

\* While the library changes, the request only sees more.
LEMMA WorldKeeps ==
  ASSUME ReadingInv, World
  PROVE  ReadingInv'
  <1>1. TypeOK /\ StartInv /\ TreeInv /\ ReadInv /\ QueueInv /\ EntryInv /\ LastingInv
    BY DEF ReadingInv
  <1>2. PICK t : Becomes(t) /\ Follows(tree, t)
    BY <1>1, WorldSteps DEF TreeInv
  <1>3. /\ changes' = changes + 1 /\ changes < MaxChanges
        /\ tree' = t /\ seen' = [p \in Places |-> seen[p] \cup {t[p]}]
        /\ t \in [Places -> Items \cup {Nothing}] /\ InFolders(t)
    BY <1>2 DEF Becomes, Follows
  <1>4. /\ configured' = configured /\ url' = url /\ root' = root /\ path' = path /\ rel' = rel
        /\ operation' = operation /\ pc' = pc /\ queue' = queue /\ cursor' = cursor
        /\ entries' = entries /\ item' = item /\ content' = content /\ tries' = tries
        /\ answer' = answer /\ addressed' = addressed
    BY <1>2 DEF Becomes, inputs, listing, reading
  <1>5. pc \in {"look", "page", "content", "redirected"} /\ answer = "none" /\ configured # <<>>
    BY <1>1, <1>2 DEF Becomes, Calling, StartInv
  <1>6. seen \in [Places -> SUBSET (Items \cup {Nothing})]
    BY <1>1 DEF TypeOK
  <1>7. ASSUME NEW p \in Places
        PROVE  /\ seen'[p] = seen[p] \cup {t[p]}
               /\ KindsSeen(p)' = KindsSeen(p) \cup {t[p].kind}
    BY <1>3, <1>7 DEF KindsSeen
  <1>8. Base' = Base /\ Listed' = Listed /\ \A p : FromRoot(p)' = FromRoot(p)
    BY <1>4 DEF Base, Listed, FromRoot
  <1>9. TypeOK'
    <2>1. seen' \in [Places -> SUBSET (Items \cup {Nothing})]
      BY <1>3, <1>6
    <2>2. changes' \in 0 .. MaxChanges
      <3>1. MaxChanges \in Nat
        BY ReadAssumption
      <3>2. changes \in 0 .. MaxChanges
        BY <1>1 DEF TypeOK
      <3> QED BY <1>3, <3>1, <3>2
    <2> QED BY <1>1, <1>3, <1>4, <2>1, <2>2 DEF TypeOK
  <1>10. StartInv'
    BY <1>1, <1>4, <1>5 DEF StartInv
  <1>11. TreeInv'
    <2>1. Watching /\ Watching' /\ InFolders(tree)'
      BY <1>3, <1>4, <1>5 DEF Watching, InFolders
    <2>2. \A p \in Places : tree'[p] \in seen'[p]
      BY <1>3, <1>7
    <2>3. ("directory" \in KindsSeen(configured))'
      <3>1. configured \in Places
        BY <1>1, <1>5, SiteAssumption DEF TypeOK
      <3>2. "directory" \in KindsSeen(configured)
        BY <1>1, <2>1 DEF TreeInv
      <3>3. KindsSeen(configured)' = {x.kind : x \in seen'[configured]}
        BY <1>4 DEF KindsSeen
      <3> QED BY <1>7, <3>1, <3>2, <3>3 DEF KindsSeen
    <2>4. ASSUME NEW p \in Places, NEW q \in Places, IsStrictPrefix(p, q), Nothing \notin seen'[q]
          PROVE  KindsSeen(p)' = {"directory"}
      <3>1. Nothing \notin seen[q] /\ t[q] # Nothing
        BY <1>7, <2>4
      <3>2. KindsSeen(p) = {"directory"}
        BY <1>1, <2>1, <2>4, <3>1 DEF TreeInv
      <3>3. t[p].kind = "directory"
        BY <1>3, <2>4, <3>1 DEF InFolders
      <3> QED BY <1>7, <3>2, <3>3
    <2>5. ASSUME NEW p \in Places, {"directory", "file"} \subseteq KindsSeen(p)'
          PROVE  Nothing \in seen'[p]
      <3>1. CASE t[p] = Nothing \/ Nothing \in seen[p]
        BY <1>7, <3>1
      <3>2. CASE t[p] # Nothing /\ Nothing \notin seen[p]
        <4>1. tree[p] \in seen[p]
          BY <1>1, <2>1 DEF TreeInv
        <4>2. t[p].kind = tree[p].kind
          BY <1>2, <3>2, <4>1 DEF Follows
        <4>3. KindsSeen(p)' = KindsSeen(p)
          BY <1>7, <4>1, <4>2 DEF KindsSeen
        <4> QED BY <1>1, <2>1, <2>5, <3>2, <4>3 DEF TreeInv
      <3> QED BY <3>1, <3>2
    <2> QED BY <2>1, <2>2, <2>3, <2>4, <2>5 DEF TreeInv
  <1>12. ReadInv'
    <2>1. ASSUME pc \in {"content", "redirected"}
          PROVE  /\ operation = "read" /\ item.kind = "file"
                 /\ Base \in Places /\ item \in seen'[Base]
                 /\ \/ Nothing \in seen'[Base]
                    \/ t[Base].kind = "file" /\ t[Base].id = item.id
      <3>1. /\ operation = "read" /\ item.kind = "file" /\ Base \in Places /\ item \in seen[Base]
            /\ \/ Nothing \in seen[Base]
               \/ tree[Base].kind = "file" /\ tree[Base].id = item.id
        BY <1>1, <2>1 DEF ReadInv
      <3>2. seen'[Base] = seen[Base] \cup {t[Base]}
        BY <1>7, <3>1
      <3>3. CASE tree[Base].kind = "file" /\ tree[Base].id = item.id /\ t[Base] # Nothing
        <4>1. tree[Base] # Nothing
          BY <3>3 DEF Nothing
        <4>2. t[Base].kind = "file"
          BY <1>2, <3>1, <3>3, <4>1 DEF Follows
        <4>3. t[Base].id = item.id
          BY <1>2, <3>1, <3>3, <4>2 DEF Follows
        <4> QED BY <3>1, <3>2, <4>2, <4>3
      <3> QED BY <3>1, <3>2, <3>3
    <2> QED BY <1>1, <1>3, <1>4, <1>8, <2>1 DEF ReadInv
  <1>13. QueueInv'
    <2>1. ASSUME pc = "page", NEW k \in DOMAIN queue
          PROVE  "directory" \in KindsSeen(root \o queue[k])'
      <3>1. root \o queue[k] \in Places /\ "directory" \in KindsSeen(root \o queue[k])
        BY <1>1, <2>1 DEF QueueInv
      <3>2. KindsSeen(root \o queue[k])' = {x.kind : x \in seen'[root \o queue[k]]}
        BY <1>4 DEF KindsSeen
      <3> QED BY <1>7, <3>1, <3>2 DEF KindsSeen
    <2> QED BY <1>1, <1>4, <1>8, <2>1 DEF QueueInv
  <1>14. \A i \in DOMAIN entries : entries[i].kind \in KindsSeen(root \o entries[i].path)'
    <2> TAKE i \in DOMAIN entries
    <2>1. /\ root \o entries[i].path \in Places
          /\ entries[i].kind \in KindsSeen(root \o entries[i].path)
      BY <1>1 DEF EntryInv
    <2>2. KindsSeen(root \o entries[i].path)' = {x.kind : x \in seen'[root \o entries[i].path]}
      BY <1>4 DEF KindsSeen
    <2> QED BY <1>7, <2>1, <2>2 DEF KindsSeen
  <1>15. EntryInv'
    BY <1>1, <1>4, <1>8, <1>14 DEF EntryInv
  <1>16. LastingInv'
    <2>1. ASSUME NEW p \in Places PROVE Stays(p)' => Stays(p)
      BY <1>4, <1>7, <1>8 DEF Stays
    <2>2. ASSUME NEW p \in Places PROVE Met(FromRoot(p))' <=> Met(FromRoot(p))
      BY <1>4, <1>8 DEF Met
    <2> QED BY <1>1, <1>4, <2>1, <2>2 DEF LastingInv
  <1>17. ListedWasThere'
    BY <1>4, <1>5, <1>14, <1>15 DEF ListedWasThere, EntryInv, KindsSeen
  <1>18. ListingIsComplete' /\ ReadIsHonest'
    BY <1>4, <1>5 DEF ListingIsComplete, ReadIsHonest
  <1> QED BY <1>9, <1>10, <1>11, <1>12, <1>13, <1>15, <1>16, <1>17, <1>18 DEF ReadingInv

\* A request that waits, or is answered that Graph could not be used.
LEMMA WaitingKeeps ==
  ASSUME ReadingInv, Throttled \/ CallFails \/ UNCHANGED vars
  PROVE  ReadingInv'
  <1>1. TypeOK /\ StartInv /\ TreeInv /\ ReadInv /\ QueueInv /\ EntryInv /\ LastingInv
        /\ ListedWasThere /\ ListingIsComplete /\ ReadIsHonest
    BY DEF ReadingInv
  <1>2. /\ configured' = configured /\ url' = url /\ root' = root /\ path' = path /\ rel' = rel
        /\ operation' = operation /\ queue' = queue /\ cursor' = cursor /\ tree' = tree
        /\ entries' = entries /\ item' = item /\ content' = content /\ seen' = seen
        /\ addressed' = addressed /\ changes' = changes
    BY DEF Throttled, CallFails, Answer, vars, inputs, listing, reading
  <1>3. \/ pc' = pc /\ answer' = answer
        \/ /\ pc \in {"look", "page", "content", "redirected"}
           /\ pc' = "done" /\ answer' = "upstream"
    BY DEF Throttled, CallFails, Answer, Calling, vars
  <1>4. tries' \in 0 .. MAX_RETRIES
    <2>1. tries \in 0 .. MAX_RETRIES /\ MAX_RETRIES \in Nat
      BY <1>1, ReadAssumption DEF TypeOK
    <2>2. tries' = tries \/ (tries' = tries + 1 /\ tries < MAX_RETRIES)
      BY DEF Throttled, CallFails, Answer, vars
    <2> QED BY <2>1, <2>2
  <1>5. /\ Base' = Base /\ Listed' = Listed /\ \A p : FromRoot(p)' = FromRoot(p)
        /\ \A p : KindsSeen(p)' = KindsSeen(p) /\ Stays(p)' = Stays(p)
        /\ \A p : Met(FromRoot(p))' <=> Met(FromRoot(p))
    BY <1>2 DEF Base, Listed, FromRoot, KindsSeen, Stays, Met
  <1>6. TypeOK'
    BY <1>1, <1>2, <1>3, <1>4 DEF TypeOK
  <1>7. StartInv'
    BY <1>1, <1>2, <1>3 DEF StartInv
  <1>8. TreeInv'
    <2>1. Watching' => Watching
      BY <1>2, <1>3 DEF Watching
    <2>2. KindsSeen(configured)' = KindsSeen(configured)
      BY <1>2 DEF KindsSeen
    <2> QED BY <1>1, <1>2, <1>5, <2>1, <2>2 DEF TreeInv, InFolders
  <1>9. ReadInv'
    BY <1>1, <1>2, <1>3, <1>5 DEF ReadInv
  <1>10. QueueInv'
    <2>1. \A k : KindsSeen(root \o queue[k])' = KindsSeen(root \o queue[k])
      BY <1>2 DEF KindsSeen
    <2> QED BY <1>1, <1>2, <1>3, <1>5, <2>1 DEF QueueInv
  <1>11. EntryInv'
    <2>1. \A i : KindsSeen(root \o entries[i].path)' = KindsSeen(root \o entries[i].path)
      BY <1>2 DEF KindsSeen
    <2> QED BY <1>1, <1>2, <1>3, <1>5, <2>1 DEF EntryInv
  <1>12. LastingInv'
    BY <1>1, <1>2, <1>3, <1>5 DEF LastingInv
  <1>13. ListedWasThere'
    BY <1>1, <1>2, <1>3 DEF ListedWasThere
  <1>14. ListingIsComplete'
    BY <1>1, <1>2, <1>3 DEF ListingIsComplete
  <1>15. ReadIsHonest'
    BY <1>1, <1>2, <1>3 DEF ReadIsHonest
  <1> QED BY <1>6, <1>7, <1>8, <1>9, <1>10, <1>11, <1>12, <1>13, <1>14, <1>15 DEF ReadingInv

-----------------------------------------------------------------------------
(* From the URL and the path to the item.                                  *)

\* The client understands the URL, or refuses it (RootUrlUnderstood, OtherUrlRefused).
LEMMA ParseUrlKeeps ==
  ASSUME ReadingInv, ParseUrl
  PROVE  ReadingInv'
  <1>1. TypeOK /\ StartInv /\ TreeInv /\ EntryInv
    BY DEF ReadingInv
  <1>2. /\ configured' = configured /\ path' = path /\ rel' = rel /\ operation' = operation
        /\ queue' = queue /\ cursor' = cursor /\ tree' = tree /\ entries' = entries
        /\ item' = item /\ content' = content /\ seen' = seen /\ addressed' = addressed
        /\ changes' = changes /\ pc = "start"
    BY DEF ParseUrl, listing, reading
  <1>3. IF IsRootUrl(url) /\ SiteOf(url) = Site
        THEN root' = RootOf(url) /\ pc' = "admit" /\ answer' = answer /\ tries' = 0
        ELSE root' = root /\ pc' = "done" /\ answer' = "config_error" /\ tries' = tries
    BY DEF ParseUrl, SiteIsThere, Call, Answer
  <1>4. /\ entries = <<>> /\ queue = <<>> /\ cursor = 0 /\ addressed = {} /\ rel = <<>>
        /\ path \in RawPaths /\ answer = "none" /\ root = <<>>
        /\ configured # <<>> => tree[configured].kind = "directory"
    BY <1>1, <1>2 DEF StartInv
  <1>5. CASE configured \in Roots /\ url \in UrlsOf(Site, configured)
    <2>1. configured \in Places /\ configured \in Seq(Names) /\ configured # <<>>
      BY <1>5, SiteAssumption
    <2>2. Site \in Seq(STRING) /\ IsSite(Site)
      BY SiteAssumption
    <2>3. IsRootUrl(url) /\ SiteOf(url) = Site /\ RootOf(url) = configured
      BY <1>5, <2>1, <2>2, RootUrlUnderstood
    <2>4. root' = configured /\ pc' = "admit" /\ answer' = "none" /\ tries' = 0
      BY <1>3, <1>4, <2>3
    <2>5. TypeOK'
      <3>1. 0 \in 0 .. MAX_RETRIES
        BY ReadAssumption
      <3> QED BY <1>1, <1>2, <2>1, <2>4, <3>1 DEF TypeOK
    <2>6. StartInv'
      BY <1>2, <1>4, <2>1, <2>4 DEF StartInv
    <2>7. TreeInv'
      BY <1>1, <1>2, <2>4 DEF TreeInv, InFolders, Watching
    <2>8. EntryInv'
      BY <1>2, <1>4, <2>4 DEF EntryInv, IsInjective
    <2>9. ReadInv' /\ QueueInv' /\ LastingInv'
      BY <1>2, <1>4, <2>4 DEF ReadInv, QueueInv, LastingInv
    <2>10. ListedWasThere' /\ ListingIsComplete' /\ ReadIsHonest'
      BY <1>2, <1>4, <2>4 DEF ListedWasThere, ListingIsComplete, ReadIsHonest, IsInjective
    <2> QED BY <2>5, <2>6, <2>7, <2>8, <2>9, <2>10 DEF ReadingInv
  <1>6. CASE configured = <<>> /\ url \in WrongUrls
    <2>1. Site \in Seq(STRING) /\ IsSite(Site) /\ url \in [path: Seq(STRING), id: Seq(STRING)]
          /\ (~IsPrefix(Site, ServerPath(url)) \/ (Site = <<>> /\ InSite(url)))
      BY <1>6, SiteAssumption
    <2>2. ~(IsRootUrl(url) /\ SiteOf(url) = Site)
      BY <2>1, OtherUrlRefused
    <2>3. root' = root /\ pc' = "done" /\ answer' = "config_error" /\ tries' = tries
      BY <1>3, <2>2
    <2>4. TypeOK'
      BY <1>1, <1>2, <2>3 DEF TypeOK
    <2>5. StartInv'
      BY <1>2, <1>4, <1>6, <2>3 DEF StartInv
    <2>6. TreeInv'
      BY <1>1, <1>2, <1>6, <2>3 DEF TreeInv, InFolders, Watching
    <2>7. EntryInv'
      BY <1>2, <1>4, <2>3 DEF EntryInv, IsInjective
    <2>8. ReadInv' /\ QueueInv' /\ LastingInv'
      BY <1>2, <1>4, <2>3 DEF ReadInv, QueueInv, LastingInv
    <2>9. ListedWasThere' /\ ListingIsComplete' /\ ReadIsHonest'
      BY <1>2, <1>4, <2>3 DEF ListedWasThere, ListingIsComplete, ReadIsHonest, IsInjective
    <2> QED BY <2>4, <2>5, <2>6, <2>7, <2>8, <2>9 DEF ReadingInv
  <1> QED BY <1>1, <1>2, <1>5, <1>6 DEF StartInv

\* Names have a position, counted from one.
LEMMA Positions ==
  ASSUME NEW n \in Names
  PROVE  /\ Position(n) \in DOMAIN NameOrder /\ NameOrder[Position(n)] = n
         /\ Position(n) \in 1 .. Len(NameOrder)
         /\ \A i \in DOMAIN NameOrder : NameOrder[i] = n => i = Position(n)
  <1>1. \E i \in DOMAIN NameOrder : NameOrder[i] = n
    BY NamesAreStrings
  <1>2. Position(n) \in DOMAIN NameOrder /\ NameOrder[Position(n)] = n
    BY <1>1 DEF Position
  <1>3. DOMAIN NameOrder = 1 .. Len(NameOrder)
    BY NamesAreStrings, LenProperties
  <1>4. ASSUME NEW i \in DOMAIN NameOrder, NameOrder[i] = n PROVE i = Position(n)
    BY <1>2, <1>4, NameAssumption DEF IsInjective
  <1> QED BY <1>2, <1>3, <1>4

\* What stays below the folder, as a path from the root.
LEMMA StayingPlace ==
  ASSUME root \in Seq(Names), rel \in Seq(Names), NEW p \in Places, IsStrictPrefix(Base, p)
  PROVE  /\ FromRoot(p) \in Seq(Names) /\ FromRoot(p) # <<>> /\ p = root \o FromRoot(p)
         /\ IsStrictPrefix(rel, FromRoot(p))
         /\ Front(FromRoot(p)) \in Seq(Names) /\ Last(FromRoot(p)) \in Names
         /\ FromRoot(p) = Append(Front(FromRoot(p)), Last(FromRoot(p)))
         /\ Front(p) = root \o Front(FromRoot(p))
         /\ Last(p) = Last(FromRoot(p))
         /\ Len(p) = Len(root) + Len(FromRoot(p))
  <1> DEFINE q == FromRoot(p)
  <1>1. p \in Seq(Names) /\ Base \in Seq(Names) /\ IsPrefix(Base, p) /\ Base # p
    BY PlaceFacts, ConcatProperties DEF Base, IsStrictPrefix
  <1>2. IsPrefix(root, Base)
    BY PrefixConcat DEF Base
  <1>3. IsPrefix(root, p)
    BY <1>1, <1>2, PrefixOrder
  <1>4. q \in Seq(Names) /\ p = root \o q
    BY <1>1, <1>3, Remainder DEF FromRoot
  <1> HIDE DEF q
  <1>5. IsPrefix(root \o rel, root \o q)
    BY <1>1, <1>4 DEF Base
  <1>6. IsPrefix(rel, q) /\ rel # q
    <2>1. IsPrefix(root \o rel, root \o q) <=> IsPrefix(rel, q)
      BY <1>4, PrefixConcat
    <2>2. rel # q
      BY <1>1, <1>4 DEF Base
    <2> QED BY <1>5, <2>1, <2>2
  <1>7. q # <<>>
    <2>1. Len(rel) <= Len(q) /\ Len(rel) \in Nat
      BY <1>6 DEF IsPrefix
    <2>2. ASSUME q = <<>> PROVE rel = <<>>
      BY <2>1, <2>2
    <2> QED BY <1>6, <2>2
  <1>8. Front(q) \in Seq(Names) /\ Last(q) \in Names /\ q = Append(Front(q), Last(q))
    BY <1>4, <1>7, FrontAndLast
  <1> DEFINE f == Front(q)
             l == Last(q)
  <1>9. f \in Seq(Names) /\ l \in Names /\ p = root \o Append(f, l)
    BY <1>4, <1>8
  <1> HIDE DEF f, l
  <1>10. root \o Append(f, l) = Append(root \o f, l) /\ root \o f \in Seq(Names)
    BY <1>9, ConcatAppend
  <1>11. Front(p) = root \o f /\ Last(p) = l
    <2> DEFINE g == root \o f
    <2>1. g \in Seq(Names) /\ p = Append(g, l)
      BY <1>9, <1>10
    <2> HIDE DEF g
    <2>2. Front(Append(g, l)) = g /\ Last(Append(g, l)) = l
      BY <1>9, <2>1, FrontOfAppend
    <2> QED BY <2>1, <2>2 DEF g
  <1>12. Len(p) = Len(root) + Len(q)
    BY <1>4, ConcatProperties
  <1> QED BY <1>4, <1>6, <1>7, <1>8, <1>11, <1>12 DEF q, f, l, IsStrictPrefix

\* A listing begins: its folder is all there is to read.
LEMMA ListingBegins ==
  ASSUME root' \in Seq(Names), rel' \in Seq(Names), Base' \in Places,
         ("directory" \in KindsSeen(Base))',
         pc' = "page", operation' # "read", queue' = <<rel'>>, cursor' = 0, entries' = <<>>
  PROVE  QueueInv' /\ EntryInv' /\ LastingInv'
  <1>1. /\ queue'[1] = rel' /\ DOMAIN queue' = {1} /\ queue' # <<>> /\ Len(queue') = 1
        /\ Head(queue') = rel' /\ DOMAIN entries' = {} /\ Len(entries') = 0
    <2> DEFINE r == rel'
    <2>1. queue' = <<r>>
      OBVIOUS
    <2> HIDE DEF r
    <2>2. /\ <<r>>[1] = r /\ DOMAIN <<r>> = {1} /\ <<r>> # <<>> /\ Len(<<r>>) = 1
          /\ Head(<<r>>) = r
      OBVIOUS
    <2> QED BY <2>1, <2>2 DEF r
  <1>2. Listed' = {}
    BY <1>1 DEF Listed
  <1>3. QueueInv'
    <2>1. IsInjective(queue')
      BY <1>1 DEF IsInjective
    <2>2. Len(entries') < MAX_ITEMS
      BY <1>1, ReadAssumption
    <2>3. IsPrefix(rel', rel')
      BY PrefixOrder
    <2>4. /\ root' \o rel' \in Places
          /\ "directory" \in KindsSeen(root \o rel)'
      BY DEF Base
    <2>5. ASSUME NEW k \in DOMAIN queue'
          PROVE  /\ queue'[k] \in {rel'} \cup Listed'
                 /\ IsPrefix(rel', queue'[k])
                 /\ root' \o queue'[k] \in Places
                 /\ "directory" \in KindsSeen(root \o queue[k])'
      <3>1. queue'[k] = rel'
        BY <1>1
      <3>2. KindsSeen(root \o queue[k])' = KindsSeen(root \o rel)'
        BY <3>1 DEF KindsSeen
      <3> QED BY <2>3, <2>4, <3>1, <3>2
    <2> QED BY <1>1, <2>1, <2>2, <2>5 DEF QueueInv
  <1>4. EntryInv'
    BY <1>1, <1>2 DEF EntryInv, IsInjective
  <1>5. LastingInv'
    <2>1. ASSUME NEW p \in Places, Stays(p)' PROVE Met(FromRoot(p))'
      <3> DEFINE q == FromRoot(p)'
      <3>1. Last(q) \in Names
        <4>1. IsStrictPrefix(Base', p)
          BY <2>1 DEF Stays
        <4>2. q = SubSeq(p, Len(root') + 1, Len(p)) /\ Base' = root' \o rel'
          BY DEF FromRoot, Base
        <4> DEFINE r == root'
                   l == rel'
        <4>3. r \in Seq(Names) /\ l \in Seq(Names) /\ IsStrictPrefix(r \o l, p)
          BY <4>1, <4>2
        <4> HIDE DEF r, l
        <4>4. p \in Seq(Names) /\ r \o l \in Seq(Names)
          BY <4>3, PlaceFacts, ConcatProperties
        <4>5. IsPrefix(r, p)
          <5>1. IsPrefix(r, r \o l)
            BY <4>3, PrefixConcat
          <5> QED BY <4>3, <4>4, <5>1, PrefixOrder DEF IsStrictPrefix
        <4>6. /\ SubSeq(p, Len(r) + 1, Len(p)) \in Seq(Names)
              /\ p = r \o SubSeq(p, Len(r) + 1, Len(p))
          BY <4>3, <4>4, <4>5, Remainder
        <4>7. Len(r) < Len(p)
          <5>1. Len(r \o l) < Len(p)
            BY <4>3, <4>4, PrefixOrder
          <5>2. Len(r \o l) = Len(r) + Len(l) /\ Len(r) \in Nat /\ Len(l) \in Nat
            BY <4>3, ConcatProperties
          <5> QED BY <4>4, <5>1, <5>2
        <4>8. SubSeq(p, Len(r) + 1, Len(p)) # <<>>
          <5>1. r \o <<>> = r
            BY <4>3, ConcatEmptySeq
          <5>2. ASSUME SubSeq(p, Len(r) + 1, Len(p)) = <<>> PROVE FALSE
            <6>1. p = r
              BY <4>6, <5>1, <5>2
            <6>2. Len(r) \in Nat
              BY <4>3
            <6> QED BY <4>7, <6>1, <6>2
          <5> QED BY <5>2
        <4>9. Last(SubSeq(p, Len(r) + 1, Len(p))) \in Names
          BY <4>6, <4>8, FrontAndLast
        <4> QED BY <4>2, <4>9 DEF r
      <3> HIDE DEF q
      <3>2. Position(Last(q)) > 0
        BY <3>1, Positions
      <3>3. \/ Front(q) \notin {rel'} \cup Listed'
            \/ /\ \E k \in DOMAIN queue' : queue'[k] = Front(q)
               /\ Front(q) = Head(queue') => Position(Last(q)) > cursor'
        BY <1>1, <1>2, <3>2
      <3> QED BY <3>3 DEF Met, q
    <2> QED BY <2>1 DEF LastingInv
  <1> QED BY <1>3, <1>4, <1>5

\* The path is split into names (AllowedAreNames); the root needs no look.
LEMMA AdmitKeeps ==
  ASSUME ReadingInv, Admit
  PROVE  ReadingInv'
  <1>1. TypeOK /\ StartInv /\ TreeInv
    BY DEF ReadingInv
  <1>2. /\ configured' = configured /\ url' = url /\ root' = root /\ operation' = operation
        /\ cursor' = cursor /\ tree' = tree /\ entries' = entries /\ item' = item
        /\ content' = content /\ addressed' = addressed /\ changes' = changes /\ pc = "admit"
        /\ seen' = [p \in Places |-> {tree[p]}]
    BY DEF Admit, reading
  <1>3. \/ /\ pc' = "done" /\ answer' = "bad_request" /\ tries' = tries /\ queue' = queue
           /\ rel' = rel \/ (IsAllowed(path) /\ rel' = split_path(path))
        \/ /\ IsAllowed(path) /\ rel' = split_path(path) /\ answer' = answer /\ tries' = 0
           /\ \/ pc' = "look" /\ queue' = queue /\ rel' # <<>>
              \/ pc' = "page" /\ queue' = <<rel'>> /\ rel' = <<>> /\ operation # "read"
    BY DEF Admit, Call, Answer
  <1>4. /\ entries = <<>> /\ queue = <<>> /\ cursor = 0 /\ addressed = {} /\ rel = <<>>
        /\ path \in Seq(STRING) /\ answer = "none" /\ configured # <<>> /\ root = configured
        /\ tree[configured].kind = "directory"
    BY <1>1, <1>2, ReadAssumption DEF StartInv
  <1>5. configured \in Places /\ root \in Seq(Names) /\ tree \in [Places -> Items \cup {Nothing}]
    BY <1>1, <1>4, SiteAssumption DEF TypeOK
  <1>6. rel' \in Seq(Names)
    <2>1. <<>> \in Seq(Names)
      OBVIOUS
    <2>2. IsAllowed(path) => split_path(path) \in Seq(Names)
      BY <1>4, AllowedAreNames
    <2> QED BY <1>3, <1>4, <2>1, <2>2
  <1>7. \A p \in Places : seen'[p] = {tree[p]} /\ KindsSeen(p)' = {tree[p].kind}
    BY <1>2 DEF KindsSeen
  <1>8. TypeOK'
    <2>1. seen' \in [Places -> SUBSET (Items \cup {Nothing})]
      BY <1>2, <1>5
    <2>2. tries' \in 0 .. MAX_RETRIES
      <3>1. 0 \in 0 .. MAX_RETRIES
        BY ReadAssumption
      <3> QED BY <1>1, <1>3, <3>1 DEF TypeOK
    <2>3. queue' \in Seq(Seq(Names))
      <3>1. <<rel'>> \in Seq(Seq(Names))
        BY <1>6
      <3> QED BY <1>1, <1>3, <3>1 DEF TypeOK
    <2>4. /\ pc' \in {"start", "admit", "look", "page", "content", "redirected", "done"}
          /\ answer' \in {"none", "bad_request"}
      BY <1>3, <1>4
    <2> QED BY <1>1, <1>2, <1>6, <2>1, <2>2, <2>3, <2>4 DEF TypeOK
  <1>9. StartInv'
    BY <1>2, <1>3, <1>4 DEF StartInv
  <1>10. TreeInv'
    <2>1. InFolders(tree)'
      BY <1>1, <1>2 DEF TreeInv, InFolders
    <2>2. \A p \in Places : tree'[p] \in seen'[p]
      BY <1>2, <1>7
    <2>3. ("directory" \in KindsSeen(configured))'
      <3>1. KindsSeen(configured)' = {x.kind : x \in seen'[configured]}
        BY <1>2 DEF KindsSeen
      <3> QED BY <1>4, <1>5, <1>7, <3>1
    <2>4. ASSUME NEW p \in Places, NEW q \in Places, IsStrictPrefix(p, q), Nothing \notin seen'[q]
          PROVE  KindsSeen(p)' = {"directory"}
      <3>1. tree[q] # Nothing
        BY <1>7, <2>4
      <3>2. tree[p].kind = "directory"
        BY <1>1, <2>4, <3>1 DEF TreeInv, InFolders
      <3> QED BY <1>7, <3>2
    <2>5. \A p \in Places : ~({"directory", "file"} \subseteq KindsSeen(p)')
      BY <1>7
    <2> QED BY <2>1, <2>2, <2>3, <2>4, <2>5 DEF TreeInv
  <1>11. ReadInv'
    BY <1>2, <1>3, <1>4 DEF ReadInv
  <1>12. QueueInv' /\ EntryInv' /\ LastingInv'
    <2>1. CASE pc' = "page"
      <3>1. queue' = <<rel'>> /\ rel' = <<>> /\ operation' # "read"
        BY <1>2, <1>3, <2>1
      <3>2. Base' = root
        <4>1. root \o <<>> = root
          BY <1>5, ConcatEmptySeq
        <4> QED BY <1>2, <3>1, <4>1 DEF Base
      <3>3. ("directory" \in KindsSeen(Base))'
        <4>1. KindsSeen(Base)' = {x.kind : x \in seen'[Base']}
          BY DEF KindsSeen
        <4> QED BY <1>4, <1>5, <1>7, <3>2, <4>1
      <3> QED BY <1>2, <1>4, <1>5, <1>6, <2>1, <3>1, <3>2, <3>3, ListingBegins
    <2>2. CASE pc' # "page"
      BY <1>2, <1>4, <2>2 DEF QueueInv, EntryInv, LastingInv, IsInjective
    <2> QED BY <2>1, <2>2
  <1>13. ListedWasThere' /\ ListingIsComplete' /\ ReadIsHonest'
    BY <1>2, <1>3, <1>4 DEF ListedWasThere, ListingIsComplete, ReadIsHonest, IsInjective
  <1> QED BY <1>8, <1>9, <1>10, <1>11, <1>12, <1>13 DEF ReadingInv

\* GET on the item: what it finds decides how the request goes on.
LEMMA LookKeeps ==
  ASSUME ReadingInv, Look
  PROVE  ReadingInv'
  <1>1. TypeOK /\ StartInv /\ TreeInv /\ ReadInv
    BY DEF ReadingInv
  <1>2. /\ configured' = configured /\ url' = url /\ root' = root /\ path' = path /\ rel' = rel
        /\ operation' = operation /\ cursor' = cursor /\ tree' = tree /\ entries' = entries
        /\ content' = content /\ seen' = seen /\ changes' = changes /\ pc = "look"
    BY DEF Look, inputs
  <1>3. root \in Seq(Names) /\ rel \in Seq(Names) /\ Base \in Seq(Names) /\ Base' = Base
    BY <1>1, <1>2, ConcatProperties DEF TypeOK, Base
  <1>4. Addressed(root \o rel) = Base
    BY <1>3, AddressedAsNamed DEF Base
  <1>5. addressed' = {Base} /\ addressed = {}
    BY <1>1, <1>2, <1>4 DEF Look, StartInv
  <1>6. /\ configured # <<>> /\ root = configured /\ entries = <<>> /\ cursor = 0
        /\ answer = "none" /\ Watching
    BY <1>1, <1>2 DEF StartInv, Watching
  <1>7. tree \in [Places -> Items \cup {Nothing}] /\ At(Base) \in Items \cup {Nothing}
        /\ (At(Base).kind # "none" => Base \in Places) /\ At(Base).kind \in {"none", "file", "directory"}
        /\ (At(Base).kind = "none" => At(Base) = Nothing)
        /\ (Base \in Places => At(Base) = tree[Base] /\ tree[Base] \in seen[Base])
    <2>1. tree \in [Places -> Items \cup {Nothing}]
      BY <1>1 DEF TypeOK
    <2>2. At(Base) \in Items \cup {Nothing} /\ (At(Base).kind # "none" => Base \in Places)
      BY <2>1 DEF At, Nothing
    <2>3. Base \in Places => At(Base) = tree[Base] /\ tree[Base] \in seen[Base]
      BY <1>1, <1>6 DEF At, TreeInv
    <2> QED BY <2>1, <2>2, <2>3, ItemKinds
  <1>8. \/ /\ At(Base).kind = "none" /\ pc' = "done" /\ answer' = "not_found"
           /\ item' = item /\ queue' = queue /\ tries' = tries
        \/ /\ At(Base).kind = IF operation = "read" THEN "directory" ELSE "file"
           /\ pc' = "done" /\ answer' = "bad_request"
           /\ item' = item /\ queue' = queue /\ tries' = tries
        \/ /\ At(Base).kind = "directory" /\ operation # "read"
           /\ queue' = <<rel>> /\ pc' = "page" /\ answer' = answer /\ item' = item /\ tries' = 0
        \/ /\ At(Base).kind = "file" /\ operation = "read" /\ queue' = queue /\ item' = At(Base)
           /\ \/ /\ At(Base).size > MAX_FILE_BYTES
                 /\ pc' = "done" /\ answer' = "too_large" /\ tries' = tries
              \/ pc' = "content" /\ answer' = answer /\ tries' = 0
    BY <1>4 DEF Look, Answer, Call
  <1>9. TypeOK'
    <2>1. tries' \in 0 .. MAX_RETRIES
      <3>1. 0 \in 0 .. MAX_RETRIES
        BY ReadAssumption
      <3> QED BY <1>1, <1>8, <3>1 DEF TypeOK
    <2>2. queue' \in Seq(Seq(Names))
      <3>1. <<rel>> \in Seq(Seq(Names))
        BY <1>3
      <3> QED BY <1>1, <1>8, <3>1 DEF TypeOK
    <2>3. /\ pc' \in {"start", "admit", "look", "page", "content", "redirected", "done"}
          /\ answer' \in {"none", "not_found", "bad_request", "too_large"}
          /\ item' \in Items \cup {Nothing} /\ addressed' \subseteq Seq(Names)
      <3>1. item \in Items \cup {Nothing}
        BY <1>1 DEF TypeOK
      <3> QED BY <1>3, <1>5, <1>6, <1>7, <1>8, <3>1
    <2> QED BY <1>1, <1>2, <2>1, <2>2, <2>3 DEF TypeOK
  <1>10. StartInv'
    <2>1. IsPrefix(configured, Base)
      BY <1>3, <1>6, PrefixConcat DEF Base
    <2> QED BY <1>2, <1>5, <1>6, <1>8, <2>1 DEF StartInv
  <1>11. TreeInv'
    <2>1. Watching'
      BY <1>2, <1>6, <1>8 DEF Watching
    <2>2. \A p : KindsSeen(p)' = KindsSeen(p)
      BY <1>2 DEF KindsSeen
    <2>3. KindsSeen(configured)' = KindsSeen(configured)
      BY <1>2 DEF KindsSeen
    <2> QED BY <1>1, <1>2, <1>6, <2>2, <2>3 DEF TreeInv, InFolders
  <1>12. ReadInv'
    <2>1. operation = "read" => pc' # "page"
      BY <1>8
    <2>2. pc' \in {"content", "redirected"} =>
             /\ operation = "read" /\ item' = tree[Base] /\ tree[Base].kind = "file"
             /\ Base \in Places /\ tree[Base] \in seen[Base]
      BY <1>7, <1>8
    <2> QED BY <1>2, <1>3, <1>6, <2>1, <2>2 DEF ReadInv
  <1>13. QueueInv' /\ EntryInv' /\ LastingInv'
    <2>1. CASE pc' = "page"
      <3>1. At(Base).kind = "directory" /\ operation' # "read" /\ queue' = <<rel'>>
        BY <1>2, <1>8, <2>1
      <3>2. Base \in Places /\ "directory" \in KindsSeen(Base)
        BY <1>7, <3>1 DEF KindsSeen
      <3>3. ("directory" \in KindsSeen(Base))'
        BY <1>2, <1>3, <3>2 DEF KindsSeen
      <3> QED BY <1>2, <1>3, <1>6, <2>1, <3>1, <3>2, <3>3, ListingBegins
    <2>2. CASE pc' # "page"
      BY <1>2, <1>6, <2>2 DEF QueueInv, EntryInv, LastingInv, IsInjective
    <2> QED BY <2>1, <2>2
  <1>14. ListedWasThere'
    <2>1. ASSUME operation # "read", answer' = "not_found", Base \in Places
          PROVE  \E p \in Places : IsPrefix(Base, p) /\ "none" \in {x.kind : x \in seen[p]}
      <3>1. tree[Base].kind = "none" /\ tree[Base] \in seen[Base]
        BY <1>6, <1>7, <1>8, <2>1
      <3>2. IsPrefix(Base, Base)
        BY <1>3, PrefixOrder
      <3> QED BY <2>1, <3>1, <3>2
    <2>2. ASSUME operation # "read", answer' = "bad_request"
          PROVE  \E p \in Places : IsPrefix(Base, p) /\ "file" \in {x.kind : x \in seen[p]}
      <3>1. tree[Base].kind = "file" /\ tree[Base] \in seen[Base] /\ Base \in Places
        BY <1>6, <1>7, <1>8, <2>2
      <3>2. IsPrefix(Base, Base)
        BY <1>3, PrefixOrder
      <3> QED BY <3>1, <3>2
    <2> QED BY <1>2, <1>6, <2>1, <2>2 DEF ListedWasThere, Base, IsInjective
  <1>15. ListingIsComplete'
    BY <1>6, <1>8 DEF ListingIsComplete
  <1>16. ReadIsHonest'
    <2>1. answer' = "not_found" =>
             Nothing \in IF Base \in Places THEN seen[Base] ELSE {Nothing}
      BY <1>6, <1>7, <1>8
    <2>2. operation = "read" /\ answer' = "bad_request" =>
             \E x \in IF Base \in Places THEN seen[Base] ELSE {Nothing} : x.kind = "directory"
      BY <1>6, <1>7, <1>8
    <2>3. answer' = "too_large" =>
             \E p \in Places : \E x \in seen[p] : x.size > MAX_FILE_BYTES /\ x.id = item'.id
      BY <1>6, <1>7, <1>8
    <2>4. answer' # "bytes"
      BY <1>6, <1>8
    <2> QED BY <1>2, <2>1, <2>2, <2>3, <2>4 DEF ReadIsHonest, Base
  <1> QED BY <1>9, <1>10, <1>11, <1>12, <1>13, <1>14, <1>15, <1>16 DEF ReadingInv

-----------------------------------------------------------------------------
(* read_file's download.                                                   *)

\* Where the item still is a file at its path it keeps its id; else the path was seen empty.
LEMMA DownloadKeeps ==
  ASSUME ReadingInv, Content \/ FollowRedirect
  PROVE  ReadingInv'
  <1>1. TypeOK /\ StartInv /\ TreeInv /\ ReadInv /\ EntryInv
    BY DEF ReadingInv
  <1>2. /\ configured' = configured /\ url' = url /\ root' = root /\ path' = path /\ rel' = rel
        /\ operation' = operation /\ queue' = queue /\ cursor' = cursor /\ tree' = tree
        /\ entries' = entries /\ item' = item /\ seen' = seen /\ addressed' = addressed
        /\ changes' = changes /\ pc \in {"content", "redirected"}
    BY DEF Content, FollowRedirect, inputs, listing
  <1>3. \/ /\ Current = {} /\ pc' = "done" /\ answer' = "not_found" /\ content' = content
           /\ tries' = tries
        \/ pc' = "redirected" /\ answer' = answer /\ content' = content /\ tries' = 0
        \/ /\ content' \in Current /\ pc' = "done" /\ tries' = tries
           /\ answer' = IF content'.size > MAX_FILE_BYTES THEN "too_large" ELSE "bytes"
    BY DEF Content, FollowRedirect, Answer, Call, Deliver
  <1>4. /\ operation = "read" /\ item.kind = "file" /\ Base \in Places /\ item \in seen[Base]
        /\ \/ Nothing \in seen[Base]
           \/ tree[Base].kind = "file" /\ tree[Base].id = item.id
        /\ configured # <<>> /\ answer = "none" /\ Watching /\ entries = <<>>
    BY <1>1, <1>2 DEF ReadInv, StartInv, Watching
  <1>5. \A file \in Current : \E p \in Places : file = tree[p] /\ file \in seen[p] /\ file.id = item.id
    BY <1>1, <1>4 DEF Current, TreeInv
  <1>6. tree \in [Places -> Items \cup {Nothing}]
    BY <1>1 DEF TypeOK
  <1>7. TypeOK'
    <2>1. tries' \in 0 .. MAX_RETRIES
      <3>1. 0 \in 0 .. MAX_RETRIES
        BY ReadAssumption
      <3> QED BY <1>1, <1>3, <3>1 DEF TypeOK
    <2>2. content' \in Items \cup {Nothing}
      BY <1>1, <1>3, <1>5, <1>6 DEF TypeOK
    <2> QED BY <1>1, <1>2, <1>3, <1>4, <2>1, <2>2 DEF TypeOK
  <1>8. StartInv'
    BY <1>1, <1>2, <1>3, <1>4 DEF StartInv
  <1>9. TreeInv'
    <2>1. \A p : KindsSeen(p)' = KindsSeen(p)
      BY <1>2 DEF KindsSeen
    <2>2. KindsSeen(configured)' = KindsSeen(configured)
      BY <1>2 DEF KindsSeen
    <2> QED BY <1>1, <1>2, <1>4, <2>1, <2>2 DEF TreeInv, InFolders
  <1>10. ReadInv'
    BY <1>1, <1>2, <1>3, <1>4 DEF ReadInv, Base
  <1>11. QueueInv' /\ EntryInv' /\ LastingInv'
    BY <1>2, <1>3, <1>4 DEF QueueInv, EntryInv, LastingInv, IsInjective
  <1>12. ListedWasThere' /\ ListingIsComplete'
    BY <1>2, <1>3, <1>4 DEF ListedWasThere, ListingIsComplete, IsInjective
  <1>13. ReadIsHonest'
    <2>1. answer' = "not_found" => Nothing \in seen[Base]
      <3>1. tree[Base].kind = "file" /\ tree[Base].id = item.id => tree[Base] \in Current
        BY <1>4 DEF Current
      <3> QED BY <1>3, <1>4, <3>1
    <2>2. answer' # "bad_request"
      BY <1>3, <1>4
    <2>3. answer' = "too_large" =>
             \E p \in Places : \E x \in seen[p] : x.size > MAX_FILE_BYTES /\ x.id = item.id
      BY <1>3, <1>4, <1>5
    <2>4. answer' = "bytes" =>
             /\ content'.size <= MAX_FILE_BYTES /\ content'.id = item.id
             /\ \E p \in Places : content' \in seen[p]
      <3>1. ASSUME answer' = "bytes"
            PROVE  content' \in Current /\ ~(content'.size > MAX_FILE_BYTES)
        BY <1>3, <1>4, <3>1
      <3>2. ASSUME content' \in Current PROVE content'.size \in Nat
        <4>1. content' \in Items \cup {Nothing}
          BY <1>5, <1>6, <3>2
        <4>2. \A x \in Items \cup {Nothing} : x.size \in Nat
          BY ReadAssumption DEF Items, Nothing
        <4> QED BY <4>1, <4>2
      <3>3. MAX_FILE_BYTES \in Nat
        BY ReadAssumption
      <3> QED BY <1>5, <3>1, <3>2, <3>3
    <2> QED BY <1>2, <1>4, <2>1, <2>2, <2>3, <2>4 DEF ReadIsHonest, Base
  <1> QED BY <1>7, <1>8, <1>9, <1>10, <1>11, <1>12, <1>13 DEF ReadingInv

-----------------------------------------------------------------------------
(* One page of a listing.                                                  *)

\* The names after the cursor, in order, and none that is there is left out.
LEMMA FollowingNames ==
  ASSUME TypeOK, NEW f \in Seq(Names)
  PROVE  /\ Following(f) \in Seq(Names)
         /\ \A i \in 1 .. Len(Following(f)) :
               /\ Position(Following(f)[i]) > cursor
               /\ At(Append(f, Following(f)[i])).kind # "none"
         /\ \A i, j \in 1 .. Len(Following(f)) :
               i < j => Position(Following(f)[i]) < Position(Following(f)[j])
         /\ \A n \in Names : Position(n) > cursor /\ At(Append(f, n)).kind # "none"
               => \E i \in 1 .. Len(Following(f)) : Following(f)[i] = n
  <1> DEFINE L == Len(NameOrder)
             s == SubSeq(NameOrder, cursor + 1, L)
             dropped == {n \in Names : At(Append(f, n)).kind = "none"}
             w == Without(s, dropped)
  <1>1. L \in Nat /\ cursor \in 0 .. L /\ DOMAIN NameOrder = 1 .. L
    BY NamesAreStrings, LenProperties DEF TypeOK
  <1>2. s \in Seq(Names) /\ Len(s) = L - cursor /\ \A i \in 1 .. L - cursor : s[i] = NameOrder[cursor + i]
    <2>1. \A i \in cursor + 1 .. L : NameOrder[i] \in Names
      <3>1. \A i \in DOMAIN NameOrder : NameOrder[i] \in Names
        BY NamesAreStrings
      <3> HIDE DEF L
      <3>2. \A i \in cursor + 1 .. L : i \in DOMAIN NameOrder
        BY <1>1
      <3> QED BY <3>1, <3>2
    <2>2. /\ s \in Seq(Names)
          /\ Len(s) = IF cursor + 1 <= L THEN L - (cursor + 1) + 1 ELSE 0
          /\ \A i \in 1 .. L - (cursor + 1) + 1 : s[i] = NameOrder[cursor + 1 + i - 1]
      <3>1. cursor + 1 \in Int /\ L \in Int
        BY <1>1
      <3> HIDE DEF L
      <3> QED BY <2>1, <3>1, SubSeqProperties
    <2>3. L - (cursor + 1) + 1 = L - cursor /\ \A i \in Int : cursor + 1 + i - 1 = cursor + i
      BY <1>1
    <2> HIDE DEF L, s
    <2> QED BY <1>1, <2>2, <2>3
  <1> HIDE DEF s, dropped
  <1>3. w \in Seq(Names \ dropped)
    BY <1>2, WithoutType
  <1>4. PICK g : Picks(g, s, w, dropped)
    BY <1>2, WithoutPicks
  <1>5. Following(f) = w
    BY DEF Following, s, dropped
  <1> HIDE DEF w, L
  <1>6. Len(w) \in Nat /\ w \in Seq(Names) /\ \A i \in 1 .. Len(w) : w[i] \in Names /\ w[i] \notin dropped
    BY <1>3, LenProperties, ElementOfSeq
  <1>7. ASSUME NEW k \in 1 .. Len(w)
        PROVE  g[k] \in 1 .. L - cursor /\ Position(w[k]) = cursor + g[k]
    <2>1. g[k] \in 1 .. L - cursor /\ w[k] = s[g[k]]
      BY <1>2, <1>4 DEF Picks
    <2>2. w[k] = NameOrder[cursor + g[k]] /\ cursor + g[k] \in DOMAIN NameOrder
      BY <1>1, <1>2, <2>1
    <2>3. cursor + g[k] = Position(w[k])
      BY <1>6, <2>2, Positions
    <2> QED BY <2>1, <2>3
  <1>8. \A k \in 1 .. Len(w) : Position(w[k]) > cursor /\ At(Append(f, w[k])).kind # "none"
    BY <1>1, <1>6, <1>7 DEF dropped
  <1>9. ASSUME NEW i \in 1 .. Len(w), NEW j \in 1 .. Len(w), i < j
        PROVE  Position(w[i]) < Position(w[j])
    <2>1. g[i] < g[j]
      BY <1>4, <1>9 DEF Picks
    <2> QED BY <1>1, <1>7, <2>1
  <1>10. ASSUME NEW n \in Names, Position(n) > cursor, At(Append(f, n)).kind # "none"
         PROVE  \E i \in 1 .. Len(w) : w[i] = n
    <2> DEFINE j == Position(n) - cursor
    <2>1. Position(n) \in 1 .. L /\ NameOrder[Position(n)] = n
      BY Positions DEF L
    <2>2. j \in 1 .. L - cursor /\ cursor + j = Position(n)
      BY <1>1, <1>10, <2>1
    <2>3. s[j] = n /\ n \notin dropped
      BY <1>2, <1>10, <2>1, <2>2 DEF dropped
    <2> HIDE DEF j
    <2>4. PICK k \in 1 .. Len(w) : g[k] = j
      BY <1>2, <1>4, <2>2, <2>3 DEF Picks
    <2> QED BY <1>4, <2>3, <2>4 DEF Picks
  <1> QED BY <1>5, <1>6, <1>8, <1>9, <1>10

\* The page of a folder.
PageOf(f) == SubSeq(Following(f), 1, Min({PAGE_SIZE, Len(Following(f))}))

LEMMA Lesser ==
  ASSUME NEW a \in Nat, NEW b \in Nat
  PROVE  Min({a, b}) = IF a <= b THEN a ELSE b
  <1>1. \A x : x = (IF a <= b THEN a ELSE b)
                  => x \in {a, b} /\ \A y \in {a, b} : x =< y
    OBVIOUS
  <1>2. \A x : x \in {a, b} /\ (\A y \in {a, b} : x =< y)
                  => x = IF a <= b THEN a ELSE b
    OBVIOUS
  <1> QED BY <1>1, <1>2 DEF Min

\* A page is the next of those names: what it leaves comes after its last one.
LEMMA PageNames ==
  ASSUME TypeOK, NEW f \in Seq(Names)
  PROVE  /\ PageOf(f) \in Seq(Names) /\ Len(PageOf(f)) \in Nat
         /\ \A i \in 1 .. Len(PageOf(f)) :
               /\ PageOf(f)[i] \in Names /\ Position(PageOf(f)[i]) > cursor
               /\ At(Append(f, PageOf(f)[i])).kind # "none"
         /\ \A i, j \in 1 .. Len(PageOf(f)) : PageOf(f)[i] = PageOf(f)[j] => i = j
         /\ HasNextLink(Following(f)) =>
               /\ Last(PageOf(f)) \in Names /\ Position(Last(PageOf(f))) > cursor
               /\ \A i \in 1 .. Len(PageOf(f)) :
                     Position(PageOf(f)[i]) <= Position(Last(PageOf(f)))
         /\ \A n \in Names : Position(n) > cursor /\ At(Append(f, n)).kind # "none"
               => \/ \E i \in 1 .. Len(PageOf(f)) : PageOf(f)[i] = n
                  \/ HasNextLink(Following(f)) /\ Position(n) > Position(Last(PageOf(f)))
  <1> DEFINE w == Following(f)
             m == Min({PAGE_SIZE, Len(w)})
             page == SubSeq(w, 1, m)
  <1>1. /\ w \in Seq(Names)
        /\ \A i \in 1 .. Len(w) : Position(w[i]) > cursor /\ At(Append(f, w[i])).kind # "none"
        /\ \A i, j \in 1 .. Len(w) : i < j => Position(w[i]) < Position(w[j])
        /\ \A n \in Names : Position(n) > cursor /\ At(Append(f, n)).kind # "none"
              => \E i \in 1 .. Len(w) : w[i] = n
    BY FollowingNames
  <1>2. PageOf(f) = page /\ (HasNextLink(Following(f)) <=> Len(w) > PAGE_SIZE)
    BY DEF PageOf, HasNextLink
  <1> HIDE DEF w
  <1>3. Len(w) \in Nat /\ PAGE_SIZE \in Nat \ {0} /\ \A i \in 1 .. Len(w) : w[i] \in Names
    BY <1>1, ReadAssumption, LenProperties, ElementOfSeq
  <1>4. m = IF PAGE_SIZE <= Len(w) THEN PAGE_SIZE ELSE Len(w)
    BY <1>3, Lesser
  <1> HIDE DEF m
  <1>5. m \in 0 .. Len(w)
    BY <1>3, <1>4
  <1>6. page \in Seq(Names) /\ Len(page) = m /\ \A i \in 1 .. m : page[i] = w[i]
    <2>1. m \in Int /\ \A i \in 1 .. m : w[i] \in Names
      BY <1>3, <1>5
    <2>2. /\ page \in Seq(Names) /\ Len(page) = IF 1 <= m THEN m - 1 + 1 ELSE 0
          /\ \A i \in 1 .. m - 1 + 1 : page[i] = w[1 + i - 1]
      BY <2>1, SubSeqProperties
    <2>3. m - 1 + 1 = m /\ \A i \in Int : 1 + i - 1 = i
      BY <2>1
    <2> HIDE DEF page
    <2> QED BY <1>5, <2>2, <2>3
  <1> HIDE DEF page
  <1>7. \A i \in 1 .. m : i \in 1 .. Len(w) /\ Position(w[i]) \in Nat
    BY <1>3, <1>5, Positions
  <1>8. ASSUME NEW i \in 1 .. m, NEW j \in 1 .. m, page[i] = page[j] PROVE i = j
    <2>1. Position(w[i]) = Position(w[j])
      BY <1>6, <1>8
    <2> QED BY <1>1, <1>7, <2>1
  <1>9. ASSUME Len(w) > PAGE_SIZE
        PROVE  /\ m = PAGE_SIZE /\ m \in 1 .. Len(w) /\ Last(page) = w[m] /\ w[m] \in Names
               /\ Position(Last(page)) > cursor
               /\ \A i \in 1 .. m : Position(page[i]) <= Position(Last(page))
    <2>1. m = PAGE_SIZE /\ m \in 1 .. Len(w)
      BY <1>3, <1>4, <1>9
    <2>2. Last(page) = w[m]
      BY <1>3, <1>6, <2>1 DEF Last
    <2>3. \A i \in 1 .. m : Position(w[i]) <= Position(w[m])
      BY <1>1, <1>7, <2>1
    <2> QED BY <1>1, <1>3, <1>6, <2>1, <2>2, <2>3
  <1>10. ASSUME NEW n \in Names, Position(n) > cursor, At(Append(f, n)).kind # "none"
         PROVE  \/ \E i \in 1 .. m : page[i] = n
                \/ Len(w) > PAGE_SIZE /\ Position(n) > Position(Last(page))
    <2>1. PICK i \in 1 .. Len(w) : w[i] = n
      BY <1>1, <1>10
    <2>2. CASE i <= m
      BY <1>3, <1>5, <1>6, <2>1, <2>2
    <2>3. CASE ~(i <= m)
      <3>1. Len(w) > PAGE_SIZE /\ m < i
        BY <1>3, <1>4, <2>1, <2>3
      <3>2. Position(w[m]) < Position(w[i])
        BY <1>1, <1>9, <3>1
      <3> QED BY <1>9, <2>1, <3>1, <3>2, Positions
    <2> QED BY <2>2, <2>3
  <1>11. m \in Nat /\ \A i \in 1 .. m : page[i] \in Names /\ Position(page[i]) > cursor
                                      /\ At(Append(f, page[i])).kind # "none"
    <2>1. m \in Nat
      BY <1>3, <1>5
    <2>2. ASSUME NEW i \in 1 .. m
          PROVE  page[i] \in Names /\ Position(page[i]) > cursor
                 /\ At(Append(f, page[i])).kind # "none"
      <3>1. i \in 1 .. Len(w) /\ page[i] = w[i]
        BY <1>6, <1>7
      <3> QED BY <1>1, <1>3, <3>1
    <2> QED BY <2>1, <2>2
  <1> QED BY <1>2, <1>6, <1>8, <1>9, <1>10, <1>11

\* The folder that is being read, in the site.
Folder == root \o Head(queue)

\* It waits in front, was listed unless it is the one asked for, and is below that one.
LEMMA FolderFacts ==
  ASSUME TypeOK, QueueInv, pc = "page"
  PROVE  /\ root \in Seq(Names) /\ rel \in Seq(Names) /\ queue # <<>>
         /\ Len(queue) \in Nat \ {0} /\ DOMAIN queue = 1 .. Len(queue)
         /\ Head(queue) = queue[1] /\ Head(queue) \in Seq(Names)
         /\ Head(queue) \in {rel} \cup Listed /\ IsPrefix(rel, Head(queue))
         /\ Folder \in Seq(Names) /\ Folder \in Places /\ "directory" \in KindsSeen(Folder)
         /\ IsPrefix(Base, Folder)
  <1>1. root \in Seq(Names) /\ rel \in Seq(Names) /\ queue \in Seq(Seq(Names)) /\ queue # <<>>
    BY DEF TypeOK, QueueInv
  <1>2. Len(queue) \in Nat \ {0} /\ DOMAIN queue = 1 .. Len(queue) /\ 1 \in DOMAIN queue
    BY <1>1, EmptySeq, LenProperties
  <1>3. Head(queue) = queue[1] /\ Head(queue) \in Seq(Names)
    BY <1>1, <1>2, ElementOfSeq
  <1>4. /\ queue[1] \in {rel} \cup Listed /\ IsPrefix(rel, queue[1])
        /\ root \o queue[1] \in Places /\ "directory" \in KindsSeen(root \o queue[1])
    BY <1>2 DEF QueueInv
  <1> DEFINE h == Head(queue)
  <1>5. h \in Seq(Names) /\ IsPrefix(rel, h)
    BY <1>3, <1>4
  <1> HIDE DEF h
  <1>6. root \o h \in Seq(Names) /\ IsPrefix(root \o rel, root \o h)
    BY <1>1, <1>5, PrefixConcat, ConcatProperties
  <1> QED BY <1>1, <1>2, <1>3, <1>4, <1>6 DEF Folder, Base, h

\* What a page brings is there, is below the folder, and was not listed before.
LEMMA NewEntry ==
  ASSUME TypeOK, TreeInv, StartInv, QueueInv, EntryInv, pc = "page",
         NEW n \in Names, At(Append(Folder, n)).kind # "none", Position(n) > cursor
  PROVE  /\ Append(Head(queue), n) \in Seq(Names)
         /\ root \o Append(Head(queue), n) = Append(Folder, n)
         /\ Append(Folder, n) \in Places
         /\ At(Append(Folder, n)).kind \in {"file", "directory"}
         /\ At(Append(Folder, n)).kind \in KindsSeen(Append(Folder, n))
         /\ Append(Head(queue), n) # <<>>
         /\ Front(Append(Head(queue), n)) = Head(queue) /\ Last(Append(Head(queue), n)) = n
         /\ IsPrefix(rel, Append(Head(queue), n))
         /\ Append(Head(queue), n) \notin {rel} \cup Listed
  <1> DEFINE h == Head(queue)
             q == Append(h, n)
             p == Append(Folder, n)
  <1>1. /\ h \in Seq(Names) /\ IsPrefix(rel, h) /\ root \in Seq(Names) /\ rel \in Seq(Names)
        /\ Folder = root \o h
    BY FolderFacts DEF Folder
  <1>2. p \in Places /\ At(p) = tree[p]
    BY DEF At, Nothing
  <1>3. tree \in [Places -> Items \cup {Nothing}] /\ tree[p] \in seen[p]
    <2>1. configured # <<>>
      BY DEF StartInv
    <2>2. Watching
      BY <2>1 DEF Watching
    <2> QED BY <1>2, <2>2 DEF TypeOK, TreeInv
  <1>4. At(p).kind \in {"file", "directory"} /\ At(p).kind \in KindsSeen(p)
    BY <1>2, <1>3, ItemKinds DEF KindsSeen
  <1> HIDE DEF h, p
  <1>5. q \in Seq(Names) /\ q # <<>> /\ Len(q) = Len(h) + 1 /\ Front(q) = h /\ Last(q) = n
    BY <1>1, AppendProperties, FrontOfAppend
  <1>6. root \o q = Append(root \o h, n)
    BY <1>1, ConcatAppend
  <1> HIDE DEF q
  <1>7. IsStrictPrefix(rel, q) /\ IsPrefix(rel, q) /\ rel # q
    <2>1. IsStrictPrefix(rel, q)
      BY <1>1, <1>5, PrefixOfFront
    <2> QED BY <2>1 DEF IsStrictPrefix
  <1>8. q \notin Listed
    <2>1. ASSUME q \in Listed PROVE FALSE
      <3>1. Position(Last(q)) <= cursor
        BY <1>5, <2>1 DEF EntryInv, h
      <3>2. Position(n) \in Nat /\ cursor \in Nat
        BY Positions DEF TypeOK
      <3> QED BY <1>5, <3>1, <3>2
    <2> QED BY <2>1
  <1> QED BY <1>1, <1>2, <1>4, <1>5, <1>6, <1>7, <1>8 DEF p, q, h

\* Its next page.
Page == PageOf(Folder)

\* The entries with that page.
Found == entries \o EntriesOf(Page)

\* With a page, the entries are as true as before, and each of them is listed once.
LEMMA FoundEntries ==
  ASSUME TypeOK, TreeInv, StartInv, QueueInv, EntryInv, pc = "page"
  PROVE  /\ EntriesOf(Page) \in Seq([path: Seq(Names), kind: {"file", "directory"}])
         /\ Len(EntriesOf(Page)) = Len(Page)
         /\ \A i \in 1 .. Len(Page) :
               EntriesOf(Page)[i] = [path |-> Append(Head(queue), Page[i]),
                                     kind |-> At(Append(Folder, Page[i])).kind]
         /\ Found \in Seq([path: Seq(Names), kind: {"file", "directory"}])
         /\ Len(Found) = Len(entries) + Len(Page)
         /\ \A i \in 1 .. Len(entries) : Found[i] = entries[i]
         /\ \A i \in 1 .. Len(Page) : Found[Len(entries) + i] = EntriesOf(Page)[i]
         /\ \A i \in 1 .. Len(Found) :
               /\ root \o Found[i].path \in Places
               /\ Found[i].kind \in KindsSeen(root \o Found[i].path)
         /\ \A i, j \in 1 .. Len(Found) : Found[i].path = Found[j].path => i = j
  <1> DEFINE Entry == [path: Seq(Names), kind: {"file", "directory"}]
             made == EntriesOf(Page)
  <1>1. Folder \in Seq(Names)
    BY FolderFacts
  <1>2. /\ Page \in Seq(Names) /\ Len(Page) \in Nat
        /\ \A i \in 1 .. Len(Page) :
              /\ Page[i] \in Names /\ Position(Page[i]) > cursor
              /\ At(Append(Folder, Page[i])).kind # "none"
        /\ \A i, j \in 1 .. Len(Page) : Page[i] = Page[j] => i = j
    BY <1>1, PageNames DEF Page
  <1>3. ASSUME NEW i \in 1 .. Len(Page)
        PROVE  /\ made[i] = [path |-> Append(Head(queue), Page[i]),
                             kind |-> At(Append(Folder, Page[i])).kind]
               /\ made[i] \in Entry
               /\ root \o made[i].path \in Places
               /\ made[i].kind \in KindsSeen(root \o made[i].path)
               /\ made[i].path \notin Listed
               /\ Last(made[i].path) = Page[i]
    <2>1. i \in DOMAIN Page
      BY <1>2, LenProperties
    <2>2. made[i] = [path |-> Append(Head(queue), Page[i]),
                     kind |-> At(root \o Append(Head(queue), Page[i])).kind]
      BY <2>1 DEF EntriesOf
    <2> DEFINE n == Page[i]
    <2>3. n \in Names /\ Position(n) > cursor /\ At(Append(Folder, n)).kind # "none"
      BY <1>2
    <2> HIDE DEF n
    <2>4. /\ Append(Head(queue), n) \in Seq(Names)
          /\ root \o Append(Head(queue), n) = Append(Folder, n)
          /\ Append(Folder, n) \in Places
          /\ At(Append(Folder, n)).kind \in {"file", "directory"}
          /\ At(Append(Folder, n)).kind \in KindsSeen(Append(Folder, n))
          /\ Append(Head(queue), n) \notin Listed
          /\ Last(Append(Head(queue), n)) = n
      BY <2>3, NewEntry
    <2>5. made[i] = [path |-> Append(Head(queue), n), kind |-> At(Append(Folder, n)).kind]
      BY <2>2, <2>4 DEF n
    <2> DEFINE q == Append(Head(queue), n)
               x == At(Append(Folder, n)).kind
    <2>6. made[i] = [path |-> q, kind |-> x] /\ q \in Seq(Names) /\ x \in {"file", "directory"}
          /\ root \o q \in Places /\ x \in KindsSeen(root \o q) /\ q \notin Listed /\ Last(q) = n
      BY <2>4, <2>5
    <2> HIDE DEF made, q, x
    <2>7. made[i] \in Entry /\ made[i].path = q /\ made[i].kind = x
      BY <2>6
    <2> QED BY <2>2, <2>4, <2>6, <2>7 DEF n
  <1>4. made \in Seq(Entry) /\ Len(made) = Len(Page)
    <2>1. made = [i \in 1 .. Len(Page) |-> made[i]]
      <3>1. DOMAIN Page = 1 .. Len(Page)
        BY <1>2, LenProperties
      <3> QED BY <3>1 DEF EntriesOf
    <2> HIDE DEF made, Entry
    <2>2. made \in [1 .. Len(Page) -> Entry]
      BY <1>3, <2>1
    <2> QED BY <1>2, <2>2
  <1>5. entries \in Seq(Entry) /\ Len(entries) \in Nat /\ DOMAIN entries = 1 .. Len(entries)
    BY LenProperties DEF TypeOK
  <1> HIDE DEF Entry, made
  <1>6. /\ Found \in Seq(Entry) /\ Len(Found) = Len(entries) + Len(made)
        /\ \A i \in 1 .. Len(entries) + Len(made) :
              Found[i] = IF i <= Len(entries) THEN entries[i] ELSE made[i - Len(entries)]
    BY <1>4, <1>5, ConcatProperties DEF Found, made
  <1>7. \A i \in 1 .. Len(entries) : Found[i] = entries[i]
    BY <1>2, <1>4, <1>5, <1>6
  <1>8. ASSUME NEW i \in 1 .. Len(Page) PROVE Found[Len(entries) + i] = made[i]
    <2>1. Len(entries) + i \in 1 .. Len(entries) + Len(made) /\ ~(Len(entries) + i <= Len(entries))
          /\ Len(entries) + i - Len(entries) = i
      BY <1>2, <1>4, <1>5
    <2> QED BY <1>6, <2>1
  <1>9. ASSUME NEW i \in 1 .. Len(Found)
        PROVE  \/ i \in 1 .. Len(entries) /\ Found[i] = entries[i]
               \/ \E k \in 1 .. Len(Page) : i = Len(entries) + k /\ Found[i] = made[k]
    <2>1. CASE i <= Len(entries)
      BY <1>2, <1>4, <1>5, <1>6, <1>7, <2>1
    <2>2. CASE ~(i <= Len(entries))
      <3>1. i - Len(entries) \in 1 .. Len(Page) /\ i = Len(entries) + (i - Len(entries))
        BY <1>2, <1>4, <1>5, <1>6, <2>2
      <3> QED BY <1>8, <3>1
    <2> QED BY <2>1, <2>2
  <1>10. \A i \in 1 .. Len(entries) :
            /\ root \o entries[i].path \in Places
            /\ entries[i].kind \in KindsSeen(root \o entries[i].path)
            /\ entries[i].path \in Listed
    BY <1>5 DEF EntryInv, Listed
  <1>11. ASSUME NEW i \in 1 .. Len(Found), NEW j \in 1 .. Len(Found), Found[i].path = Found[j].path
         PROVE  i = j
    <2>1. CASE i \in 1 .. Len(entries) /\ j \in 1 .. Len(entries)
      <3>1. entries[i].path = entries[j].path /\ i \in DOMAIN entries /\ j \in DOMAIN entries
        BY <1>5, <1>7, <1>11, <2>1
      <3> QED BY <3>1 DEF EntryInv, IsInjective
    <2>2. ASSUME NEW k \in 1 .. Len(Page), NEW l \in 1 .. Len(Page), made[k].path = made[l].path
          PROVE  k = l
      <3>1. Page[k] = Page[l]
        BY <1>3, <2>2
      <3> QED BY <1>2, <3>1
    <2>3. \A k \in 1 .. Len(entries), l \in 1 .. Len(Page) : entries[k].path # made[l].path
      BY <1>3, <1>10
    <2>4. CASE i \notin 1 .. Len(entries) /\ j \notin 1 .. Len(entries)
      <3>1. PICK k \in 1 .. Len(Page) : i = Len(entries) + k /\ Found[i] = made[k]
        BY <1>9, <2>4
      <3>2. PICK l \in 1 .. Len(Page) : j = Len(entries) + l /\ Found[j] = made[l]
        BY <1>9, <2>4
      <3>3. made[k].path = made[l].path
        BY <1>11, <3>1, <3>2
      <3> QED BY <2>2, <3>1, <3>2, <3>3
    <2>5. CASE i \in 1 .. Len(entries) /\ j \notin 1 .. Len(entries)
      <3>1. PICK l \in 1 .. Len(Page) : Found[j] = made[l]
        BY <1>9, <2>5
      <3>2. entries[i].path = made[l].path
        BY <1>7, <1>11, <2>5, <3>1
      <3> QED BY <2>3, <2>5, <3>2
    <2>6. CASE i \notin 1 .. Len(entries) /\ j \in 1 .. Len(entries)
      <3>1. PICK l \in 1 .. Len(Page) : Found[i] = made[l]
        BY <1>9, <2>6
      <3>2. entries[j].path = made[l].path
        BY <1>7, <1>11, <2>6, <3>1
      <3> QED BY <2>3, <2>6, <3>2
    <2> QED BY <2>1, <2>4, <2>5, <2>6
  <1>12. \A i \in 1 .. Len(Found) : /\ root \o Found[i].path \in Places
                                   /\ Found[i].kind \in KindsSeen(root \o Found[i].path)
    BY <1>3, <1>9, <1>10
  <1> QED BY <1>3, <1>4, <1>6, <1>7, <1>8, <1>11, <1>12 DEF Entry, made

\* The folders on it.
Folders == Without(EntriesOf(Page), {e \in ToSet(EntriesOf(Page)) : e.kind = "file"})

\* The queue with them.
Known == queue \o (IF operation = "list" THEN <<>>
                   ELSE [i \in DOMAIN Folders |-> Folders[i].path])

\* The folders on the page join the queue, if the listing is recursive, each of them once.
LEMMA KnownFolders ==
  ASSUME TypeOK, TreeInv, StartInv, QueueInv, EntryInv, pc = "page"
  PROVE  /\ Known \in Seq(Seq(Names)) /\ Len(Known) \in Nat /\ Len(Known) >= Len(queue)
         /\ \A k \in 1 .. Len(queue) : Known[k] = queue[k]
         /\ \A k \in Len(queue) + 1 .. Len(Known) :
               /\ operation # "list"
               /\ \E i \in 1 .. Len(Page) : /\ Known[k] = Append(Head(queue), Page[i])
                                            /\ At(Append(Folder, Page[i])).kind = "directory"
         /\ operation = "list" => Len(Known) = Len(queue)
         /\ operation # "list" => \A i \in 1 .. Len(Page) :
               At(Append(Folder, Page[i])).kind = "directory"
                  => \E k \in Len(queue) + 1 .. Len(Known) :
                        Known[k] = Append(Head(queue), Page[i])
         /\ \A j, k \in 1 .. Len(Known) : Known[j] = Known[k] => j = k
  <1> DEFINE Entry == [path: Seq(Names), kind: {"file", "directory"}]
             made == EntriesOf(Page)
             files == {e \in ToSet(made) : e.kind = "file"}
             paths == [i \in DOMAIN Folders |-> Folders[i].path]
             added == IF operation = "list" THEN <<>> ELSE paths
             h == Head(queue)
  <1>1. /\ made \in Seq(Entry) /\ Len(made) = Len(Page)
        /\ \A i \in 1 .. Len(Page) :
              made[i] = [path |-> Append(h, Page[i]), kind |-> At(Append(Folder, Page[i])).kind]
    BY FoundEntries
  <1>2. /\ Folder \in Seq(Names) /\ h \in Seq(Names)
        /\ Len(queue) \in Nat \ {0} /\ DOMAIN queue = 1 .. Len(queue)
    BY FolderFacts
  <1>3. /\ Len(Page) \in Nat
        /\ \A i \in 1 .. Len(Page) :
              /\ Page[i] \in Names /\ Position(Page[i]) > cursor
              /\ At(Append(Folder, Page[i])).kind # "none"
        /\ \A i, j \in 1 .. Len(Page) : Page[i] = Page[j] => i = j
    BY <1>2, PageNames DEF Page
  <1>4. Folders = Without(made, files)
    BY DEF Folders
  <1> HIDE DEF made, files, Entry
  <1>5. ASSUME NEW i \in 1 .. Len(Page)
        PROVE  /\ made[i].path = Append(h, Page[i])
               /\ made[i] \notin files <=> At(Append(Folder, Page[i])).kind # "file"
    <2>1. DOMAIN made = 1 .. Len(Page)
      BY <1>1, LenProperties
    <2>2. made[i] \in ToSet(made)
      BY <2>1 DEF ToSet
    <2> DEFINE q == Append(h, Page[i])
               x == At(Append(Folder, Page[i])).kind
    <2>3. made[i] = [path |-> q, kind |-> x]
      BY <1>1
    <2> HIDE DEF q, x
    <2>4. made[i].path = q /\ made[i].kind = x
      BY <2>3
    <2> QED BY <2>2, <2>4 DEF files, q, x
  <1>6. Folders \in Seq(Entry) /\ Len(Folders) \in Nat /\ DOMAIN Folders = 1 .. Len(Folders)
    <2>1. Folders \in Seq(Entry \ files)
      BY <1>1, <1>4, WithoutType
    <2>2. Folders \in Seq(Entry)
      BY <2>1
    <2> QED BY <2>2, LenProperties
  <1>7. PICK g : Picks(g, made, Folders, files)
    BY <1>1, <1>4, WithoutPicks
  <1>8. ASSUME NEW k \in 1 .. Len(Folders)
        PROVE  /\ g[k] \in 1 .. Len(Page) /\ Folders[k].path = Append(h, Page[g[k]])
               /\ At(Append(Folder, Page[g[k]])).kind = "directory"
               /\ Folders[k].path \in Seq(Names)
    <2>1. g[k] \in 1 .. Len(Page) /\ Folders[k] = made[g[k]] /\ made[g[k]] \notin files
      BY <1>1, <1>7 DEF Picks
    <2> DEFINE n == Page[g[k]]
    <2>2. n \in Names /\ Position(n) > cursor /\ At(Append(Folder, n)).kind # "none"
      BY <1>3, <2>1
    <2>3. Folders[k].path = Append(h, n)
      BY <1>5, <2>1
    <2>4. At(Append(Folder, n)).kind # "file"
      BY <1>5, <2>1
    <2> HIDE DEF n
    <2>5. At(Append(Folder, n)).kind \in {"file", "directory"} /\ Append(h, n) \in Seq(Names)
      BY <2>2, NewEntry
    <2> QED BY <2>1, <2>3, <2>4, <2>5 DEF n
  <1>9. /\ paths \in Seq(Seq(Names)) /\ Len(paths) = Len(Folders)
        /\ \A k \in 1 .. Len(Folders) : paths[k] = Folders[k].path
    <2>1. paths \in [1 .. Len(Folders) -> Seq(Names)]
      BY <1>6, <1>8
    <2>2. \A k \in 1 .. Len(Folders) : paths[k] = Folders[k].path
      BY <1>6
    <2> HIDE DEF paths
    <2> QED BY <1>6, <2>1, <2>2
  <1> HIDE DEF paths
  <1>10. added \in Seq(Seq(Names)) /\ Len(added) \in Nat
    <2>1. added \in Seq(Seq(Names))
      BY <1>9
    <2> QED BY <2>1, LenProperties
  <1>11. /\ operation = "list" => Len(added) = 0
         /\ operation # "list" => added = paths /\ Len(added) = Len(Folders)
    BY <1>9
  <1>12. Known = queue \o added
    BY DEF Known, paths
  <1> HIDE DEF added
  <1>13. queue \in Seq(Seq(Names))
    BY DEF TypeOK
  <1>14. /\ Known \in Seq(Seq(Names)) /\ Len(Known) = Len(queue) + Len(added)
         /\ \A k \in 1 .. Len(queue) + Len(added) :
               Known[k] = IF k <= Len(queue) THEN queue[k] ELSE added[k - Len(queue)]
    BY <1>10, <1>12, <1>13, ConcatProperties
  <1>15. \A k \in 1 .. Len(queue) : Known[k] = queue[k]
    BY <1>2, <1>10, <1>14
  <1>16. ASSUME NEW k \in Len(queue) + 1 .. Len(Known)
         PROVE  /\ operation # "list" /\ k - Len(queue) \in 1 .. Len(Folders)
                /\ Known[k] = Folders[k - Len(queue)].path
    <2>1. k - Len(queue) \in 1 .. Len(added) /\ k \in 1 .. Len(queue) + Len(added)
          /\ ~(k <= Len(queue))
      BY <1>2, <1>10, <1>14
    <2>2. operation # "list"
      BY <1>11, <2>1
    <2> QED BY <1>9, <1>11, <1>14, <2>1, <2>2
  <1>17. ASSUME NEW k \in Len(queue) + 1 .. Len(Known)
         PROVE  /\ operation # "list" /\ g[k - Len(queue)] \in 1 .. Len(Page)
                /\ Known[k] = Append(h, Page[g[k - Len(queue)]])
                /\ At(Append(Folder, Page[g[k - Len(queue)]])).kind = "directory"
    BY <1>8, <1>16
  <1>18. ASSUME operation # "list", NEW i \in 1 .. Len(Page),
                At(Append(Folder, Page[i])).kind = "directory"
         PROVE  \E k \in Len(queue) + 1 .. Len(Known) : Known[k] = Append(h, Page[i])
    <2>1. made[i] \notin files
      BY <1>5, <1>18
    <2>2. PICK k \in 1 .. Len(Folders) : g[k] = i
      BY <1>1, <1>7, <2>1 DEF Picks
    <2>3. Len(queue) + k \in Len(queue) + 1 .. Len(Known) /\ Len(queue) + k - Len(queue) = k
      BY <1>2, <1>6, <1>11, <1>14, <1>18
    <2> QED BY <1>17, <2>2, <2>3
  <1>19. ASSUME NEW i \in 1 .. Len(Page)
         PROVE  Append(h, Page[i]) \notin {rel} \cup Listed /\ Last(Append(h, Page[i])) = Page[i]
    <2> DEFINE n == Page[i]
    <2>1. n \in Names /\ Position(n) > cursor /\ At(Append(Folder, n)).kind # "none"
      BY <1>3
    <2> HIDE DEF n
    <2>2. Append(h, n) \notin {rel} \cup Listed /\ Last(Append(h, n)) = n
      BY <2>1, NewEntry
    <2> QED BY <2>2 DEF n
  <1>20. \A k \in 1 .. Len(queue) : queue[k] \in {rel} \cup Listed
    BY <1>2 DEF QueueInv
  <1>21. ASSUME NEW j \in 1 .. Len(Known), NEW k \in 1 .. Len(Known), j < k, Known[j] = Known[k]
         PROVE  FALSE
    <2>1. CASE k <= Len(queue)
      <3>1. j \in DOMAIN queue /\ k \in DOMAIN queue /\ queue[j] = queue[k]
        BY <1>2, <1>15, <1>21, <2>1
      <3> QED BY <1>21, <3>1 DEF QueueInv, IsInjective
    <2>2. CASE j <= Len(queue) /\ ~(k <= Len(queue))
      <3>1. Known[j] \in {rel} \cup Listed
        BY <1>2, <1>15, <1>20, <2>2
      <3>2. k \in Len(queue) + 1 .. Len(Known)
        BY <1>2, <2>2
      <3> DEFINE i == g[k - Len(queue)]
      <3>3. i \in 1 .. Len(Page) /\ Known[k] = Append(h, Page[i])
        BY <1>17, <3>2
      <3> HIDE DEF i
      <3> QED BY <1>19, <1>21, <3>1, <3>3
    <2>3. CASE ~(j <= Len(queue))
      <3>1. j \in Int /\ k \in Int /\ j < k /\ j <= Len(Known) /\ k <= Len(Known)
        BY <1>21
      <3> DEFINE a == j - Len(queue)
                 b == k - Len(queue)
      <3>2. j \in Len(queue) + 1 .. Len(Known) /\ k \in Len(queue) + 1 .. Len(Known)
        BY <1>2, <2>3, <3>1
      <3>3. a \in 1 .. Len(Folders) /\ b \in 1 .. Len(Folders) /\ a < b
        BY <1>2, <1>10, <1>14, <1>16, <1>21, <3>2
      <3>4. /\ g[a] \in 1 .. Len(Page) /\ g[b] \in 1 .. Len(Page)
            /\ Append(h, Page[g[a]]) = Append(h, Page[g[b]])
        BY <1>17, <1>21, <3>2
      <3> HIDE DEF a, b
      <3>5. Page[g[a]] = Page[g[b]]
        BY <1>19, <3>4
      <3>6. g[a] = g[b] /\ g[a] < g[b]
        BY <1>3, <1>7, <3>3, <3>4, <3>5 DEF Picks
      <3> QED BY <1>3, <3>4, <3>6
    <2> QED BY <2>1, <2>2, <2>3
  <1>22. ASSUME NEW j \in 1 .. Len(Known), NEW k \in 1 .. Len(Known), Known[j] = Known[k]
         PROVE  j = k
    <2>1. ~(j < k) /\ ~(k < j)
      BY <1>21, <1>22
    <2> QED BY <1>10, <1>14, <2>1
  <1>23. Len(Known) \in Nat /\ Len(Known) >= Len(queue)
         /\ (operation = "list" => Len(Known) = Len(queue))
    <2>1. Len(queue) \in Nat /\ Len(added) \in Nat /\ Len(Known) = Len(queue) + Len(added)
      BY <1>2, <1>10, <1>14
    <2>2. operation = "list" => Len(added) = 0
      BY <1>11
    <2> QED BY <2>1, <2>2
  <1> QED BY <1>14, <1>15, <1>17, <1>18, <1>22, <1>23 DEF h

\* The paths on it.
Arrived == {Append(Head(queue), Page[i]) : i \in 1 .. Len(Page)}

\* What each path that arrived is.
LEMMA ArrivedFacts ==
  ASSUME TypeOK, TreeInv, StartInv, QueueInv, EntryInv, pc = "page", NEW q \in Arrived
  PROVE  \E i \in 1 .. Len(Page) :
            /\ q = Append(Head(queue), Page[i])
            /\ Page[i] \in Names /\ Position(Page[i]) > cursor
            /\ q \in Seq(Names) /\ q # <<>> /\ Front(q) = Head(queue) /\ Last(q) = Page[i]
            /\ Len(q) = Len(Head(queue)) + 1 /\ IsPrefix(rel, q)
            /\ q \notin {rel} \cup Listed
            /\ root \o q = Append(Folder, Page[i]) /\ root \o q \in Places
            /\ At(Append(Folder, Page[i])).kind \in KindsSeen(root \o q)
  <1>1. PICK i \in 1 .. Len(Page) : q = Append(Head(queue), Page[i])
    BY DEF Arrived
  <1> DEFINE n == Page[i]
             h == Head(queue)
             p == Append(Folder, n)
  <1>2. Folder \in Seq(Names) /\ h \in Seq(Names)
    BY FolderFacts
  <1>3. n \in Names /\ Position(n) > cursor /\ At(p).kind # "none"
    BY <1>2, PageNames DEF Page
  <1> HIDE DEF n
  <1>4. /\ Append(h, n) \in Seq(Names) /\ root \o Append(h, n) = p /\ p \in Places
        /\ At(p).kind \in KindsSeen(p)
        /\ Append(h, n) # <<>> /\ Front(Append(h, n)) = h /\ Last(Append(h, n)) = n
        /\ IsPrefix(rel, Append(h, n)) /\ Append(h, n) \notin {rel} \cup Listed
    BY <1>3, NewEntry
  <1>5. Len(Append(h, n)) = Len(h) + 1
    BY <1>2, <1>3, AppendProperties
  <1>6. q = Append(h, n)
    BY <1>1 DEF n
  <1> HIDE DEF h, p
  <1> QED BY <1>3, <1>4, <1>5, <1>6 DEF n, h, p

\* How the listing stands once a page is read and it is not full: off folders were finished.
PageRead(off) ==
    /\ root' = root /\ rel' = rel /\ operation' = operation /\ seen' = seen
    /\ entries' = Found
    /\ queue' \in Seq(Seq(Names)) /\ Len(queue') = Len(Known) - off
    /\ \A k \in 1 .. Len(queue') : queue'[k] = Known[k + off]
    /\ \/ off = 0 /\ HasNextLink(Following(Folder)) /\ cursor' = Position(Last(Page))
       \/ off = 1 /\ ~HasNextLink(Following(Folder)) /\ cursor' = 0

\* The entries now: those there were, and those that arrived.
LEMMA ListedGrows ==
  ASSUME TypeOK, TreeInv, StartInv, QueueInv, EntryInv, pc = "page", entries' = Found
  PROVE  Listed' = Listed \cup Arrived
  <1>1. /\ Found \in Seq([path: Seq(Names), kind: {"file", "directory"}])
        /\ Len(Found) = Len(entries) + Len(Page)
        /\ \A i \in 1 .. Len(entries) : Found[i] = entries[i]
        /\ \A i \in 1 .. Len(Page) : Found[Len(entries) + i].path = Append(Head(queue), Page[i])
    <2>1. /\ Found \in Seq([path: Seq(Names), kind: {"file", "directory"}])
          /\ Len(Found) = Len(entries) + Len(Page)
          /\ \A i \in 1 .. Len(entries) : Found[i] = entries[i]
      BY FoundEntries
    <2>2. ASSUME NEW i \in 1 .. Len(Page)
          PROVE  Found[Len(entries) + i].path = Append(Head(queue), Page[i])
      <3> DEFINE q == Append(Head(queue), Page[i])
                 x == At(Append(Folder, Page[i])).kind
      <3>1. Found[Len(entries) + i] = [path |-> q, kind |-> x]
        BY FoundEntries
      <3> HIDE DEF q, x
      <3>2. Found[Len(entries) + i].path = q
        BY <3>1
      <3> QED BY <3>2 DEF q
    <2> QED BY <2>1, <2>2
  <1>2. DOMAIN Found = 1 .. Len(Found)
    BY <1>1, LenProperties
  <1>3. Len(entries) \in Nat /\ DOMAIN entries = 1 .. Len(entries)
    BY LenProperties DEF TypeOK
  <1>4. Len(Page) \in Nat
    BY FolderFacts, PageNames DEF Page
  <1>5. Listed' = {Found[i].path : i \in 1 .. Len(Found)}
    BY <1>2 DEF Listed
  <1>6. ASSUME NEW q \in Listed PROVE q \in Listed'
    <2>1. PICK i \in 1 .. Len(entries) : q = entries[i].path
      BY <1>3 DEF Listed
    <2>2. i \in 1 .. Len(Found) /\ Found[i] = entries[i]
      BY <1>1, <1>3, <1>4
    <2> QED BY <1>5, <2>1, <2>2
  <1>7. ASSUME NEW q \in Arrived PROVE q \in Listed'
    <2>1. PICK i \in 1 .. Len(Page) : q = Append(Head(queue), Page[i])
      BY DEF Arrived
    <2>2. Len(entries) + i \in 1 .. Len(Found)
      BY <1>1, <1>3, <1>4
    <2> QED BY <1>1, <1>5, <2>1, <2>2
  <1>8. ASSUME NEW q \in Listed' PROVE q \in Listed \cup Arrived
    <2>1. PICK i \in 1 .. Len(Found) : q = Found[i].path
      BY <1>5
    <2>2. CASE i <= Len(entries)
      <3>1. i \in DOMAIN entries /\ Found[i] = entries[i]
        BY <1>1, <1>3, <2>2
      <3> QED BY <2>1, <3>1 DEF Listed
    <2>3. CASE ~(i <= Len(entries))
      <3> DEFINE k == i - Len(entries)
      <3>1. k \in 1 .. Len(Page) /\ i = Len(entries) + k
        BY <1>1, <1>3, <1>4, <2>3
      <3> HIDE DEF k
      <3>2. q = Append(Head(queue), Page[k])
        BY <1>1, <2>1, <3>1
      <3> QED BY <3>1, <3>2 DEF Arrived
    <2> QED BY <2>2, <2>3
  <1> QED BY <1>6, <1>7, <1>8

\* The folders that wait now: those that waited, and those that arrived.
LEMMA WaitingNow ==
  ASSUME TypeOK, TreeInv, StartInv, QueueInv, EntryInv, pc = "page", NEW off, PageRead(off)
  PROVE  /\ off \in {0, 1} /\ Len(queue') \in Nat /\ DOMAIN queue' = 1 .. Len(queue')
         /\ Known[1] = Head(queue)
         /\ \A j, k \in 1 .. Len(Known) : Known[j] = Known[k] => j = k
         /\ \A k \in 1 .. Len(queue') : k + off \in 1 .. Len(Known) /\ queue'[k] = Known[k + off]
         /\ \A j \in 2 .. Len(Known) : \E k \in 1 .. Len(queue') : queue'[k] = Known[j]
         /\ \A j \in 1 .. Len(Known) :
               \/ j \in 1 .. Len(queue) /\ Known[j] = queue[j]
               \/ /\ operation # "list" /\ Known[j] \in Arrived
                  /\ "directory" \in KindsSeen(root \o Known[j])
  <1>1. /\ Known \in Seq(Seq(Names)) /\ Len(Known) \in Nat /\ Len(Known) >= Len(queue)
        /\ \A k \in 1 .. Len(queue) : Known[k] = queue[k]
        /\ \A k \in Len(queue) + 1 .. Len(Known) :
              /\ operation # "list"
              /\ \E i \in 1 .. Len(Page) : /\ Known[k] = Append(Head(queue), Page[i])
                                           /\ At(Append(Folder, Page[i])).kind = "directory"
        /\ \A j, k \in 1 .. Len(Known) : Known[j] = Known[k] => j = k
    BY KnownFolders
  <1>2. Len(queue) \in Nat \ {0} /\ Head(queue) = queue[1]
    BY FolderFacts
  <1>3. /\ off \in {0, 1} /\ queue' \in Seq(Seq(Names)) /\ Len(queue') = Len(Known) - off
        /\ \A k \in 1 .. Len(queue') : queue'[k] = Known[k + off]
    BY DEF PageRead
  <1>4. Len(queue') \in Nat /\ DOMAIN queue' = 1 .. Len(queue')
    BY <1>3, LenProperties
  <1>5. Known[1] = Head(queue)
    <2>1. 1 \in 1 .. Len(queue)
      BY <1>2
    <2> QED BY <1>1, <1>2, <2>1
  <1>6. \A k \in 1 .. Len(queue') : k + off \in 1 .. Len(Known)
    BY <1>1, <1>3, <1>4
  <1>7. ASSUME NEW j \in 2 .. Len(Known) PROVE \E k \in 1 .. Len(queue') : queue'[k] = Known[j]
    <2>1. j - off \in 1 .. Len(queue') /\ j - off + off = j
      BY <1>1, <1>3, <1>4
    <2> QED BY <1>3, <2>1
  <1>8. ASSUME NEW j \in 1 .. Len(Known), j \notin 1 .. Len(queue)
        PROVE  /\ operation # "list" /\ Known[j] \in Arrived
               /\ "directory" \in KindsSeen(root \o Known[j])
    <2>1. j \in Len(queue) + 1 .. Len(Known)
      BY <1>1, <1>2, <1>8
    <2>2. PICK i \in 1 .. Len(Page) : /\ Known[j] = Append(Head(queue), Page[i])
                                      /\ At(Append(Folder, Page[i])).kind = "directory"
      BY <1>1, <2>1
    <2> DEFINE n == Page[i]
    <2>3. n \in Names /\ Position(n) > cursor /\ At(Append(Folder, n)).kind # "none"
      <3>1. Folder \in Seq(Names)
        BY FolderFacts
      <3> QED BY <3>1, PageNames DEF Page
    <2>4. Known[j] = Append(Head(queue), n) /\ At(Append(Folder, n)).kind = "directory"
      BY <2>2
    <2>5. Known[j] \in Arrived
      BY <2>2 DEF Arrived
    <2> HIDE DEF n
    <2>6. /\ root \o Append(Head(queue), n) = Append(Folder, n)
          /\ At(Append(Folder, n)).kind \in KindsSeen(Append(Folder, n))
      BY <2>3, NewEntry
    <2> QED BY <1>1, <2>1, <2>4, <2>5, <2>6
  <1> QED BY <1>1, <1>3, <1>4, <1>5, <1>6, <1>7, <1>8

\* The queue still holds folders that were listed, each of them once.
LEMMA PageQueue ==
  ASSUME ReadingInv, pc = "page", NEW off, PageRead(off), queue' # <<>>, Len(entries') < MAX_ITEMS
  PROVE  QueueInv'
  <1>1. TypeOK /\ TreeInv /\ StartInv /\ QueueInv /\ EntryInv
    BY DEF ReadingInv
  <1>2. /\ off \in {0, 1} /\ Len(queue') \in Nat /\ DOMAIN queue' = 1 .. Len(queue')
        /\ \A j, k \in 1 .. Len(Known) : Known[j] = Known[k] => j = k
        /\ \A k \in 1 .. Len(queue') : k + off \in 1 .. Len(Known) /\ queue'[k] = Known[k + off]
        /\ \A j \in 1 .. Len(Known) :
              \/ j \in 1 .. Len(queue) /\ Known[j] = queue[j]
              \/ /\ operation # "list" /\ Known[j] \in Arrived
                 /\ "directory" \in KindsSeen(root \o Known[j])
    BY <1>1, WaitingNow
  <1>3. /\ root' = root /\ rel' = rel /\ operation' = operation /\ seen' = seen /\ entries' = Found
        /\ queue' \in Seq(Seq(Names)) /\ Len(queue') = Len(Known) - off
    BY DEF PageRead
  <1>4. Listed' = Listed \cup Arrived
    BY <1>1, <1>3, ListedGrows
  <1>5. IsInjective(queue')
    <2>1. ASSUME NEW j \in 1 .. Len(queue'), NEW k \in 1 .. Len(queue'), queue'[j] = queue'[k]
          PROVE  j = k
      <3>1. j + off = k + off
        BY <1>2, <2>1
      <3> QED BY <1>2, <3>1
    <2> QED BY <1>2, <2>1 DEF IsInjective
  <1>6. ASSUME operation = "list" PROVE queue' = <<rel>>
    <2>1. queue = <<rel>> /\ Len(queue) = 1
      BY <1>1, <1>6 DEF QueueInv
    <2>2. Known = queue
      <3>1. queue \in Seq(Seq(Names))
        BY <1>1 DEF TypeOK
      <3>2. queue \o <<>> = queue
        BY <3>1, ConcatEmptySeq
      <3> QED BY <1>6, <3>2 DEF Known
    <2>3. Len(queue') # 0
      BY <1>3, EmptySeq
    <2>4. off = 0
      BY <1>2, <1>3, <2>1, <2>2, <2>3
    <2>5. Len(queue') = Len(queue) /\ \A k \in 1 .. Len(queue') : queue'[k] = queue[k]
      <3>1. Len(queue') = 1
        BY <1>3, <2>1, <2>2, <2>4
      <3>2. ASSUME NEW k \in 1 .. Len(queue') PROVE queue'[k] = queue[k]
        <4>1. k + off = k
          BY <1>2, <2>4
        <4> QED BY <1>2, <2>2, <4>1
      <3> QED BY <2>1, <3>1, <3>2
    <2>6. queue' = queue
      <3> DEFINE b == queue'
      <3>1. queue \in Seq(Seq(Names)) /\ b \in Seq(Seq(Names)) /\ Len(b) = Len(queue)
            /\ \A k \in 1 .. Len(b) : b[k] = queue[k]
        BY <1>1, <1>3, <2>5 DEF TypeOK
      <3> HIDE DEF b
      <3>2. b = queue
        BY <3>1, SeqEqual
      <3> QED BY <3>2 DEF b
    <2> QED BY <2>1, <2>6
  <1>7. ASSUME NEW k \in DOMAIN queue'
        PROVE  /\ queue'[k] \in {rel} \cup Listed'
               /\ IsPrefix(rel, queue'[k])
               /\ root \o queue'[k] \in Places /\ "directory" \in KindsSeen(root \o queue'[k])
    <2> DEFINE j == k + off
    <2>1. j \in 1 .. Len(Known) /\ queue'[k] = Known[j]
      BY <1>2
    <2> HIDE DEF j
    <2>2. CASE j \in 1 .. Len(queue) /\ Known[j] = queue[j]
      <3>1. j \in DOMAIN queue
        BY <1>1, <2>2, FolderFacts
      <3>2. /\ queue[j] \in {rel} \cup Listed /\ IsPrefix(rel, queue[j])
            /\ root \o queue[j] \in Places /\ "directory" \in KindsSeen(root \o queue[j])
        BY <1>1, <3>1 DEF QueueInv
      <3> QED BY <1>4, <2>1, <2>2, <3>2
    <2>3. CASE Known[j] \in Arrived /\ "directory" \in KindsSeen(root \o Known[j])
      <3>1. IsPrefix(rel, Known[j]) /\ root \o Known[j] \in Places
        BY <1>1, <2>3, ArrivedFacts
      <3> QED BY <1>4, <2>1, <2>3, <3>1
    <2> QED BY <1>2, <2>1, <2>2, <2>3
  <1>8. \A k : KindsSeen(root \o queue[k])' = KindsSeen(root \o queue'[k])
    BY <1>3 DEF KindsSeen
  <1> QED BY <1>3, <1>5, <1>6, <1>7, <1>8 DEF QueueInv

\* Entries still lie in folders that are done, or before the cursor of the one in front.
LEMMA PageEntry ==
  ASSUME ReadingInv, pc = "page", NEW off, PageRead(off), queue' # <<>>, NEW q \in Listed'
  PROVE  /\ q # <<>>
         /\ Front(q) \in {rel} \cup Listed'
         /\ \A k \in 2 .. Len(queue') : queue'[k] # Front(q)
         /\ Front(q) = Head(queue') => Position(Last(q)) <= cursor'
  <1>1. TypeOK /\ TreeInv /\ StartInv /\ QueueInv /\ EntryInv
    BY DEF ReadingInv
  <1>2. /\ off \in {0, 1} /\ Len(queue') \in Nat /\ Known[1] = Head(queue)
        /\ \A j, k \in 1 .. Len(Known) : Known[j] = Known[k] => j = k
        /\ \A k \in 1 .. Len(queue') : k + off \in 1 .. Len(Known) /\ queue'[k] = Known[k + off]
        /\ \A j \in 1 .. Len(Known) :
              \/ j \in 1 .. Len(queue) /\ Known[j] = queue[j]
              \/ Known[j] \in Arrived
    BY <1>1, WaitingNow
  <1>3. /\ queue' \in Seq(Seq(Names)) /\ entries' = Found
        /\ \/ off = 0 /\ HasNextLink(Following(Folder)) /\ cursor' = Position(Last(Page))
           \/ off = 1 /\ cursor' = 0
    BY DEF PageRead
  <1>4. Listed' = Listed \cup Arrived
    BY <1>1, <1>3, ListedGrows
  <1>5. Head(queue) \in {rel} \cup Listed /\ Len(queue) \in Nat \ {0}
    BY <1>1, FolderFacts
  <1>6. ASSUME q \in Listed
        PROVE  /\ q # <<>> /\ Front(q) \in {rel} \cup Listed
               /\ \A k \in 2 .. Len(queue) : queue[k] # Front(q)
               /\ Front(q) = Head(queue) => Position(Last(q)) <= cursor
    BY <1>1, <1>6 DEF EntryInv
  <1>7. ASSUME q \in Arrived
        PROVE  /\ q # <<>> /\ Front(q) = Head(queue)
               /\ \E i \in 1 .. Len(Page) : Last(q) = Page[i]
    BY <1>1, <1>7, ArrivedFacts
  <1>8. q # <<>> /\ Front(q) \in {rel} \cup Listed
    BY <1>4, <1>5, <1>6, <1>7
  <1>9. ASSUME NEW j \in 2 .. Len(Known) PROVE Known[j] # Front(q)
    <2>1. j \in 1 .. Len(Known) /\ 1 \in 1 .. Len(Known) /\ j # 1
      OBVIOUS
    <2>2. CASE Known[j] \in Arrived
      <3>1. Known[j] \notin {rel} \cup Listed
        BY <1>1, <2>2, ArrivedFacts
      <3> QED BY <1>8, <3>1
    <2>3. CASE q \in Arrived
      <3>1. Known[j] # Head(queue)
        BY <1>2, <2>1
      <3> QED BY <1>7, <2>3, <3>1
    <2>4. CASE j \in 1 .. Len(queue) /\ Known[j] = queue[j] /\ q \in Listed
      <3>1. j \in 2 .. Len(queue)
        BY <2>1, <2>4
      <3> QED BY <1>6, <2>4, <3>1
    <2> QED BY <1>2, <1>4, <2>1, <2>2, <2>3, <2>4
  <1>10. ASSUME NEW k \in 2 .. Len(queue') PROVE queue'[k] # Front(q)
    <2>1. k + off \in 2 .. Len(Known) /\ queue'[k] = Known[k + off]
      BY <1>2
    <2> QED BY <1>9, <2>1
  <1>11. ASSUME Front(q) = Head(queue') PROVE Position(Last(q)) <= cursor'
    <2>1. 1 \in 1 .. Len(queue') /\ Head(queue') = queue'[1]
      <3>1. Len(queue') \in Nat \ {0}
        BY <1>3, EmptySeq
      <3> QED BY <1>3, <3>1
    <2>2. Front(q) = Known[1 + off] /\ 1 + off \in 1 .. Len(Known)
      BY <1>2, <1>11, <2>1
    <2>3. off = 0
      <3>1. ASSUME off = 1 PROVE FALSE
        <4>1. 1 + off = 2 /\ 2 \in 2 .. Len(Known)
          BY <2>2, <3>1
        <4> QED BY <1>9, <2>2, <4>1
      <3> QED BY <1>2, <3>1
    <2>4. HasNextLink(Following(Folder)) /\ cursor' = Position(Last(Page)) /\ Front(q) = Head(queue)
      <3>1. 1 + off = 1
        BY <2>3
      <3> QED BY <1>2, <1>3, <2>2, <2>3, <3>1
    <2>5. /\ Position(Last(Page)) > cursor /\ Last(Page) \in Names
          /\ \A i \in 1 .. Len(Page) : Position(Page[i]) <= Position(Last(Page))
      <3>1. Folder \in Seq(Names)
        BY <1>1, FolderFacts
      <3> QED BY <1>1, <2>4, <3>1, PageNames DEF Page
    <2>6. CASE q \in Listed
      <3>1. Position(Last(q)) <= cursor /\ Position(Last(Page)) \in Nat /\ cursor \in Nat
        BY <1>1, <1>6, <2>4, <2>5, <2>6, Positions DEF TypeOK
      <3>2. Last(q) \in Names
        <4>1. q \in Seq(Names)
          <5>1. PICK i \in DOMAIN entries : q = entries[i].path
            BY <2>6 DEF Listed
          <5>2. entries[i] \in [path: Seq(Names), kind: {"file", "directory"}]
            <6> DEFINE Entry == [path: Seq(Names), kind: {"file", "directory"}]
            <6>1. entries \in Seq(Entry)
              BY <1>1 DEF TypeOK
            <6> HIDE DEF Entry
            <6>2. entries[i] \in Entry
              BY <6>1, <5>1, LenProperties, ElementOfSeq
            <6> QED BY <6>2 DEF Entry
          <5> QED BY <5>1, <5>2
        <4> QED BY <1>8, <4>1, FrontAndLast
      <3>3. Position(Last(q)) \in Nat
        BY <3>2, Positions
      <3> QED BY <2>4, <2>5, <3>1, <3>3
    <2>7. CASE q \in Arrived
      BY <1>7, <2>4, <2>5, <2>7
    <2> QED BY <1>4, <2>6, <2>7
  <1> QED BY <1>4, <1>8, <1>10, <1>11

\* Whatever stays was listed, or will be met.
LEMMA PageMeets ==
  ASSUME ReadingInv, pc = "page", NEW off, PageRead(off), NEW p \in Places, Stays(p)
  PROVE  LET q == FromRoot(p) IN
         \/ q \in Listed'
         \/ /\ \E k \in DOMAIN queue' : queue'[k] = Front(q)
            /\ Front(q) = Head(queue') => Position(Last(q)) > cursor'
         \/ Front(q) \notin {rel} \cup Listed'
  <1>1. TypeOK /\ TreeInv /\ StartInv /\ QueueInv /\ EntryInv /\ LastingInv
    BY DEF ReadingInv
  <1>2. /\ off \in {0, 1} /\ DOMAIN queue' = 1 .. Len(queue') /\ Known[1] = Head(queue)
        /\ \A k \in 1 .. Len(queue') : k + off \in 1 .. Len(Known) /\ queue'[k] = Known[k + off]
        /\ \A j \in 2 .. Len(Known) : \E k \in 1 .. Len(queue') : queue'[k] = Known[j]
    BY <1>1, WaitingNow
  <1>3. /\ queue' \in Seq(Seq(Names)) /\ entries' = Found /\ Len(queue') = Len(Known) - off
        /\ \/ off = 0 /\ HasNextLink(Following(Folder)) /\ cursor' = Position(Last(Page))
           \/ off = 1 /\ ~HasNextLink(Following(Folder)) /\ cursor' = 0
    BY DEF PageRead
  <1>4. Listed' = Listed \cup Arrived
    BY <1>1, <1>3, ListedGrows
  <1>5. /\ Head(queue) \in {rel} \cup Listed /\ Len(queue) \in Nat \ {0} /\ DOMAIN queue = 1 .. Len(queue)
        /\ Head(queue) = queue[1] /\ Head(queue) \in Seq(Names) /\ IsPrefix(rel, Head(queue))
        /\ root \in Seq(Names) /\ rel \in Seq(Names) /\ Folder \in Seq(Names)
        /\ Folder = root \o Head(queue)
    BY <1>1, FolderFacts DEF Folder
  <1>6. /\ Len(Known) \in Nat /\ Len(Known) >= Len(queue)
        /\ \A k \in 1 .. Len(queue) : Known[k] = queue[k]
        /\ operation # "list" => \A i \in 1 .. Len(Page) :
              At(Append(Folder, Page[i])).kind = "directory"
                 => \E k \in Len(queue) + 1 .. Len(Known) : Known[k] = Append(Head(queue), Page[i])
    BY <1>1, KnownFolders
  <1> DEFINE q == FromRoot(p)
             f == Front(q)
             n == Last(q)
  <1>7. /\ q \in Seq(Names) /\ q # <<>> /\ p = root \o q /\ f \in Seq(Names) /\ n \in Names
        /\ q = Append(f, n) /\ Front(p) = root \o f /\ Last(p) = n
        /\ Len(p) = Len(root) + Len(q)
    BY <1>5, StayingPlace DEF Stays
  <1>8. Met(q)
    BY <1>1 DEF LastingInv
  <1> HIDE DEF q
  <1>9. Position(n) \in Nat \ {0}
    BY <1>7, Positions
  <1>10. tree[p] # Nothing /\ Watching /\ tree \in [Places -> Items \cup {Nothing}]
    <2>1. configured # <<>>
      BY <1>1 DEF StartInv
    <2>2. Watching
      BY <2>1 DEF Watching
    <2> QED BY <1>1, <2>2 DEF TreeInv, TypeOK, Stays
  <1>11. ASSUME NEW j \in 2 .. Len(Known), Known[j] = f, f # Head(queue)
         PROVE  /\ \E k \in DOMAIN queue' : queue'[k] = f
                /\ f = Head(queue') => Position(n) > cursor'
    <2>1. PICK k \in 1 .. Len(queue') : queue'[k] = f
      BY <1>2, <1>11
    <2>2. CASE off = 0
      <3>1. Head(queue') = queue'[1] /\ queue'[1] = Known[1 + off] /\ 1 + off = 1
        <4>1. queue' # <<>> /\ 1 \in 1 .. Len(queue')
          BY <1>3, <2>1, EmptySeq
        <4> QED BY <1>2, <1>3, <2>2, <4>1
      <3>2. Head(queue') = Head(queue)
        BY <1>2, <3>1
      <3> QED BY <1>2, <1>11, <2>1, <3>2
    <2>3. CASE off = 1
      <3>1. cursor' = 0
        BY <1>3, <2>3
      <3>2. Position(n) > cursor'
        BY <1>9, <3>1
      <3> QED BY <1>2, <2>1, <3>2
    <2> QED BY <1>2, <2>2, <2>3
  <1>12. CASE f = Head(queue) /\ q \notin Listed
    <2>1. Position(n) > cursor
      BY <1>5, <1>8, <1>12 DEF Met
    <2>2. At(Append(Folder, n)).kind # "none" /\ At(Append(Folder, n)) = tree[p]
      <3>1. p = Append(root \o f, n)
        <4>1. root \in Seq(Names) /\ f \in Seq(Names) /\ n \in Names /\ p = root \o Append(f, n)
          BY <1>5, <1>7
        <4> HIDE DEF f, n
        <4> QED BY <4>1, ConcatAppend
      <3>2. p = Append(Folder, n)
        BY <1>5, <1>12, <3>1
      <3>3. At(p) = tree[p] /\ tree[p].kind # "none"
        BY <1>10, ItemKinds DEF At
      <3> QED BY <3>2, <3>3
    <2>3. \/ \E i \in 1 .. Len(Page) : Page[i] = n
          \/ HasNextLink(Following(Folder)) /\ Position(n) > Position(Last(Page))
      BY <1>1, <1>5, <1>7, <2>1, <2>2, PageNames DEF Page
    <2>4. CASE \E i \in 1 .. Len(Page) : Page[i] = n
      <3>1. q \in Arrived
        BY <1>7, <1>12, <2>4 DEF Arrived
      <3> QED BY <1>4, <3>1 DEF q
    <2>5. CASE HasNextLink(Following(Folder)) /\ Position(n) > Position(Last(Page))
      <3>1. off = 0 /\ cursor' = Position(Last(Page))
        BY <1>3, <2>5
      <3>2. 1 \in 1 .. Len(queue') /\ 1 + off = 1
        BY <1>3, <1>5, <1>6, <3>1
      <3>3. queue'[1] = f
        BY <1>2, <1>12, <3>2
      <3> QED BY <1>2, <2>5, <3>1, <3>2, <3>3 DEF q
    <2> QED BY <2>3, <2>4, <2>5
  <1>13. CASE f # Head(queue) /\ q \notin Listed /\ \E k \in DOMAIN queue : queue[k] = f
    <2>1. PICK k \in 1 .. Len(queue) : queue[k] = f
      BY <1>5, <1>13
    <2>2. k # 1
      BY <1>5, <1>13, <2>1
    <2>3. k \in 2 .. Len(Known) /\ Known[k] = f
      BY <1>5, <1>6, <2>1, <2>2
    <2> QED BY <1>11, <1>13, <2>3 DEF q
  <1>14. CASE f \notin {rel} \cup Listed /\ f \in Arrived
    <2>1. PICK i \in 1 .. Len(Page) :
             /\ f = Append(Head(queue), Page[i])
             /\ Len(f) = Len(Head(queue)) + 1
             /\ root \o f = Append(Folder, Page[i]) /\ root \o f \in Places
             /\ At(Append(Folder, Page[i])).kind \in KindsSeen(root \o f)
      BY <1>1, <1>14, ArrivedFacts
    <2>2. KindsSeen(root \o f) = {"directory"}
      <3> DEFINE x == Front(p)
      <3>1. x \in Places /\ x = root \o f
        BY <1>7, <2>1
      <3>2. IsStrictPrefix(x, p)
        <4>1. p \in Seq(Names) /\ p # <<>> /\ x \in Seq(Names)
          BY PlaceFacts
        <4>2. IsPrefix(x, x)
          BY <4>1, PrefixOrder
        <4> HIDE DEF x
        <4>3. IsStrictPrefix(x, p) <=> IsPrefix(x, Front(p))
          BY <4>1, PrefixOfFront
        <4> QED BY <4>2, <4>3 DEF x
      <3> HIDE DEF x
      <3>3. Nothing \notin seen[p]
        BY DEF Stays
      <3>4. KindsSeen(x) = {"directory"}
        BY <1>1, <1>10, <3>1, <3>2, <3>3 DEF TreeInv
      <3> QED BY <3>1, <3>4
    <2>3. At(Append(Folder, Page[i])).kind = "directory"
      BY <2>1, <2>2
    <2>4. operation # "list"
      <3>1. ASSUME operation = "list" PROVE FALSE
        <4>1. Len(p) = Len(Base) + 1
          BY <3>1 DEF Stays
        <4>2. Len(Base) = Len(root) + Len(rel) /\ Len(root) \in Nat /\ Len(rel) \in Nat
          BY <1>5, ConcatProperties DEF Base
        <4>3. Len(rel) <= Len(Head(queue)) /\ Len(Head(queue)) \in Nat
          BY <1>5 DEF IsPrefix
        <4>4. Len(q) = Len(f) + 1
          BY <1>7, AppendProperties
        <4> QED BY <1>7, <2>1, <4>1, <4>2, <4>3, <4>4
      <3> QED BY <3>1
    <2>5. PICK k \in Len(queue) + 1 .. Len(Known) : Known[k] = Append(Head(queue), Page[i])
      BY <1>6, <2>3, <2>4
    <2>6. k \in 2 .. Len(Known) /\ Known[k] = f
      BY <1>5, <1>6, <2>1, <2>5
    <2>7. f # Head(queue)
      BY <1>5, <1>14
    <2> QED BY <1>11, <2>6, <2>7 DEF q
  <1>15. CASE q \in Listed
    BY <1>4, <1>15 DEF q
  <1>16. CASE f \notin {rel} \cup Listed /\ f \notin Arrived
    BY <1>4, <1>16 DEF q
  <1>17. \/ q \in Listed
         \/ \E k \in DOMAIN queue : queue[k] = f
         \/ f \notin {rel} \cup Listed
    BY <1>8 DEF Met
  <1> QED BY <1>12, <1>13, <1>14, <1>15, <1>16, <1>17

\* All that stays is listed once each of it is, or lies in a folder that is not: such a
\* folder would stay as well, and so on up to the folder that was asked for.
LEMMA AllStayingListed ==
  ASSUME TypeOK, TreeInv, Watching, NEW D,
         \A p \in Places : Stays(p) => \/ FromRoot(p) \in D
                                       \/ Front(FromRoot(p)) \notin {rel} \cup D
  PROVE  \A p \in Places : Stays(p) => FromRoot(p) \in D
  <1> DEFINE U == {p \in Places : Stays(p) /\ FromRoot(p) \notin D}
  <1>1. root \in Seq(Names) /\ rel \in Seq(Names) /\ Base \in Seq(Names)
    BY ConcatProperties DEF TypeOK, Base
  <1>2. ASSUME U # {} PROVE FALSE
    <2>1. U \subseteq Seq(Names)
      BY PlaceFacts
    <2>2. PICK p \in U : \A u \in U : Len(p) <= Len(u)
      <3> HIDE DEF U
      <3> QED BY <1>2, <2>1, Shortest
    <2> DEFINE x == Front(p)
               f == Front(FromRoot(p))
    <2>3. p \in Places /\ Stays(p) /\ IsStrictPrefix(Base, p) /\ f \notin {rel} \cup D
      BY <2>2 DEF Stays
    <2>4. x = root \o f /\ f \in Seq(Names)
      BY <1>1, <2>3, StayingPlace
    <2>5. /\ p \in Seq(Names) /\ p # <<>> /\ x \in Seq(Names) /\ Len(x) = Len(p) - 1
          /\ Len(p) \in Nat \ {0} /\ (Len(p) > 1 => x \in Places)
      BY <2>3, PlaceFacts
    <2>6. IsPrefix(Base, x) /\ IsStrictPrefix(x, p)
      <3>1. \A s \in Seq(Names) : IsStrictPrefix(s, p) <=> IsPrefix(s, x)
        BY <2>5, PrefixOfFront
      <3>2. IsPrefix(x, x)
        BY <2>5, PrefixOrder
      <3> QED BY <1>1, <2>3, <2>5, <3>1, <3>2
    <2>7. Base # x
      <3>1. rel # f
        BY <2>3
      <3> HIDE DEF f, x
      <3>2. root \o rel = root \o f => rel = f
        BY <1>1, <2>4, Cancel
      <3> QED BY <2>4, <3>1, <3>2 DEF Base
    <2> HIDE DEF x, f
    <2>8. IsStrictPrefix(Base, x) /\ Len(Base) < Len(x) /\ Len(Base) \in Nat
      <3>1. IsStrictPrefix(Base, x)
        BY <2>6, <2>7 DEF IsStrictPrefix
      <3>2. Len(Base) < Len(x)
        BY <1>1, <2>5, <3>1, PrefixOrder
      <3>3. Len(Base) \in Nat
        BY <1>1, LenProperties
      <3> QED BY <3>1, <3>2, <3>3
    <2>9. x \in Places
      BY <2>5, <2>8
    <2>10. Nothing \notin seen[x]
      <3>1. KindsSeen(x) = {"directory"}
        BY <2>3, <2>6, <2>9 DEF TreeInv, Stays
      <3> QED BY <3>1 DEF KindsSeen, Nothing
    <2>11. operation # "list"
      BY <2>3, <2>5, <2>8 DEF Stays
    <2>12. Stays(x)
      BY <2>8, <2>9, <2>10, <2>11 DEF Stays
    <2>13. FromRoot(x) = f
      <3>1. x = root \o FromRoot(x) /\ FromRoot(x) \in Seq(Names)
        BY <1>1, <2>8, <2>9, StayingPlace
      <3> DEFINE y == FromRoot(x)
      <3>2. root \o y = root \o f /\ y \in Seq(Names)
        BY <2>4, <3>1
      <3> HIDE DEF y
      <3>3. root \o y = root \o f => y = f
        BY <1>1, <2>4, <3>2, Cancel
      <3> QED BY <3>2, <3>3 DEF y
    <2>14. x \in U
      BY <2>3, <2>9, <2>12, <2>13
    <2> QED BY <2>2, <2>5, <2>14
  <1> QED BY <1>2

\* What reading a page does, in the terms above.
LEMMA ReadPageSteps ==
  ASSUME ReadPage
  PROVE  /\ configured' = configured /\ url' = url /\ root' = root /\ path' = path /\ rel' = rel
         /\ operation' = operation /\ tree' = tree /\ item' = item /\ content' = content
         /\ seen' = seen /\ changes' = changes /\ pc = "page"
         /\ addressed' = addressed \cup {Folder}
         /\ \/ /\ Len(Found) >= MAX_ITEMS /\ entries' = SubSeq(Found, 1, MAX_ITEMS)
               /\ pc' = "done" /\ answer' = "truncated" /\ tries' = tries
               /\ queue' = queue /\ cursor' = cursor
            \/ /\ ~(Len(Found) >= MAX_ITEMS) /\ entries' = Found
               /\ HasNextLink(Following(Folder)) /\ cursor' = Position(Last(Page))
               /\ queue' = Known /\ pc' = "page" /\ answer' = answer /\ tries' = 0
            \/ /\ ~(Len(Found) >= MAX_ITEMS) /\ entries' = Found
               /\ ~HasNextLink(Following(Folder)) /\ cursor' = 0 /\ queue' = Tail(Known)
               /\ \/ queue' = <<>> /\ pc' = "done" /\ answer' = "listed" /\ tries' = tries
                  \/ queue' # <<>> /\ pc' = "page" /\ answer' = answer /\ tries' = 0
  <1>1. /\ pc = "page" /\ addressed' = addressed \cup {Folder}
        /\ IF Len(Found) >= MAX_ITEMS
           THEN /\ entries' = SubSeq(Found, 1, MAX_ITEMS)
                /\ Answer("truncated") /\ UNCHANGED <<queue, cursor>>
           ELSE /\ entries' = Found
                /\ IF HasNextLink(Following(Folder))
                   THEN /\ cursor' = Position(Last(Page))
                        /\ queue' = Known /\ Call("page")
                   ELSE /\ cursor' = 0 /\ queue' = Tail(Known)
                        /\ IF Tail(Known) = <<>> THEN Answer("listed") ELSE Call("page")
        /\ UNCHANGED <<inputs, tree, reading, seen, changes>>
    BY DEF ReadPage, Page, PageOf, Folder, Found, Folders, Known
  <1>2. /\ configured' = configured /\ url' = url /\ root' = root /\ path' = path /\ rel' = rel
        /\ operation' = operation /\ tree' = tree /\ item' = item /\ content' = content
        /\ seen' = seen /\ changes' = changes
    BY <1>1 DEF inputs, reading
  <1> QED BY <1>1, <1>2 DEF Answer, Call

\* Full, or done with every folder, the listing is answered; else it goes on.
LEMMA ReadPageKeeps ==
  ASSUME ReadingInv, ReadPage
  PROVE  ReadingInv'
  <1>1. TypeOK /\ StartInv /\ TreeInv /\ ReadInv /\ QueueInv /\ EntryInv /\ LastingInv
    BY DEF ReadingInv
  <1>2. /\ configured' = configured /\ url' = url /\ root' = root /\ path' = path /\ rel' = rel
        /\ operation' = operation /\ tree' = tree /\ item' = item /\ content' = content
        /\ seen' = seen /\ changes' = changes /\ pc = "page"
        /\ addressed' = addressed \cup {Folder}
    BY ReadPageSteps
  <1>3. \/ /\ Len(Found) >= MAX_ITEMS /\ entries' = SubSeq(Found, 1, MAX_ITEMS)
           /\ pc' = "done" /\ answer' = "truncated" /\ tries' = tries
           /\ queue' = queue /\ cursor' = cursor
        \/ /\ ~(Len(Found) >= MAX_ITEMS) /\ entries' = Found
           /\ HasNextLink(Following(Folder)) /\ cursor' = Position(Last(Page))
           /\ queue' = Known /\ pc' = "page" /\ answer' = answer /\ tries' = 0
        \/ /\ ~(Len(Found) >= MAX_ITEMS) /\ entries' = Found
           /\ ~HasNextLink(Following(Folder)) /\ cursor' = 0 /\ queue' = Tail(Known)
           /\ \/ queue' = <<>> /\ pc' = "done" /\ answer' = "listed" /\ tries' = tries
              \/ queue' # <<>> /\ pc' = "page" /\ answer' = answer /\ tries' = 0
    BY ReadPageSteps
  <1>4. /\ configured # <<>> /\ root = configured /\ operation # "read" /\ answer = "none"
        /\ Watching
    BY <1>1, <1>2 DEF StartInv, ReadInv, Watching
  <1>5. /\ root \in Seq(Names) /\ rel \in Seq(Names) /\ Folder \in Seq(Names)
        /\ Len(queue) \in Nat \ {0} /\ Head(queue) \in Seq(Names)
    BY <1>1, <1>2, FolderFacts
  <1> DEFINE Entry == [path: Seq(Names), kind: {"file", "directory"}]
  <1>6. /\ Found \in Seq(Entry) /\ Len(Found) \in Nat
        /\ \A i \in 1 .. Len(Found) :
              /\ root \o Found[i].path \in Places
              /\ Found[i].kind \in KindsSeen(root \o Found[i].path)
        /\ \A i, j \in 1 .. Len(Found) : Found[i].path = Found[j].path => i = j
    <2>1. /\ Found \in Seq(Entry)
          /\ \A i \in 1 .. Len(Found) :
                /\ root \o Found[i].path \in Places
                /\ Found[i].kind \in KindsSeen(root \o Found[i].path)
          /\ \A i, j \in 1 .. Len(Found) : Found[i].path = Found[j].path => i = j
      BY <1>1, <1>2, FoundEntries
    <2> HIDE DEF Entry
    <2> QED BY <2>1, LenProperties
  <1>7. Known \in Seq(Seq(Names)) /\ Len(Known) \in Nat \ {0}
    BY <1>1, <1>2, <1>5, KnownFolders
  <1> HIDE DEF Entry
  <1>8. MAX_ITEMS \in Nat \ {0}
    BY ReadAssumption
  <1>9. /\ entries' \in Seq(Entry) /\ Len(entries') \in Nat /\ DOMAIN entries' = 1 .. Len(entries')
        /\ \A i \in 1 .. Len(entries') : i \in 1 .. Len(Found) /\ entries'[i] = Found[i]
        /\ answer' = "truncated" => Len(entries') = MAX_ITEMS
    <2>1. CASE entries' = Found /\ answer' # "truncated"
      BY <1>6, <2>1, LenProperties
    <2>2. CASE Len(Found) >= MAX_ITEMS /\ entries' = SubSeq(Found, 1, MAX_ITEMS)
      <3> DEFINE cut == SubSeq(Found, 1, MAX_ITEMS)
      <3>1. MAX_ITEMS \in Int /\ \A i \in 1 .. MAX_ITEMS : i \in 1 .. Len(Found)
        BY <1>6, <1>8, <2>2
      <3>2. \A i \in 1 .. MAX_ITEMS : Found[i] \in Entry
        BY <1>6, <3>1, ElementOfSeq
      <3>3. /\ cut \in Seq(Entry) /\ Len(cut) = IF 1 <= MAX_ITEMS THEN MAX_ITEMS - 1 + 1 ELSE 0
            /\ \A i \in 1 .. MAX_ITEMS - 1 + 1 : cut[i] = Found[1 + i - 1]
        BY <3>1, <3>2, SubSeqProperties
      <3>4. MAX_ITEMS - 1 + 1 = MAX_ITEMS /\ 1 <= MAX_ITEMS /\ \A i \in Int : 1 + i - 1 = i
        BY <1>8
      <3> HIDE DEF cut
      <3>5. Len(cut) = MAX_ITEMS /\ \A i \in 1 .. MAX_ITEMS : cut[i] = Found[i]
        BY <3>3, <3>4
      <3>6. DOMAIN cut = 1 .. Len(cut)
        BY <3>3, LenProperties
      <3>7. entries' = cut
        BY <2>2 DEF cut
      <3> QED BY <1>8, <3>1, <3>3, <3>5, <3>6, <3>7
    <2> QED BY <1>3, <1>4, <2>1, <2>2
  <1>10. \A off : off = 0 /\ pc' = "page" /\ queue' = Known /\ entries' = Found
                  /\ HasNextLink(Following(Folder)) /\ cursor' = Position(Last(Page))
                     => PageRead(off)
    <2>1. Len(Known) - 0 = Len(Known) /\ \A k \in 1 .. Len(Known) : k + 0 = k
      BY <1>7
    <2>2. \A off : off = 0 => Len(Known) - off = Len(Known) /\ \A k \in 1 .. Len(Known) : k + off = k
      BY <2>1
    <2> QED BY <1>2, <1>7, <2>2 DEF PageRead
  <1>11. \A off : off = 1 /\ queue' = Tail(Known) /\ entries' = Found
                  /\ ~HasNextLink(Following(Folder)) /\ cursor' = 0
                     => PageRead(off)
    <2> DEFINE rest == Tail(Known)
    <2>1. /\ rest \in Seq(Seq(Names)) /\ Len(rest) = Len(Known) - 1
          /\ \A k \in 1 .. Len(rest) : rest[k] = Known[k + 1]
      <3>1. Known # <<>>
        BY <1>7, EmptySeq
      <3> QED BY <1>7, <3>1, HeadTailProperties
    <2> HIDE DEF rest
    <2>2. ASSUME queue' = rest, entries' = Found,
                 ~HasNextLink(Following(Folder)), cursor' = 0
          PROVE  PageRead(1)
      BY <1>2, <2>1, <2>2 DEF PageRead
    <2> QED BY <2>2 DEF rest
  <1>12. answer' # "truncated" => \E off : PageRead(off) /\ (pc' = "page" => queue' # <<>>)
                                           /\ (pc' = "done" => queue' = <<>>)
    <2>1. Known # <<>>
      BY <1>7, EmptySeq
    <2> QED BY <1>3, <1>10, <1>11, <2>1
  <1>13. TypeOK'
    <2>1. cursor' \in 0 .. Len(NameOrder)
      <3>1. CASE cursor' = cursor
        BY <1>1, <3>1 DEF TypeOK
      <3>2. CASE HasNextLink(Following(Folder)) /\ cursor' = Position(Last(Page))
        <4>1. Last(Page) \in Names
          BY <1>1, <1>5, <3>2, PageNames DEF Page
        <4>2. Position(Last(Page)) \in 1 .. Len(NameOrder)
          BY <4>1, Positions
        <4> QED BY <3>2, <4>2
      <3>3. CASE cursor' = 0
        <4>1. cursor \in 0 .. Len(NameOrder)
          BY <1>1 DEF TypeOK
        <4> QED BY <3>3, <4>1
      <3> QED BY <1>3, <3>1, <3>2, <3>3
    <2>2. tries' \in 0 .. MAX_RETRIES
      <3>1. 0 \in 0 .. MAX_RETRIES
        BY ReadAssumption
      <3> QED BY <1>1, <1>3, <3>1 DEF TypeOK
    <2>3. queue' \in Seq(Seq(Names))
      <3>1. Known # <<>>
        BY <1>7, EmptySeq
      <3>2. Tail(Known) \in Seq(Seq(Names))
        BY <1>7, <3>1, HeadTailProperties
      <3> QED BY <1>1, <1>3, <1>7, <3>2 DEF TypeOK
    <2>4. /\ pc' \in {"start", "admit", "look", "page", "content", "redirected", "done"}
          /\ answer' \in {"none", "listed", "truncated"}
      BY <1>3, <1>4
    <2>5. addressed' \subseteq Seq(Names)
      BY <1>1, <1>2, <1>5 DEF TypeOK
    <2> QED BY <1>1, <1>2, <1>9, <2>1, <2>2, <2>3, <2>4, <2>5 DEF TypeOK, Entry
  <1>14. StartInv'
    <2>1. IsPrefix(configured, Folder)
      BY <1>4, <1>5, PrefixConcat DEF Folder
    <2> QED BY <1>1, <1>2, <1>3, <1>4, <2>1 DEF StartInv
  <1>15. TreeInv'
    <2>1. \A p : KindsSeen(p)' = KindsSeen(p)
      BY <1>2 DEF KindsSeen
    <2>2. KindsSeen(configured)' = KindsSeen(configured)
      BY <1>2 DEF KindsSeen
    <2> QED BY <1>1, <1>2, <1>4, <2>1, <2>2 DEF TreeInv, InFolders
  <1>16. ReadInv'
    BY <1>2, <1>3, <1>4 DEF ReadInv
  <1>17. QueueInv'
    <2>1. CASE pc' = "page"
      <3>1. PICK off : PageRead(off) /\ queue' # <<>>
        BY <1>3, <1>4, <1>12, <2>1
      <3>2. Len(entries') < MAX_ITEMS
        BY <1>3, <1>6, <1>8, <2>1
      <3> QED BY <1>2, <3>1, <3>2, PageQueue
    <2> QED BY <2>1 DEF QueueInv
  <1>18. /\ \A i \in DOMAIN entries' :
               /\ root \o entries'[i].path \in Places
               /\ entries'[i].kind \in KindsSeen(root \o entries'[i].path)
         /\ IsInjective([i \in DOMAIN entries' |-> entries'[i].path])
    <2>1. \A i \in DOMAIN entries' :
             /\ root \o entries'[i].path \in Places
             /\ entries'[i].kind \in KindsSeen(root \o entries'[i].path)
      BY <1>6, <1>9
    <2>2. \A i, j \in DOMAIN entries' : entries'[i].path = entries'[j].path => i = j
      BY <1>6, <1>9
    <2> QED BY <2>1, <2>2 DEF IsInjective
  <1>19. \A i : KindsSeen(root \o entries[i].path)' = KindsSeen(root \o entries'[i].path)
    BY <1>2 DEF KindsSeen
  <1>20. EntryInv'
    <2>1. ASSUME pc' = "page", NEW q \in Listed'
          PROVE  /\ q # <<>>
                 /\ Front(q) \in {rel} \cup Listed'
                 /\ \A k \in 2 .. Len(queue') : queue'[k] # Front(q)
                 /\ Front(q) = Head(queue') => Position(Last(q)) <= cursor'
      <3>1. PICK off : PageRead(off) /\ queue' # <<>>
        BY <1>3, <1>4, <1>12, <2>1
      <3> QED BY <1>2, <2>1, <3>1, PageEntry
    <2> QED BY <1>2, <1>18, <1>19, <2>1 DEF EntryInv
  <1>21. \A p : Stays(p)' = Stays(p) /\ FromRoot(p)' = FromRoot(p)
    BY <1>2 DEF Stays, FromRoot, Base
  <1>22. LastingInv'
    <2>1. ASSUME pc' = "page", NEW p \in Places, Stays(p)
          PROVE  \/ FromRoot(p) \in Listed'
                 \/ /\ \E k \in DOMAIN queue' : queue'[k] = Front(FromRoot(p))
                    /\ Front(FromRoot(p)) = Head(queue') => Position(Last(FromRoot(p))) > cursor'
                 \/ Front(FromRoot(p)) \notin {rel} \cup Listed'
      <3>1. PICK off : PageRead(off)
        BY <1>3, <1>4, <1>12, <2>1
      <3> QED BY <1>2, <2>1, <3>1, PageMeets
    <2>2. \A p : Met(FromRoot(p))' <=>
                    \/ FromRoot(p) \in Listed'
                    \/ /\ \E k \in DOMAIN queue' : queue'[k] = Front(FromRoot(p))
                       /\ Front(FromRoot(p)) = Head(queue') => Position(Last(FromRoot(p))) > cursor'
                    \/ Front(FromRoot(p)) \notin {rel} \cup Listed'
      BY <1>2, <1>21 DEF Met
    <2> QED BY <1>21, <2>1, <2>2 DEF LastingInv
  <1>23. ListedWasThere'
    BY <1>2, <1>3, <1>4, <1>18, <1>19 DEF ListedWasThere, KindsSeen
  <1>24. ListingIsComplete'
    <2>1. ASSUME answer' = "listed" PROVE \A p \in Places : Stays(p) => FromRoot(p) \in Listed'
      <3>1. PICK off : PageRead(off) /\ queue' = <<>>
        BY <1>3, <1>4, <1>12, <2>1
      <3>2. DOMAIN queue' = {}
        BY <3>1
      <3>3. ASSUME NEW p \in Places, Stays(p)
            PROVE  FromRoot(p) \in Listed' \/ Front(FromRoot(p)) \notin {rel} \cup Listed'
        BY <1>2, <3>1, <3>2, <3>3, PageMeets
      <3> DEFINE D == Listed'
      <3>4. \A p \in Places : Stays(p) => FromRoot(p) \in D \/ Front(FromRoot(p)) \notin {rel} \cup D
        BY <3>3
      <3> HIDE DEF D
      <3>5. \A p \in Places : Stays(p) => FromRoot(p) \in D
        BY <1>1, <1>4, <3>4, AllStayingListed
      <3> QED BY <3>5 DEF D
    <2>2. answer' = "listed" => Len(entries') < MAX_ITEMS
      BY <1>3, <1>4, <1>6, <1>8
    <2>3. Listed' = {entries'[i].path : i \in DOMAIN entries'}
      BY DEF Listed
    <2> QED BY <1>2, <1>9, <2>1, <2>2, <2>3 DEF ListingIsComplete, Stays, FromRoot, Base
  <1>25. ReadIsHonest'
    BY <1>2, <1>3, <1>4 DEF ReadIsHonest
  <1> QED BY <1>13, <1>14, <1>15, <1>16, <1>17, <1>20, <1>22, <1>23, <1>24, <1>25 DEF ReadingInv

\* A folder that is gone, or has become a file: what it held does not stay.
LEMMA ReadPageElsewhereKeeps ==
  ASSUME ReadingInv, ReadPageElsewhere
  PROVE  ReadingInv'
  <1>1. TypeOK /\ StartInv /\ TreeInv /\ ReadInv /\ QueueInv /\ EntryInv /\ LastingInv
    BY DEF ReadingInv
  <1>2. /\ configured' = configured /\ url' = url /\ root' = root /\ path' = path /\ rel' = rel
        /\ operation' = operation /\ tree' = tree /\ item' = item /\ content' = content
        /\ seen' = seen /\ changes' = changes /\ pc = "page" /\ entries' = entries
        /\ addressed' = addressed \cup {Folder} /\ At(Folder).kind # "directory"
    BY DEF ReadPageElsewhere, Folder, Answer, Call, inputs, reading, listing
  <1>3. \/ pc' = "done" /\ answer' = "not_found" /\ tries' = tries /\ queue' = queue /\ cursor' = cursor
        \/ /\ At(Folder).kind = "file"
           /\ \/ /\ pc' = "done" /\ answer' = "bad_request" /\ tries' = tries
                 /\ queue' = queue /\ cursor' = cursor
              \/ /\ queue' = Tail(queue) /\ cursor' = 0
                 /\ \/ queue' = <<>> /\ pc' = "done" /\ answer' = "listed" /\ tries' = tries
                    \/ queue' # <<>> /\ pc' = "page" /\ answer' = answer /\ tries' = 0
    BY DEF ReadPageElsewhere, Folder, Answer, Call, listing
  <1>4. /\ configured # <<>> /\ root = configured /\ operation # "read" /\ answer = "none"
        /\ Watching
    BY <1>1, <1>2 DEF StartInv, ReadInv, Watching
  <1>5. /\ root \in Seq(Names) /\ rel \in Seq(Names) /\ Folder \in Seq(Names) /\ Folder \in Places
        /\ Len(queue) \in Nat \ {0} /\ DOMAIN queue = 1 .. Len(queue) /\ queue # <<>>
        /\ Head(queue) = queue[1] /\ Head(queue) \in Seq(Names)
        /\ "directory" \in KindsSeen(Folder) /\ IsPrefix(Base, Folder)
    BY <1>1, <1>2, FolderFacts
  <1>6. /\ At(Folder).kind \in KindsSeen(Folder) /\ Nothing \in seen[Folder]
        /\ At(Folder).kind \in {"file", "none"}
    <2>1. At(Folder) = tree[Folder] /\ tree[Folder] \in seen[Folder]
          /\ tree[Folder] \in Items \cup {Nothing}
      BY <1>1, <1>4, <1>5 DEF At, TreeInv, TypeOK
    <2>2. At(Folder).kind \in {"file", "none"} /\ (At(Folder).kind = "none" => At(Folder) = Nothing)
      BY <1>2, <2>1, ItemKinds
    <2>3. At(Folder).kind \in KindsSeen(Folder)
      BY <2>1 DEF KindsSeen
    <2>4. At(Folder).kind = "file" => Nothing \in seen[Folder]
      BY <1>1, <1>4, <1>5, <2>3 DEF TreeInv
    <2> QED BY <2>1, <2>2, <2>3, <2>4
  <1>7. /\ Tail(queue) \in Seq(Seq(Names)) /\ Len(Tail(queue)) = Len(queue) - 1
        /\ \A k \in 1 .. Len(Tail(queue)) : Tail(queue)[k] = queue[k + 1]
        /\ DOMAIN Tail(queue) = 1 .. Len(Tail(queue))
    <2>1. queue \in Seq(Seq(Names))
      BY <1>1 DEF TypeOK
    <2> DEFINE rest == Tail(queue)
    <2>2. /\ rest \in Seq(Seq(Names)) /\ Len(rest) = Len(queue) - 1
          /\ \A k \in 1 .. Len(rest) : rest[k] = queue[k + 1]
      BY <1>5, <2>1, HeadTailProperties
    <2> HIDE DEF rest
    <2>3. DOMAIN rest = 1 .. Len(rest)
      BY <2>2, LenProperties
    <2> QED BY <2>2, <2>3 DEF rest
  <1>8. /\ \A p : KindsSeen(p)' = KindsSeen(p) /\ Stays(p)' = Stays(p) /\ FromRoot(p)' = FromRoot(p)
        /\ Listed' = Listed /\ KindsSeen(configured)' = KindsSeen(configured)
    BY <1>2 DEF KindsSeen, Stays, FromRoot, Listed, Base
  <1>9. ASSUME queue' = Tail(queue), cursor' = 0
        PROVE  /\ \A k \in 1 .. Len(queue') : /\ k + 1 \in 2 .. Len(queue)
                                              /\ queue'[k] = queue[k + 1]
               /\ Len(queue') \in Nat /\ Len(queue') = Len(queue) - 1
               /\ DOMAIN queue' = 1 .. Len(queue')
               /\ \A k \in 2 .. Len(queue) : \E j \in 1 .. Len(queue') : queue'[j] = queue[k]
    <2> DEFINE rest == queue'
    <2>1. /\ Len(rest) = Len(queue) - 1 /\ DOMAIN rest = 1 .. Len(rest)
          /\ \A k \in 1 .. Len(rest) : rest[k] = queue[k + 1]
      BY <1>7, <1>9
    <2> HIDE DEF rest
    <2>2. Len(rest) \in Nat /\ \A k \in 1 .. Len(rest) : k + 1 \in 2 .. Len(queue)
      BY <1>5, <2>1
    <2>3. ASSUME NEW k \in 2 .. Len(queue) PROVE \E j \in 1 .. Len(rest) : rest[j] = queue[k]
      <3>1. k - 1 \in 1 .. Len(rest) /\ k - 1 + 1 = k
        BY <1>5, <2>1
      <3> QED BY <2>1, <3>1
    <2> QED BY <2>1, <2>2, <2>3 DEF rest
  <1>10. ASSUME queue' = Tail(queue), cursor' = 0, NEW p \in Places, Stays(p)
         PROVE  LET q == FromRoot(p) IN
                \/ q \in Listed
                \/ /\ \E k \in DOMAIN queue' : queue'[k] = Front(q)
                   /\ Position(Last(q)) > cursor'
                \/ Front(q) \notin {rel} \cup Listed
    <2> DEFINE q == FromRoot(p)
    <2>1. Last(q) \in Names /\ Front(p) = root \o Front(q)
      BY <1>5, <1>10, StayingPlace DEF Stays
    <2>2. Met(q)
      BY <1>1, <1>2, <1>10 DEF LastingInv
    <2>3. Front(q) # Head(queue)
      <3>1. ASSUME Front(q) = Head(queue) PROVE FALSE
        <4>1. Front(p) = Folder
          BY <2>1, <3>1 DEF Folder
        <4>2. IsStrictPrefix(Folder, p)
          <5>1. p \in Seq(Names) /\ p # <<>>
            BY PlaceFacts
          <5>2. IsPrefix(Folder, Folder)
            BY <1>5, PrefixOrder
          <5> QED BY <1>5, <4>1, <5>1, <5>2, PrefixOfFront
        <4>3. KindsSeen(Folder) = {"directory"}
          BY <1>1, <1>4, <1>5, <1>10, <4>2 DEF TreeInv, Stays
        <4> QED BY <1>2, <1>6, <4>3
      <3> QED BY <3>1
    <2>4. Position(Last(q)) > 0
      BY <2>1, Positions
    <2> HIDE DEF q
    <2>5. ASSUME NEW k \in DOMAIN queue, queue[k] = Front(q)
          PROVE  \E j \in DOMAIN queue' : queue'[j] = Front(q)
      <3>1. k \in 2 .. Len(queue)
        BY <1>5, <2>3, <2>5
      <3>2. \A i \in 2 .. Len(queue) : \E j \in 1 .. Len(queue') : queue'[j] = queue[i]
        BY <1>9, <1>10
      <3>3. DOMAIN queue' = 1 .. Len(queue')
        BY <1>9, <1>10
      <3> QED BY <2>5, <3>1, <3>2, <3>3
    <2>6. Position(Last(q)) > cursor'
      BY <1>10, <2>4
    <2>7. \/ q \in Listed
          \/ \E k \in DOMAIN queue : queue[k] = Front(q)
          \/ Front(q) \notin {rel} \cup Listed
      BY <2>2 DEF Met
    <2> QED BY <2>5, <2>6, <2>7 DEF q
  <1>11. TypeOK'
    <2>1. tries' \in 0 .. MAX_RETRIES
      <3>1. 0 \in 0 .. MAX_RETRIES
        BY ReadAssumption
      <3> QED BY <1>1, <1>3, <3>1 DEF TypeOK
    <2>2. queue' \in Seq(Seq(Names))
      BY <1>1, <1>3, <1>7 DEF TypeOK
    <2>3. /\ pc' \in {"start", "admit", "look", "page", "content", "redirected", "done"}
          /\ answer' \in {"none", "listed", "not_found", "bad_request"}
      BY <1>3, <1>4
    <2>4. cursor' \in 0 .. Len(NameOrder)
      <3>1. cursor \in 0 .. Len(NameOrder)
        BY <1>1 DEF TypeOK
      <3> QED BY <1>3, <3>1
    <2>5. addressed' \subseteq Seq(Names)
      BY <1>1, <1>2, <1>5 DEF TypeOK
    <2> QED BY <1>1, <1>2, <2>1, <2>2, <2>3, <2>4, <2>5 DEF TypeOK
  <1>12. StartInv'
    <2>1. IsPrefix(configured, Folder)
      BY <1>4, <1>5, PrefixConcat DEF Folder
    <2> QED BY <1>1, <1>2, <1>3, <1>4, <2>1 DEF StartInv
  <1>13. TreeInv'
    BY <1>1, <1>2, <1>4, <1>8 DEF TreeInv, InFolders
  <1>14. ReadInv'
    BY <1>1, <1>2, <1>3, <1>4 DEF ReadInv
  <1>15. QueueInv'
    <2>1. CASE pc' = "page"
      <3>1. queue' = Tail(queue) /\ cursor' = 0 /\ queue' # <<>>
        BY <1>3, <2>1
      <3>2. /\ DOMAIN queue' = 1 .. Len(queue')
            /\ \A k \in 1 .. Len(queue') :
                  k + 1 \in 2 .. Len(queue) /\ queue'[k] = queue[k + 1]
        BY <1>9, <3>1
      <3>3. DOMAIN queue = 1 .. Len(queue) /\ Len(queue) \in Nat
        BY <1>5
      <3>4. \A i \in 2 .. Len(queue) : i \in 1 .. Len(queue)
        OBVIOUS
      <3>5. \A k \in DOMAIN queue' : k + 1 \in DOMAIN queue /\ queue'[k] = queue[k + 1]
        BY <3>2, <3>3, <3>4
      <3>6. IsInjective(queue')
        <4>1. ASSUME NEW j \in DOMAIN queue', NEW k \in DOMAIN queue', queue'[j] = queue'[k]
              PROVE  j = k
          <5>1. j + 1 \in DOMAIN queue /\ k + 1 \in DOMAIN queue /\ queue[j + 1] = queue[k + 1]
            BY <3>5, <4>1
          <5>2. j + 1 = k + 1
            BY <1>1, <1>2, <5>1 DEF QueueInv, IsInjective
          <5>3. j \in 1 .. Len(queue') /\ k \in 1 .. Len(queue')
            BY <3>2, <4>1
          <5> QED BY <5>2, <5>3
        <4> QED BY <4>1 DEF IsInjective
      <3>7. operation # "list"
        <4>1. ASSUME operation = "list" PROVE FALSE
          <5>1. queue = <<rel>> /\ Len(queue) = 1
            BY <1>1, <1>2, <4>1 DEF QueueInv
          <5>2. Len(queue') = 0
            BY <1>9, <3>1, <5>1
          <5>3. queue' \in Seq(Seq(Names))
            BY <1>7, <3>1
          <5> QED BY <3>1, <5>2, <5>3, EmptySeq
        <4> QED BY <4>1
      <3>8. ASSUME NEW k \in DOMAIN queue'
            PROVE  /\ queue'[k] \in {rel} \cup Listed /\ IsPrefix(rel, queue'[k])
                   /\ root \o queue'[k] \in Places /\ "directory" \in KindsSeen(root \o queue'[k])
        <4>1. k + 1 \in DOMAIN queue /\ queue'[k] = queue[k + 1]
          BY <3>5
        <4> QED BY <1>1, <1>2, <4>1 DEF QueueInv
      <3>9. \A k : KindsSeen(root \o queue[k])' = KindsSeen(root \o queue'[k])
        BY <1>2 DEF KindsSeen
      <3>10. Len(entries') < MAX_ITEMS
        BY <1>1, <1>2 DEF QueueInv
      <3> QED BY <1>2, <1>8, <3>1, <3>6, <3>7, <3>8, <3>9, <3>10 DEF QueueInv
    <2> QED BY <2>1 DEF QueueInv
  <1>16. \A i : KindsSeen(root \o entries[i].path)' = KindsSeen(root \o entries[i].path)
    BY <1>2 DEF KindsSeen
  <1>17. EntryInv'
    <2>1. ASSUME pc' = "page", NEW q \in Listed
          PROVE  /\ q # <<>> /\ Front(q) \in {rel} \cup Listed
                 /\ \A k \in 2 .. Len(queue') : queue'[k] # Front(q)
                 /\ Front(q) # Head(queue')
      <3>1. queue' = Tail(queue) /\ cursor' = 0 /\ queue' # <<>>
        BY <1>3, <2>1
      <3>2. /\ q # <<>> /\ Front(q) \in {rel} \cup Listed
            /\ \A k \in 2 .. Len(queue) : queue[k] # Front(q)
        BY <1>1, <1>2, <2>1 DEF EntryInv
      <3>3. \A k \in 1 .. Len(queue') : queue'[k] # Front(q)
        BY <1>9, <3>1, <3>2
      <3>4. 1 \in 1 .. Len(queue') /\ Head(queue') = queue'[1] /\ \A k \in 2 .. Len(queue') : k \in 1 .. Len(queue')
        <4>1. queue' \in Seq(Seq(Names))
          BY <1>7, <3>1
        <4>2. Len(queue') \in Nat \ {0}
          BY <3>1, <4>1, EmptySeq
        <4> QED BY <3>1, <4>1, <4>2
      <3> QED BY <3>2, <3>3, <3>4
    <2> QED BY <1>1, <1>2, <1>8, <1>16, <2>1 DEF EntryInv
  <1>18. LastingInv'
    <2>1. ASSUME pc' = "page", NEW p \in Places, Stays(p)
          PROVE  \/ FromRoot(p) \in Listed
                 \/ /\ \E k \in DOMAIN queue' : queue'[k] = Front(FromRoot(p))
                    /\ Position(Last(FromRoot(p))) > cursor'
                 \/ Front(FromRoot(p)) \notin {rel} \cup Listed
      <3>1. queue' = Tail(queue) /\ cursor' = 0
        BY <1>3, <2>1
      <3> QED BY <1>10, <2>1, <3>1
    <2>2. \A p : Met(FromRoot(p))' <=>
                    \/ FromRoot(p) \in Listed
                    \/ /\ \E k \in DOMAIN queue' : queue'[k] = Front(FromRoot(p))
                       /\ Front(FromRoot(p)) = Head(queue') => Position(Last(FromRoot(p))) > cursor'
                    \/ Front(FromRoot(p)) \notin {rel} \cup Listed
      BY <1>2, <1>8 DEF Met
    <2> QED BY <1>8, <2>1, <2>2 DEF LastingInv
  <1>19. ListedWasThere'
    <2>1. /\ IsPrefix(root \o rel, Folder)
          /\ "none" \in {x.kind : x \in seen[Folder]}
      <3>1. Nothing.kind = "none"
        BY DEF Nothing
      <3> QED BY <1>5, <1>6, <3>1 DEF Base
    <2>2. answer' = "bad_request" => "file" \in {x.kind : x \in seen[Folder]}
      BY <1>3, <1>4, <1>6 DEF KindsSeen
    <2>3. /\ \A i \in DOMAIN entries : entries[i].kind \in {x.kind : x \in seen[root \o entries[i].path]}
          /\ IsInjective([i \in DOMAIN entries |-> entries[i].path])
      BY <1>1 DEF EntryInv, KindsSeen
    <2> QED BY <1>2, <1>5, <2>1, <2>2, <2>3 DEF ListedWasThere
  <1>20. ListingIsComplete'
    <2>1. ASSUME answer' = "listed" PROVE \A p \in Places : Stays(p) => FromRoot(p) \in Listed
      <3>1. queue' = Tail(queue) /\ queue' = <<>> /\ cursor' = 0
        BY <1>3, <1>4, <2>1
      <3>2. DOMAIN queue' = {}
        BY <3>1
      <3>3. ASSUME NEW p \in Places, Stays(p)
            PROVE  FromRoot(p) \in Listed \/ Front(FromRoot(p)) \notin {rel} \cup Listed
        BY <1>10, <3>1, <3>2, <3>3
      <3> QED BY <1>1, <1>4, <3>3, AllStayingListed
    <2>2. Len(entries) < MAX_ITEMS /\ answer' # "truncated"
      BY <1>1, <1>2, <1>3, <1>4 DEF QueueInv
    <2>3. Listed = {entries[i].path : i \in DOMAIN entries}
      BY DEF Listed
    <2> QED BY <1>2, <2>1, <2>2, <2>3 DEF ListingIsComplete, Stays, FromRoot, Base
  <1>21. ReadIsHonest'
    BY <1>2, <1>3, <1>4 DEF ReadIsHonest
  <1> QED BY <1>11, <1>12, <1>13, <1>14, <1>15, <1>17, <1>18, <1>19, <1>20, <1>21 DEF ReadingInv

-----------------------------------------------------------------------------
(* The theorems.                                                           *)

\* A request starts in it.
LEMMA Starts == Init => ReadingInv
  <1> SUFFICES ASSUME Init PROVE ReadingInv
    OBVIOUS
  <1>1. TypeOK
    <2>1. tree \in [Places -> Items \cup {Nothing}]
      BY TreeAssumption DEF Init
    <2>2. 0 \in 0 .. MAX_RETRIES /\ 0 \in 0 .. MaxChanges /\ 0 \in 0 .. Len(NameOrder)
      <3>1. Len(NameOrder) \in Nat
        BY NamesAreStrings, LenProperties
      <3> QED BY <3>1, ReadAssumption
    <2>3. seen \in [Places -> SUBSET (Items \cup {Nothing})]
      BY DEF Init
    <2>4. <<>> \in Seq(Names) /\ <<>> \in Seq(Seq(Names))
          /\ <<>> \in Seq([path: Seq(Names), kind: {"file", "directory"}])
      OBVIOUS
    <2> QED BY <2>1, <2>2, <2>3, <2>4 DEF Init, TypeOK
  <1>2. StartInv
    BY DEF Init, StartInv
  <1>3. TreeInv
    BY TreeAssumption DEF Init, TreeInv, Watching
  <1>4. ReadInv /\ QueueInv /\ LastingInv
    BY DEF Init, ReadInv, QueueInv, LastingInv
  <1>5. DOMAIN entries = {} /\ Listed = {} /\ pc = "start" /\ answer = "none" /\ addressed = {}
    BY DEF Init, Listed
  <1>6. EntryInv
    BY <1>5 DEF EntryInv, IsInjective
  <1>7. ListedWasThere /\ ListingIsComplete /\ ReadIsHonest
    BY <1>5 DEF ListedWasThere, ListingIsComplete, ReadIsHonest, IsInjective
  <1> QED BY <1>1, <1>2, <1>3, <1>4, <1>6, <1>7 DEF ReadingInv

\* Every step keeps the invariant, so it always holds.
LEMMA Inductive == Spec => []ReadingInv
  <1>1. ASSUME ReadingInv, [Next]_vars PROVE ReadingInv'
    <2>1. CASE ParseUrl
      BY <1>1, <2>1, ParseUrlKeeps
    <2>2. CASE Admit
      BY <1>1, <2>2, AdmitKeeps
    <2>3. CASE Look
      BY <1>1, <2>3, LookKeeps
    <2>4. CASE ReadPage
      BY <1>1, <2>4, ReadPageKeeps
    <2>5. CASE ReadPageElsewhere
      BY <1>1, <2>5, ReadPageElsewhereKeeps
    <2>6. CASE Content \/ FollowRedirect
      BY <1>1, <2>6, DownloadKeeps
    <2>7. CASE Throttled \/ CallFails \/ UNCHANGED vars
      BY <1>1, <2>7, WaitingKeeps
    <2>8. CASE World
      BY <1>1, <2>8, WorldKeeps
    <2>9. CASE Terminated
      BY <1>1, <2>9, WaitingKeeps DEF Terminated
    <2> QED BY <1>1, <2>1, <2>2, <2>3, <2>4, <2>5, <2>6, <2>7, <2>8, <2>9 DEF Next, Request
  <1> QED BY <1>1, Starts, PTL DEF Spec

\* Every variable of a request has its type, whatever the library does meanwhile.
THEOREM TypeCorrect == Spec => []TypeOK
  <1>1. ReadingInv => TypeOK
    BY DEF ReadingInv
  <1> QED BY <1>1, Inductive, PTL

\* Whatever path is sent and however the root URL is written, no Graph call addresses
\* anything but the configured folder and what lies below it, and exactly the URLs that
\* name a folder are understood (split_path, encode_path and parse_root_url).
THEOREM StaysInRoot == Spec => []StaysBelowRoot
  <1>1. ReadingInv => StaysBelowRoot
    BY DEF ReadingInv, StartInv, StaysBelowRoot
  <1> QED BY <1>1, Inductive, PTL

\* What a listing reports was there while it ran, once and as what it was, and what it
\* refuses was refused for a folder that was gone or a file by then (list_entries).
THEOREM ListingsTrue == Spec => []ListedWasThere
  <1>1. ReadingInv => ListedWasThere
    BY DEF ReadingInv
  <1> QED BY <1>1, Inductive, PTL

\* A listing has all that stayed while it ran, however the library changes between its
\* pages and folders, unless it says that it is truncated (list_entries).
THEOREM ListingsComplete == Spec => []ListingIsComplete
  <1>1. ReadingInv => ListingIsComplete
    BY DEF ReadingInv
  <1> QED BY <1>1, Inductive, PTL

\* A read gives the file that lay at the path, as it was at some moment and within the
\* limit, and its refusals were true (read_file and _download).
THEOREM ReadsAreHonest == Spec => []ReadIsHonest
  <1>1. ReadingInv => ReadIsHonest
    BY DEF ReadingInv
  <1> QED BY <1>1, Inductive, PTL
=============================================================================
