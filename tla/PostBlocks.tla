------------------------------ MODULE PostBlocks ------------------------------
(***************************************************************************)
(* The webapp's reducer for the posts of a channel, postsInChannel.        *)
(*                                                                         *)
(* A channel's posts are held in blocks, each the posts from one to        *)
(* another, newest first.  A block is recent if it reaches the newest post *)
(* and oldest if it reaches the first; blocks that overlap are merged.     *)
(*                                                                         *)
(* Posts are numbered in the order of their create_at, and the number is   *)
(* all that is kept of a post.  Pending posts, comments and deletions are  *)
(* left out: with collapsed threads a comment is in no block, and without  *)
(* deletions no order is ever empty.                                       *)
(***************************************************************************)
EXTENDS Naturals, SequencesExt

\* Type PostOrderBlock.
Block(Posts) == [order : Seq(Posts), recent : BOOLEAN, oldest : BOOLEAN]

Newest(block) == Head(block.order)
Oldest(block) == Last(block.order)

\* A stable sort of some elements of s by a key, the largest first: before each go as many
\* as its place says.  (SubSeq is for TLC: it computes the sequence once.)
LargestFirst(s, some, key(_)) ==
  LET before(i) ==
        {j \in some : \/ key(s[j]) > key(s[i])
                      \/ key(s[j]) = key(s[i]) /\ j < i}
      at(place) == CHOOSE i \in some : Cardinality(before(i)) = place - 1
      n == Cardinality(some)
  IN  SubSeq([place \in 1 .. n |-> s[at(place)]], 1, n)

\* The posts of an order, and of another those at the places new, the newest first.
WithNew(order, other, new) ==
  LargestFirst(order \o other, DOMAIN order \cup {Len(order) + i : i \in new},
               LAMBDA p : p)

\* The posts in some block.
Held(blocks) == UNION {ToSet(blocks[i].order) : i \in DOMAIN blocks}

HasRecent(blocks) == \E i \in DOMAIN blocks : blocks[i].recent

\* findIndex: the first block that is marked.
RecentIndex(blocks) == SelectInSeq(blocks, LAMBDA block : block.recent)
RecentBlock(blocks) == blocks[RecentIndex(blocks)]

-----------------------------------------------------------------------------
(* Merging *)

mergePostOrder(left, right) ==
  LET new == {i \in DOMAIN right : right[i] \notin ToSet(left)}
  IN  IF new = {} THEN left ELSE WithNew(left, right, new)

\* Of two blocks of which a starts first.
Overlap(a, b) == Oldest(a) <= Newest(b)

Merge(a, b) ==
  [order  |-> mergePostOrder(a.order, b.order),
   recent |-> a.recent \/ b.recent,
   oldest |-> a.oldest \/ b.oldest]

\* One more block: merged with the last, if they overlap.
AddBlock(done, b) ==
  IF done # << >> /\ Overlap(Last(done), b)
  THEN Append(Front(done), Merge(Last(done), b))
  ELSE Append(done, b)

MergeInTurn(blocks) ==
  LET merged[i \in 0 .. Len(blocks)] ==
        IF i = 0 THEN << >> ELSE AddBlock(merged[i - 1], blocks[i])
  IN  merged[Len(blocks)]

\* The most recent block first.  If no blocks overlap, they stay in the order they had.
mergePostBlocks(blocks) ==
  LET merged == MergeInTurn(LargestFirst(blocks, DOMAIN blocks, Newest))
  IN  IF Len(merged) = Len(blocks) THEN blocks ELSE merged

-----------------------------------------------------------------------------
(* The actions of the reducer *)

\* RECEIVED_NEW_POST: on top of the recent block, or of a new one.
ReceivedNewPost(blocks, p) ==
  IF blocks = << >> THEN blocks
  ELSE IF ~HasRecent(blocks)
  THEN Append(blocks, [order |-> <<p>>, recent |-> TRUE, oldest |-> FALSE])
  ELSE IF p \in ToSet(RecentBlock(blocks).order) THEN blocks
  ELSE [blocks EXCEPT ![RecentIndex(blocks)].order = <<p>> \o @]

\* Mutant: a page that is recent adds to the recent block instead of replacing it.
ReceivedPostsKeepRecent(blocks, order, recent, oldest) ==
  LET page == [order |-> order, recent |-> recent, oldest |-> oldest]
  IN  IF recent /\ HasRecent(blocks)
      THEN mergePostBlocks(
             [blocks EXCEPT ![RecentIndex(blocks)] = Merge(page, @)])
      ELSE mergePostBlocks(Append(blocks, page))

\* Mutant: a page that is recent takes the place of the recent block.
ReceivedPostsReplaceRecent(blocks, order, recent, oldest) ==
  LET page == [order |-> order, recent |-> recent, oldest |-> oldest]
  IN  IF recent /\ HasRecent(blocks)
      THEN mergePostBlocks([blocks EXCEPT ![RecentIndex(blocks)] = page])
      ELSE mergePostBlocks(Append(blocks, page))

\* RECEIVED_POSTS_IN_CHANNEL: a block of its own, merged with those it overlaps.
\* A block that is recent takes the mark from the one that was.
ReceivedPostsInChannel(blocks, order, recent, oldest) ==
  LET page == [order |-> order, recent |-> recent, oldest |-> oldest]
      Same(block) == /\ Len(block.order) = Len(order)
                     /\ Newest(block) = Newest(page)
                     /\ Oldest(block) = Oldest(page)
  IN  IF ~recent \/ ~HasRecent(blocks)
      THEN mergePostBlocks(Append(blocks, page))
      ELSE IF Same(RecentBlock(blocks)) THEN blocks
      ELSE mergePostBlocks(
             Append([blocks EXCEPT ![RecentIndex(blocks)].recent = FALSE], page))

\* RECEIVED_POSTS_AFTER
ReceivedPostsAfter(blocks, order, after, recent) ==
  IF order = << >> THEN blocks
  ELSE mergePostBlocks(
         Append(blocks, [order  |-> Append(order, after),
                         recent |-> recent,
                         oldest |-> FALSE]))

\* RECEIVED_POSTS_BEFORE
ReceivedPostsBefore(blocks, order, before, oldest) ==
  IF order = << >> THEN blocks
  ELSE mergePostBlocks(
         Append(blocks, [order  |-> <<before>> \o order,
                         recent |-> FALSE,
                         oldest |-> oldest]))

\* Mutant: new posts go on top, without the sort.
ReceivedPostsSinceUnsorted(blocks, order) ==
  IF ~HasRecent(blocks) THEN blocks
  ELSE LET block == RecentBlock(blocks)
           new   == SelectSeq(order, LAMBDA p : /\ p > Oldest(block)
                                                /\ p \notin ToSet(block.order))
       IN  [blocks EXCEPT ![RecentIndex(blocks)].order = new \o @]

\* RECEIVED_POSTS_SINCE: what is newer than the recent block's oldest post.
ReceivedPostsSince(blocks, order) ==
  IF ~HasRecent(blocks) THEN blocks
  ELSE LET block == RecentBlock(blocks)
           new   == {i \in DOMAIN order : /\ order[i] > Oldest(block)
                                          /\ order[i] \notin ToSet(block.order)}
       IN  IF new = {} THEN blocks
           ELSE [blocks EXCEPT ![RecentIndex(blocks)].order = WithNew(@, order, new)]
=============================================================================
