------------------------------ MODULE Hub_proofs ------------------------------
(***************************************************************************)
(* Theorems of the text feed (Feed) and of the hub that delivers it (Hub), *)
(* for every number of texts, directories, connections and senders, every  *)
(* length of the feed and every capacity of the channels.                  *)
(***************************************************************************)
EXTENDS Hub, FiniteSetTheorems, SequenceTheorems, TLAPS

-------------------------------------------------------------------------------
(* Feed, for every set of texts and directories and every length of the    *)
(* feed.  The lemmas say what clipping does to a sequence; FeedDurable     *)
(* with the type invariant is inductive.                                   *)

(* Clipping keeps the newest MaxFeedLen texts. *)
LEMMA ClippedIsNewest ==
  ASSUME NEW s \in Seq(Msg)
  PROVE  /\ Clipped(s) = Newest(s)
         /\ Newest(s) \in Seq(Msg)
         /\ Len(Newest(s)) = (IF Len(s) < MaxFeedLen THEN Len(s) ELSE MaxFeedLen)
         /\ \A i \in 1..Len(Newest(s)) : Newest(s)[i] = s[i]
<1>1. Len(s) \in Nat /\ MaxFeedLen \in Nat \ {0}
  BY FeedAssumption
<1>2. CASE Len(s) < MaxFeedLen
  <2>1. Newest(s) = SubSeq(s, 1, Len(s))
    BY <1>2 DEF Newest
  <2>2. SubSeq(s, 1, Len(s)) = s
    BY SubSeqFull
  <2>. QED BY <1>1, <1>2, <2>1, <2>2 DEF Clipped
<1>3. CASE ~ (Len(s) < MaxFeedLen)
  <2>1. Newest(s) = SubSeq(s, 1, MaxFeedLen)
    BY <1>3 DEF Newest
  <2>2. /\ SubSeq(s, 1, MaxFeedLen) \in Seq(Msg)
        /\ Len(SubSeq(s, 1, MaxFeedLen)) = MaxFeedLen
        /\ \A i \in 1..MaxFeedLen : SubSeq(s, 1, MaxFeedLen)[i] = s[i]
    BY <1>1, <1>3
  <2>3. Clipped(s) = SubSeq(s, 1, MaxFeedLen)
    <3>1. CASE Len(s) = MaxFeedLen
      BY <1>1, <3>1, SubSeqFull DEF Clipped
    <3>2. CASE Len(s) > MaxFeedLen
      BY <3>2 DEF Clipped
    <3>. QED BY <1>1, <1>3, <3>1, <3>2
  <2>. QED BY <1>1, <1>3, <2>1, <2>2, <2>3
<1>. QED BY <1>2, <1>3

(* A file that holds the newest texts is read back as it is. *)
LEMMA ReadBack ==
  ASSUME NEW s \in Seq(Msg)
  PROVE  Clipped(Newest(s)) = Newest(s)
<1>1. Len(Newest(s)) <= MaxFeedLen
  BY ClippedIsNewest, FeedAssumption
<1>. QED BY <1>1, ClippedIsNewest, FeedAssumption DEF Clipped

(* Adding to the newest texts and clipping gives the newest texts again.   *)
LEMMA NewestKept ==
  ASSUME NEW s \in Seq(Msg), NEW m \in Msg
  PROVE  Clipped(<<m>> \o Newest(s)) = Newest(<<m>> \o s)
<1>. DEFINE short == <<m>> \o Newest(s)
            long == <<m>> \o s
<1>1. /\ Newest(s) \in Seq(Msg) /\ <<m>> \in Seq(Msg) /\ Len(<<m>>) = 1
      /\ Len(s) \in Nat /\ MaxFeedLen \in Nat \ {0}
  BY ClippedIsNewest, FeedAssumption
<1>2. /\ short \in Seq(Msg) /\ long \in Seq(Msg)
      /\ Len(short) = 1 + Len(Newest(s)) /\ Len(long) = 1 + Len(s)
  BY <1>1
<1>. HIDE DEF short, long
<1>8. /\ Len(Newest(short)) = (IF Len(short) < MaxFeedLen THEN Len(short) ELSE MaxFeedLen)
      /\ Len(Newest(long)) = (IF Len(long) < MaxFeedLen THEN Len(long) ELSE MaxFeedLen)
      /\ Len(Newest(s)) = (IF Len(s) < MaxFeedLen THEN Len(s) ELSE MaxFeedLen)
  BY <1>1, <1>2, ClippedIsNewest
<1>3. Len(Newest(short)) = Len(Newest(long))
  BY <1>1, <1>2, <1>8
<1>4. ASSUME NEW i \in 1..Len(Newest(long))
      PROVE  Newest(short)[i] = Newest(long)[i]
  <2>1. i \in 1..Len(short) /\ i \in 1..Len(long) /\ i <= MaxFeedLen
    BY <1>1, <1>2, <1>8
  <2>2. Newest(short)[i] = short[i] /\ Newest(long)[i] = long[i]
    BY <1>2, <1>3, ClippedIsNewest
  <2>3. CASE i = 1
    <3>1. short[1] = m /\ long[1] = m
      BY <1>1 DEF short, long
    <3>. QED BY <2>2, <2>3, <3>1
  <2>4. CASE i > 1
    <3>1. i - 1 \in 1..Len(Newest(s))
      BY <1>2, <2>1, <2>4
    <3>2. short[i] = Newest(s)[i - 1] /\ long[i] = s[i - 1]
      BY <1>1, <1>2, <2>1, <2>4 DEF short, long
    <3>3. Newest(s)[i - 1] = s[i - 1]
      BY <3>1, ClippedIsNewest
    <3>. QED BY <2>2, <3>2, <3>3
  <2>. QED BY <2>3, <2>4
<1>5. Newest(short) = Newest(long)
  <2>1. Newest(short) \in Seq(Msg) /\ Newest(long) \in Seq(Msg)
    BY <1>2, ClippedIsNewest
  <2>. QED BY <1>3, <1>4, <2>1, SeqEqual
<1>. QED BY <1>2, <1>5, ClippedIsNewest DEF short, long

-------------------------------------------------------------------------------
(* AddTextMessage, also as a part of a larger system's step *)
LEMMA AddTyped ==
  ASSUME FeedTypeOK, NEW m \in Msg, AddTextMessage(m)
  PROVE  FeedTypeOK'
<1>1. <<m>> \o TextFeed \in Seq(Msg) /\ <<m>> \o added[feedPath] \in Seq(Msg)
  BY DEF FeedTypeOK
<1>2. TextFeed' \in Seq(Msg) /\ Len(TextFeed') <= MaxFeedLen
  <2>. DEFINE longer == <<m>> \o TextFeed
  <2>1. longer \in Seq(Msg)
    BY <1>1
  <2>2. TextFeed' = Clipped(longer)
    BY DEF AddTextMessage
  <2>. HIDE DEF longer
  <2>3. Clipped(longer) = Newest(longer)
    BY <2>1, ClippedIsNewest
  <2>4. /\ Clipped(longer) \in Seq(Msg)
        /\ Len(Clipped(longer)) = (IF Len(longer) < MaxFeedLen THEN Len(longer) ELSE MaxFeedLen)
        /\ Len(longer) \in Nat
    BY <2>1, <2>3, ClippedIsNewest
  <2>. QED BY <2>2, <2>4, FeedAssumption
<1>3. stored' \in [Dir -> Seq(Msg) \union {None}]
  BY <1>2 DEF AddTextMessage, SaveFeedLocked, FeedTypeOK
<1>4. added' \in [Dir -> Seq(Msg)]
  BY <1>1 DEF AddTextMessage, FeedTypeOK
<1>5. damaged' \in SUBSET Dir
  BY DEF AddTextMessage, SaveFeedLocked, FeedTypeOK
<1>. QED BY <1>2, <1>3, <1>4, <1>5 DEF AddTextMessage, FeedTypeOK

LEMMA LoadTyped ==
  ASSUME FeedTypeOK, NEW d \in Dir, LoadFeed(d),
         stored' \in [Dir -> Seq(Msg) \union {None}]
  PROVE  /\ feedPath' \in Dir /\ damaged' \in SUBSET Dir
         /\ TextFeed' \in Seq(Msg) /\ Len(TextFeed') <= MaxFeedLen
<1>1. <<>> \in Seq(Msg) /\ Len(<<>>) = 0 /\ MaxFeedLen \in Nat \ {0}
  BY FeedAssumption
<1>2. CASE TextFeed' = <<>>
  BY <1>1, <1>2 DEF LoadFeed, FeedTypeOK
<1>3. CASE stored'[d] # None /\ TextFeed' = Clipped(stored'[d])
  <2>1. stored'[d] \in Seq(Msg)
    BY <1>3
  <2>2. TextFeed' \in Seq(Msg) /\ Len(TextFeed') <= MaxFeedLen
    BY <1>1, <1>3, <2>1, ClippedIsNewest
  <2>. QED BY <2>2 DEF LoadFeed, FeedTypeOK
<1>. QED BY <1>2, <1>3 DEF LoadFeed, Loaded

LEMMA SwitchTyped ==
  ASSUME FeedTypeOK, (\E d \in Dir : SwitchDir(d)) \/ SwitchFeed
  PROVE  FeedTypeOK'
<1>1. ASSUME NEW d \in Dir, SwitchDir(d)
      PROVE  FeedTypeOK'
  BY <1>1 DEF SwitchDir, FeedTypeOK
<1>2. CASE SwitchFeed
  BY <1>2, LoadTyped DEF SwitchFeed, FeedTypeOK
<1>. QED BY <1>1, <1>2

LEMMA FeedInitTyped == Init => FeedTypeOK
BY FeedAssumption DEF Init, FeedTypeOK

(* Every variable of the feed keeps its type and the feed its bound.       *)
THEOREM FeedTyping == Spec => []FeedTypeOK
<1>1. FeedTypeOK /\ [Next]_feedVars => FeedTypeOK'
  <2>. SUFFICES ASSUME FeedTypeOK, [Next]_feedVars
                PROVE  FeedTypeOK'
    OBVIOUS
  <2>1. ASSUME NEW m \in Msg \ Added, AddTextMessage(m)
        PROVE  FeedTypeOK'
    BY <2>1, AddTyped
  <2>2. ASSUME NEW d \in Dir, Restart(d)
        PROVE  FeedTypeOK'
    <3>1. stored' \in [Dir -> Seq(Msg) \union {None}] /\ added' \in [Dir -> Seq(Msg)]
      <4>1. CASE UNCHANGED <<stored, added>>
        BY <4>1 DEF FeedTypeOK
      <4>2. ASSUME NEW m \in Msg,
                   stored' = [stored EXCEPT ![feedPath] = Clipped(<<m>> \o TextFeed)],
                   added' = [added EXCEPT ![feedPath] = <<m>> \o @]
            PROVE  /\ stored' \in [Dir -> Seq(Msg) \union {None}]
                   /\ added' \in [Dir -> Seq(Msg)]
        <5>1. <<m>> \o TextFeed \in Seq(Msg) /\ <<m>> \o added[feedPath] \in Seq(Msg)
          BY DEF FeedTypeOK
        <5>2. Clipped(<<m>> \o TextFeed) \in Seq(Msg)
          BY <5>1, ClippedIsNewest
        <5>. QED BY <4>2, <5>1, <5>2 DEF FeedTypeOK
      <4>. QED BY <2>2, <4>1, <4>2 DEF Restart
    <3>2. /\ feedPath' \in Dir /\ damaged' \in SUBSET Dir
          /\ TextFeed' \in Seq(Msg) /\ Len(TextFeed') <= MaxFeedLen
      BY <2>2, <3>1, LoadTyped DEF Restart
    <3>. QED BY <2>2, <3>1, <3>2 DEF Restart, FeedTypeOK
  <2>3. CASE UNCHANGED feedVars
    BY <2>3 DEF feedVars, FeedTypeOK
  <2>. QED BY <2>1, <2>2, <2>3, SwitchTyped DEF Next
<1>. QED BY <1>1, FeedInitTyped, PTL DEF Spec

(* The feed in memory and each directory's file are the newest texts added *)
(* there, whatever switches and crashes, unless this directory's feed was  *)
(* once not saved or not read.                                             *)
THEOREM Durable == Spec => []FeedDurable
<1>1. Init => FeedDurable
  <2>. SUFFICES ASSUME Init
                PROVE  FeedDurable
    OBVIOUS
  <2>1. Newest(<<>>) = <<>>
    <3>1. <<>> \in Seq(Msg) /\ Len(<<>>) = 0
      OBVIOUS
    <3>2. Clipped(<<>>) = <<>>
      BY <3>1, FeedAssumption DEF Clipped
    <3>. QED BY <3>1, <3>2, ClippedIsNewest
  <2>. QED BY <2>1 DEF Init, FeedDurable
<1>2. ASSUME NEW file \in Seq(Msg) \union {None}, NEW all \in Seq(Msg),
             IF file = None THEN all = <<>> ELSE file = Newest(all)
      PROVE  Loaded(file) = Newest(all)
  <2>1. CASE file = None
    <3>1. <<>> \in Seq(Msg) /\ Clipped(<<>>) = <<>>
      BY FeedAssumption DEF Clipped
    <3>. QED BY <1>2, <2>1, <3>1, ClippedIsNewest DEF Loaded
  <2>2. CASE file # None
    BY <1>2, <2>2, ReadBack DEF Loaded
  <2>. QED BY <2>1, <2>2
<1>3. ASSUME FeedTypeOK, FeedDurable, NEW m \in Msg, feedPath \notin damaged,
             stored' = [stored EXCEPT ![feedPath] = Clipped(<<m>> \o TextFeed)],
             added' = [added EXCEPT ![feedPath] = <<m>> \o @]
      PROVE  /\ Clipped(<<m>> \o TextFeed) = Newest(added'[feedPath])
             /\ Clipped(<<m>> \o TextFeed) # None
  <2>1. added[feedPath] \in Seq(Msg) /\ feedPath \in Dir
    BY <1>3 DEF FeedTypeOK
  <2>2. added'[feedPath] = <<m>> \o added[feedPath]
    BY <1>3, <2>1 DEF FeedTypeOK
  <2>3. Clipped(<<m>> \o TextFeed) = Newest(added'[feedPath])
    BY <1>3, <2>1, <2>2, NewestKept DEF FeedDurable
  <2>4. <<m>> \o TextFeed \in Seq(Msg)
    BY <1>3 DEF FeedTypeOK
  <2>. QED BY <2>3, <2>4, ClippedIsNewest, FeedAssumption
<1>4. ASSUME FeedTypeOK, FeedDurable, NEW m \in Msg,
             stored' = [stored EXCEPT ![feedPath] = Clipped(<<m>> \o TextFeed)],
             added' = [added EXCEPT ![feedPath] = <<m>> \o @],
             NEW e \in Dir \ damaged
      PROVE  IF stored'[e] = None THEN added'[e] = <<>> ELSE stored'[e] = Newest(added'[e])
  <2>1. CASE e = feedPath
    BY <1>3, <1>4, <2>1 DEF FeedTypeOK
  <2>2. CASE e # feedPath
    BY <1>4, <2>2 DEF FeedTypeOK, FeedDurable
  <2>. QED BY <2>1, <2>2
<1>5. ASSUME NEW d \in Dir, LoadFeed(d), FeedTypeOK',
             \A e \in Dir \ damaged : IF stored'[e] = None THEN added'[e] = <<>>
                                                         ELSE stored'[e] = Newest(added'[e])
      PROVE  FeedDurable'
  <2>1. d \notin damaged' => TextFeed' = Loaded(stored'[d])
    BY <1>5 DEF LoadFeed
  <2>2. d \notin damaged' => TextFeed' = Newest(added'[d])
    <3>1. damaged \subseteq damaged' /\ stored'[d] \in Seq(Msg) \union {None}
          /\ added'[d] \in Seq(Msg)
      BY <1>5 DEF LoadFeed, FeedTypeOK
    <3>. QED BY <1>2, <1>5, <2>1, <3>1
  <2>. QED BY <1>5, <2>2 DEF LoadFeed, FeedDurable, Newest
<1>6. FeedTypeOK /\ FeedTypeOK' /\ FeedDurable /\ [Next]_feedVars => FeedDurable'
  <2>. SUFFICES ASSUME FeedTypeOK, FeedTypeOK', FeedDurable, [Next]_feedVars
                PROVE  FeedDurable'
    OBVIOUS
  <2>1. ASSUME NEW m \in Msg, AddTextMessage(m)
        PROVE  FeedDurable'
    <3>1. /\ feedPath' = feedPath /\ TextFeed' = Clipped(<<m>> \o TextFeed)
          /\ added' = [added EXCEPT ![feedPath] = <<m>> \o @]
      BY <2>1 DEF AddTextMessage
    <3>2. CASE stored' = [stored EXCEPT ![feedPath] = TextFeed'] /\ UNCHANGED damaged
      <4>1. feedPath \notin damaged => TextFeed' = Newest(added'[feedPath])
        BY <1>3, <3>1, <3>2
      <4>2. \A e \in Dir \ damaged : IF stored'[e] = None THEN added'[e] = <<>>
                                                      ELSE stored'[e] = Newest(added'[e])
        BY <1>4, <3>1, <3>2
      <4>3. feedPath' \notin damaged' => TextFeed' = Newest(added'[feedPath'])
        BY <3>1, <3>2, <4>1
      <4>. QED BY <3>2, <4>2, <4>3 DEF FeedDurable, Newest
    <3>3. CASE UNCHANGED stored /\ damaged' = damaged \union {feedPath}
      <4>1. \A e \in Dir \ damaged' : stored'[e] = stored[e] /\ added'[e] = added[e]
        BY <3>1, <3>3 DEF FeedTypeOK
      <4>. QED BY <3>1, <3>3, <4>1 DEF FeedDurable, Newest
    <3>. QED BY <2>1, <3>2, <3>3 DEF AddTextMessage, SaveFeedLocked
  <2>2. ASSUME NEW d \in Dir, Restart(d)
        PROVE  FeedDurable'
    <3>1. \A e \in Dir \ damaged : IF stored'[e] = None THEN added'[e] = <<>>
                                                    ELSE stored'[e] = Newest(added'[e])
      <4>1. CASE UNCHANGED <<stored, added>>
        BY <4>1 DEF FeedDurable
      <4>. QED BY <1>4, <2>2, <4>1 DEF Restart
    <3>. QED BY <1>5, <2>2, <3>1 DEF Restart
  <2>3. ASSUME NEW d \in Dir, SwitchDir(d)
        PROVE  FeedDurable'
    BY <2>3 DEF SwitchDir, FeedDurable, Newest
  <2>4. CASE SwitchFeed
    <3>1. switching \in Dir /\ LoadFeed(switching)
      BY <2>4 DEF SwitchFeed, FeedTypeOK
    <3>2. \A e \in Dir \ damaged : IF stored'[e] = None THEN added'[e] = <<>>
                                                    ELSE stored'[e] = Newest(added'[e])
      BY <2>4 DEF SwitchFeed, FeedDurable
    <3>. QED BY <1>5, <3>1, <3>2
  <2>5. CASE UNCHANGED feedVars
    BY <2>5 DEF feedVars, FeedDurable, Newest
  <2>. QED BY <2>1, <2>2, <2>3, <2>4, <2>5 DEF Next
<1>. QED BY <1>1, <1>6, FeedTyping, PTL DEF Spec

-------------------------------------------------------------------------------
(* What is in a feed stays in the order it was added: the four things that *)
(* happen to a feed and to the texts added to its directory.               *)
LEMMA PartEmpty ==
  ASSUME NEW all \in Seq(Msg)
  PROVE  OrderedPart(<<>>, all)
<1>. DEFINE place == [i \in 1..0 |-> 0]
<1>1. Len(<<>>) = 0 /\ \A i \in 1..0 : FALSE
  OBVIOUS
<1>2. place \in [1..0 -> 1..Len(all)]
  BY <1>1
<1>. HIDE DEF place
<1>. QED BY <1>1, <1>2 DEF OrderedPart

(* A text before others *)
LEMMA Prepended ==
  ASSUME NEW s \in Seq(Msg), NEW m \in Msg
  PROVE  /\ <<m>> \o s \in Seq(Msg) /\ Len(<<m>> \o s) = Len(s) + 1 /\ (<<m>> \o s)[1] = m
         /\ \A i \in 1..Len(s) : (<<m>> \o s)[i + 1] = s[i]
<1>1. <<m>> \in Seq(Msg) /\ Len(<<m>>) = 1 /\ Len(s) \in Nat
  OBVIOUS
<1>2. /\ <<m>> \o s \in Seq(Msg) /\ Len(<<m>> \o s) = 1 + Len(s)
      /\ (<<m>> \o s)[1] = m
  BY <1>1
<1>3. ASSUME NEW i \in 1..Len(s)
      PROVE  (<<m>> \o s)[i + 1] = s[i]
  <2>1. i + 1 \in 1..(Len(<<m>>) + Len(s)) /\ i + 1 > Len(<<m>>) /\ (i + 1) - Len(<<m>>) = i
    BY <1>1
  <2>. QED BY <1>1, <2>1
<1>. QED BY <1>1, <1>2, <1>3

LEMMA PartClipped ==
  ASSUME NEW feed \in Seq(Msg), NEW all \in Seq(Msg), OrderedPart(feed, all)
  PROVE  OrderedPart(Clipped(feed), all)
<1>1. PICK place \in [1..Len(feed) -> 1..Len(all)] :
         /\ \A i \in 1..Len(feed) : feed[i] = all[place[i]]
         /\ \A i, j \in 1..Len(feed) : i < j => place[i] < place[j]
  BY DEF OrderedPart
<1>0. PICK short : short = Clipped(feed)
  OBVIOUS
<1>2. /\ short \in Seq(Msg) /\ Len(short) <= Len(feed)
      /\ \A i \in 1..Len(short) : short[i] = feed[i]
  <2>1. MaxFeedLen \in Nat /\ Len(feed) \in Nat /\ short = Newest(feed)
    BY <1>0, FeedAssumption, ClippedIsNewest
  <2>2. /\ Newest(feed) \in Seq(Msg)
        /\ Len(Newest(feed)) = (IF Len(feed) < MaxFeedLen THEN Len(feed) ELSE MaxFeedLen)
        /\ \A i \in 1..Len(Newest(feed)) : Newest(feed)[i] = feed[i]
    BY ClippedIsNewest
  <2>. QED BY <2>1, <2>2
<1>3. Len(short) \in Nat /\ Len(feed) \in Nat /\ 1..Len(short) \subseteq 1..Len(feed)
  BY <1>2
<1>. DEFINE kept == [i \in 1..Len(short) |-> place[i]]
<1>4. kept \in [1..Len(short) -> 1..Len(all)]
  BY <1>3
<1>5. \A i \in 1..Len(short) : kept[i] = place[i]
  OBVIOUS
<1>. HIDE DEF kept
<1>6. /\ \A i \in 1..Len(short) : short[i] = all[kept[i]]
      /\ \A i, j \in 1..Len(short) : i < j => kept[i] < kept[j]
  BY <1>1, <1>2, <1>3, <1>5
<1>. QED BY <1>0, <1>4, <1>6 DEF OrderedPart

LEMMA PartBeneath ==
  ASSUME NEW feed \in Seq(Msg), NEW all \in Seq(Msg), NEW m \in Msg, OrderedPart(feed, all)
  PROVE  OrderedPart(feed, <<m>> \o all)
<1>1. PICK place \in [1..Len(feed) -> 1..Len(all)] :
         /\ \A i \in 1..Len(feed) : feed[i] = all[place[i]]
         /\ \A i, j \in 1..Len(feed) : i < j => place[i] < place[j]
  BY DEF OrderedPart
<1>0. PICK more : more = <<m>> \o all
  OBVIOUS
<1>2. /\ more \in Seq(Msg) /\ Len(more) = Len(all) + 1
      /\ \A i \in 1..Len(all) : more[i + 1] = all[i]
  BY <1>0, Prepended
<1>. DEFINE moved == [i \in 1..Len(feed) |-> place[i] + 1]
<1>3. moved \in [1..Len(feed) -> 1..Len(more)]
  BY <1>2
<1>4. \A i \in 1..Len(feed) : moved[i] = place[i] + 1 /\ place[i] \in 1..Len(all)
  OBVIOUS
<1>. HIDE DEF moved
<1>5. \A i \in 1..Len(feed) : feed[i] = more[moved[i]]
  BY <1>1, <1>2, <1>4
<1>6. \A i, j \in 1..Len(feed) : i < j => moved[i] < moved[j]
  BY <1>1, <1>4
<1>. QED BY <1>0, <1>3, <1>5, <1>6 DEF OrderedPart

LEMMA PartAdded ==
  ASSUME NEW feed \in Seq(Msg), NEW all \in Seq(Msg), NEW m \in Msg, OrderedPart(feed, all)
  PROVE  OrderedPart(<<m>> \o feed, <<m>> \o all)
<1>1. PICK place \in [1..Len(feed) -> 1..Len(all)] :
         /\ \A i \in 1..Len(feed) : feed[i] = all[place[i]]
         /\ \A i, j \in 1..Len(feed) : i < j => place[i] < place[j]
  BY DEF OrderedPart
<1>0. PICK more : more = <<m>> \o all
  OBVIOUS
<1>01. PICK longer : longer = <<m>> \o feed
  OBVIOUS
<1>2. /\ more \in Seq(Msg) /\ Len(more) = Len(all) + 1 /\ more[1] = m
      /\ \A i \in 1..Len(all) : more[i + 1] = all[i]
  BY <1>0, Prepended
<1>3. /\ longer \in Seq(Msg) /\ Len(longer) = Len(feed) + 1 /\ longer[1] = m
      /\ \A i \in 2..Len(longer) : longer[i] = feed[i - 1] /\ i - 1 \in 1..Len(feed)
  <2>1. /\ longer \in Seq(Msg) /\ Len(longer) = Len(feed) + 1 /\ longer[1] = m
        /\ \A i \in 1..Len(feed) : longer[i + 1] = feed[i]
    BY <1>01, Prepended
  <2>2. Len(feed) \in Nat
    OBVIOUS
  <2>3. ASSUME NEW i \in 2..Len(longer)
        PROVE  longer[i] = feed[i - 1] /\ i - 1 \in 1..Len(feed)
    <3>1. i - 1 \in 1..Len(feed) /\ (i - 1) + 1 = i
      BY <2>1, <2>2
    <3>. QED BY <2>1, <3>1
  <2>. QED BY <2>1, <2>3
<1>. DEFINE moved == [i \in 1..Len(longer) |-> IF i = 1 THEN 1 ELSE place[i - 1] + 1]
<1>4. /\ Len(longer) \in Nat /\ Len(more) \in Nat /\ Len(all) \in Nat
      /\ \A i \in 2..Len(longer) : place[i - 1] \in 1..Len(all)
  <2>1. Len(longer) \in Nat /\ Len(more) \in Nat /\ Len(all) \in Nat
    BY <1>2, <1>3
  <2>2. ASSUME NEW i \in 2..Len(longer)
        PROVE  place[i - 1] \in 1..Len(all)
    <3>1. i - 1 \in 1..Len(feed)
      BY <1>3
    <3>. QED BY <3>1
  <2>. QED BY <2>1, <2>2
<1>5. moved \in [1..Len(longer) -> 1..Len(more)]
  BY <1>2, <1>4
<1>6. /\ 1 \in 1..Len(longer) => moved[1] = 1
      /\ \A i \in 2..Len(longer) : moved[i] = place[i - 1] + 1
  BY <1>4
<1>. HIDE DEF moved
<1>7. \A i \in 1..Len(longer) : longer[i] = more[moved[i]]
  <2>. TAKE i \in 1..Len(longer)
  <2>1. CASE i = 1
    BY <1>2, <1>3, <1>6, <2>1
  <2>2. CASE i \in 2..Len(longer)
    <3>1. longer[i] = all[place[i - 1]]
      BY <1>1, <1>3, <2>2
    <3>. QED BY <1>2, <1>4, <1>6, <2>2, <3>1
  <2>. QED BY <1>4, <2>1, <2>2
<1>8. \A i, j \in 1..Len(longer) : i < j => moved[i] < moved[j]
  <2>. SUFFICES ASSUME NEW i \in 1..Len(longer), NEW j \in 1..Len(longer), i < j
                PROVE  moved[i] < moved[j]
    OBVIOUS
  <2>1. j \in 2..Len(longer) /\ moved[j] = place[j - 1] + 1 /\ place[j - 1] \in 1..Len(all)
    BY <1>4, <1>6
  <2>2. CASE i = 1
    BY <1>4, <1>6, <2>1, <2>2
  <2>3. CASE i \in 2..Len(longer)
    <3>1. i - 1 \in 1..Len(feed) /\ j - 1 \in 1..Len(feed) /\ i - 1 < j - 1
      BY <1>3, <2>1, <2>3
    <3>2. place[i - 1] < place[j - 1]
      BY <1>1, <3>1
    <3>. QED BY <1>4, <1>6, <2>1, <2>3, <3>2
  <2>. QED BY <1>4, <2>2, <2>3
<1>. QED BY <1>0, <1>01, <1>5, <1>7, <1>8 DEF OrderedPart

(* AddTextMessage: the texts and the feed of the directory grow by one;    *)
(* loading: what was read belongs to the directory.                        *)
LEMMA AddKeepsParts ==
  ASSUME FeedTypeOK, FeedSeparate, NEW m \in Msg,
         added' = [added EXCEPT ![feedPath] = <<m>> \o @],
         \/ stored' = [stored EXCEPT ![feedPath] = Clipped(<<m>> \o TextFeed)]
         \/ UNCHANGED stored
  PROVE  /\ OrderedPart(Clipped(<<m>> \o TextFeed), added'[feedPath])
         /\ \A d \in Dir : stored'[d] # None => OrderedPart(stored'[d], added'[d])
<1>1. /\ feedPath \in Dir /\ TextFeed \in Seq(Msg) /\ added[feedPath] \in Seq(Msg)
      /\ added'[feedPath] = <<m>> \o added[feedPath]
      /\ \A d \in Dir : d # feedPath => added'[d] = added[d]
  BY DEF FeedTypeOK
<1>2. /\ OrderedPart(<<m>> \o TextFeed, <<m>> \o added[feedPath])
      /\ <<m>> \o TextFeed \in Seq(Msg) /\ <<m>> \o added[feedPath] \in Seq(Msg)
  BY <1>1, PartAdded DEF FeedSeparate
<1>3. OrderedPart(Clipped(<<m>> \o TextFeed), added'[feedPath])
  BY <1>1, <1>2, PartClipped
<1>4. ASSUME NEW d \in Dir, stored'[d] # None
      PROVE  OrderedPart(stored'[d], added'[d])
  <2>1. CASE d # feedPath
    <3>1. stored'[d] = stored[d]
      BY <1>1, <2>1 DEF FeedTypeOK
    <3>. QED BY <1>1, <1>4, <2>1, <3>1 DEF FeedSeparate
  <2>2. CASE d = feedPath /\ UNCHANGED stored
    <3>1. stored[d] \in Seq(Msg) /\ OrderedPart(stored[d], added[d])
      BY <1>4, <2>2 DEF FeedTypeOK, FeedSeparate
    <3>. QED BY <1>1, <2>2, <3>1, PartBeneath
  <2>3. CASE d = feedPath /\ stored' = [stored EXCEPT ![feedPath] = Clipped(<<m>> \o TextFeed)]
    <3>1. stored'[d] = Clipped(<<m>> \o TextFeed)
      BY <2>3 DEF FeedTypeOK
    <3>. QED BY <1>3, <2>3, <3>1
  <2>. QED BY <2>1, <2>2, <2>3
<1>. QED BY <1>3, <1>4

LEMMA LoadKeepsParts ==
  ASSUME FeedTypeOK', NEW d \in Dir, LoadFeed(d),
         \A e \in Dir : stored'[e] # None => OrderedPart(stored'[e], added'[e])
  PROVE  FeedSeparate'
<1>1. added'[d] \in Seq(Msg) /\ feedPath' = d
  BY DEF FeedTypeOK, LoadFeed
<1>2. CASE TextFeed' = <<>>
  BY <1>1, <1>2, PartEmpty DEF FeedSeparate, OrderedPart
<1>3. CASE stored'[d] # None /\ TextFeed' = Clipped(stored'[d])
  <2>1. stored'[d] \in Seq(Msg)
    BY <1>3 DEF FeedTypeOK
  <2>2. OrderedPart(TextFeed', added'[d])
    BY <1>1, <1>3, <2>1, PartClipped
  <2>. QED BY <1>1, <2>2 DEF FeedSeparate, OrderedPart
<1>. QED BY <1>2, <1>3 DEF LoadFeed, Loaded

(* A directory's feed, in memory and in its file, holds texts added to it  *)
(* in that order and no others, whatever fails, switches or crashes.       *)
THEOREM Separate == Spec => []FeedSeparate
<1>1. Init => FeedSeparate
  <2>1. <<>> \in Seq(Msg)
    OBVIOUS
  <2>. QED BY <2>1, PartEmpty DEF Init, FeedSeparate
<1>2. FeedTypeOK /\ FeedTypeOK' /\ FeedSeparate /\ [Next]_feedVars => FeedSeparate'
  <2>. SUFFICES ASSUME FeedTypeOK, FeedTypeOK', FeedSeparate, [Next]_feedVars
                PROVE  FeedSeparate'
    OBVIOUS
  <2>1. ASSUME NEW m \in Msg, AddTextMessage(m)
        PROVE  FeedSeparate'
    <3>1. /\ feedPath' = feedPath /\ TextFeed' = Clipped(<<m>> \o TextFeed)
          /\ added' = [added EXCEPT ![feedPath] = <<m>> \o @]
          /\ \/ stored' = [stored EXCEPT ![feedPath] = Clipped(<<m>> \o TextFeed)]
             \/ UNCHANGED stored
      BY <2>1 DEF AddTextMessage, SaveFeedLocked
    <3>2. /\ OrderedPart(TextFeed', added'[feedPath'])
          /\ \A d \in Dir : stored'[d] # None => OrderedPart(stored'[d], added'[d])
      BY <3>1, AddKeepsParts
    <3>. QED BY <3>2 DEF FeedSeparate, OrderedPart
  <2>2. ASSUME NEW d \in Dir, Restart(d)
        PROVE  FeedSeparate'
    <3>1. \A e \in Dir : stored'[e] # None => OrderedPart(stored'[e], added'[e])
      <4>1. CASE UNCHANGED <<stored, added>>
        BY <4>1 DEF FeedSeparate
      <4>. QED BY <2>2, <4>1, AddKeepsParts DEF Restart
    <3>. QED BY <2>2, <3>1, LoadKeepsParts DEF Restart
  <2>3. ASSUME NEW d \in Dir, SwitchDir(d)
        PROVE  FeedSeparate'
    BY <2>3 DEF SwitchDir, FeedSeparate
  <2>4. CASE SwitchFeed
    <3>1. switching \in Dir /\ LoadFeed(switching)
      BY <2>4 DEF SwitchFeed, FeedTypeOK
    <3>2. \A e \in Dir : stored'[e] # None => OrderedPart(stored'[e], added'[e])
      BY <2>4 DEF SwitchFeed, FeedSeparate
    <3>. QED BY <3>1, <3>2, LoadKeepsParts
  <2>5. CASE UNCHANGED feedVars
    BY <2>5 DEF feedVars, FeedSeparate, OrderedPart
  <2>. QED BY <2>1, <2>2, <2>3, <2>4, <2>5 DEF Next
<1>. QED BY <1>1, <1>2, FeedTyping, PTL DEF Spec

-------------------------------------------------------------------------------
(* The hub.  The inductive invariant adds to the types what each           *)
(* connection's channel holds: Stream says frame by frame where it stands  *)
(* in what the client is due.                                              *)

Admitted(c) == serving[c] \in {"registered", "served"}

(* The i-th frame that c is due *)
DueAt(c, i) == IF i = 1 THEN InitFeed(shown[c]) ELSE NewText(log[since[c] + i - 1])

DueLen(c) == 1 + Len(log) - since[c]

Outside(c) ==
  /\ send[c] = <<>> /\ got[c] = <<>>
  /\ ~ closed[c] /\ c \notin clients /\ c # newcomer

Stream(c) ==
  /\ since[c] <= Len(log)
  /\ ~ Admitted(c) => Outside(c)
  /\ serving[c] # "served" => \A k \in Pump : pump[c][k] = "off"
  /\ Admitted(c) => (c \in clients <=> ~ closed[c])
  /\ c = newcomer => /\ send[c] = <<>> /\ got[c] = <<>>
                     /\ c \in clients /\ since[c] = Len(log)
  /\ Len(got[c]) <= DueLen(c)
  /\ \A i \in 1..Len(got[c]) : got[c][i] = DueAt(c, i)
  /\ c \in clients \ {newcomer} /\ pump[c]["write"] \in {"off", "on"} =>
       /\ Len(got[c]) + Len(send[c]) = DueLen(c)
       /\ \A i \in 1..Len(send[c]) : send[c][i] = DueAt(c, Len(got[c]) + i)

IInv == HubTypeOK /\ \A c \in Client : Stream(c)

-------------------------------------------------------------------------------
(* Types *)

LEMMA FrameTyped ==
  /\ \A feed \in Seq(Msg) : InitFeed(feed) \in Frame
  /\ \A m \in Msg : NewText(m) \in Frame
BY DEF InitFeed, NewText, Frame

LEMMA InitTyped == HubInit => HubTypeOK
<1>. SUFFICES ASSUME HubInit
              PROVE  HubTypeOK
  OBVIOUS
<1>1. FeedTypeOK
  BY FeedInitTyped DEF HubInit
<1>2. <<>> \in Seq(Frame) /\ <<>> \in Seq(Msg) /\ Len(<<>>) = 0
  OBVIOUS
<1>3. /\ send \in [Client -> Seq(Frame)] /\ got \in [Client -> Seq(Frame)]
      /\ shown \in [Client -> Seq(Msg)]
      /\ \A c \in Client : Len(send[c]) <= SendCap
  BY <1>2, HubAssumption DEF HubInit
<1>4. pump \in [Client -> [Pump -> {"off", "on", "leaving", "ended"}]]
  BY DEF HubInit
<1>5. /\ closed \in [Client -> BOOLEAN] /\ done \in BOOLEAN
      /\ since \in [Client -> Nat] /\ posting \in [Poster -> Msg \union {None}]
  BY DEF HubInit
<1>6. /\ broadcast \in Seq(Msg) /\ Len(broadcast) <= BroadcastCap /\ log \in Seq(Msg)
      /\ clients \in SUBSET Client /\ newcomer = None /\ hub = "select"
      /\ informed \in SUBSET Client
  BY <1>2, HubAssumption DEF HubInit
<1>7. serving \in [Client -> {"none", "registering", "refused", "registered", "served"}]
  BY DEF HubInit
<1>. QED BY <1>1, <1>3, <1>4, <1>5, <1>6, <1>7 DEF HubTypeOK

LEMMA HandlerTyped ==
  ASSUME HubTypeOK, NEW c \in Client, Connect(c) \/ Refuse(c) \/ StartPumps(c)
  PROVE  HubTypeOK'
<1>1. FeedTypeOK'
  BY DEF Connect, Refuse, StartPumps, feedVars, HubTypeOK, FeedTypeOK
<1>2. CASE Connect(c)
  BY <1>1, <1>2 DEF Connect, HubTypeOK, channels, observed
<1>3. CASE Refuse(c)
  BY <1>1, <1>3 DEF Refuse, HubTypeOK, channels, observed
<1>4. CASE StartPumps(c)
  <2>1. pump' \in [Client -> [Pump -> {"off", "on", "leaving", "ended"}]]
    BY <1>4 DEF StartPumps, HubTypeOK
  <2>. QED BY <1>1, <1>4, <2>1 DEF StartPumps, HubTypeOK, channels, observed
<1>. QED BY <1>2, <1>3, <1>4

LEMMA PostTyped ==
  ASSUME HubTypeOK, NEW g \in Poster,
         (\E m \in Msg \ Added : Store(g, m)) \/ Enqueue(g) \/ Abandon(g)
  PROVE  HubTypeOK'
<1>1. ASSUME NEW m \in Msg, Store(g, m)
      PROVE  HubTypeOK'
  <2>1. FeedTypeOK'
    BY <1>1, AddTyped DEF Store, HubTypeOK
  <2>. QED BY <1>1, <2>1 DEF Store, HubTypeOK, channels, connection, observed
<1>2. CASE Enqueue(g)
  <2>1. FeedTypeOK'
    BY <1>2 DEF Enqueue, feedVars, HubTypeOK, FeedTypeOK
  <2>2. broadcast' \in Seq(Msg) /\ Len(broadcast') <= BroadcastCap
    BY <1>2, HubAssumption DEF Enqueue, HubTypeOK
  <2>. QED BY <1>2, <2>1, <2>2 DEF Enqueue, HubTypeOK, connection, observed
<1>3. CASE Abandon(g)
  <2>1. FeedTypeOK'
    BY <1>3 DEF Abandon, feedVars, HubTypeOK, FeedTypeOK
  <2>. QED BY <1>3, <2>1 DEF Abandon, HubTypeOK, channels, connection, observed
<1>. QED BY <1>1, <1>2, <1>3

LEMMA TailTyped ==
  ASSUME NEW S, NEW s \in Seq(S), s # <<>>
  PROVE  /\ Tail(s) \in Seq(S) /\ Len(Tail(s)) = Len(s) - 1
         /\ Head(s) \in S /\ Head(s) = s[1] /\ Len(s) \in Nat \ {0}
         /\ \A i \in 1..Len(Tail(s)) : Tail(s)[i] = s[i + 1]
BY HeadTailProperties, EmptySeq

LEMMA PumpTyped ==
  ASSUME HubTypeOK, NEW c \in Client, NEW k \in Pump,
         Write(c) \/ PumpEnds(c, k) \/ Depart(c, k)
  PROVE  HubTypeOK'
<1>1. FeedTypeOK'
  BY DEF Write, PumpEnds, Depart, feedVars, HubTypeOK, FeedTypeOK
<1>2. CASE Write(c)
  <2>1. Tail(send[c]) \in Seq(Frame) /\ Len(Tail(send[c])) = Len(send[c]) - 1 /\ Head(send[c]) \in Frame
    BY <1>2, TailTyped DEF Write, HubTypeOK
  <2>2. send' \in [Client -> Seq(Frame)] /\ \A d \in Client : Len(send'[d]) <= SendCap
    BY <1>2, <2>1, HubAssumption DEF Write, HubTypeOK
  <2>3. got' \in [Client -> Seq(Frame)]
    BY <1>2, <2>1 DEF Write, HubTypeOK
  <2>. QED BY <1>1, <1>2, <2>2, <2>3 DEF Write, HubTypeOK, connection
<1>3. CASE PumpEnds(c, k)
  <2>1. send' \in [Client -> Seq(Frame)] /\ \A d \in Client : Len(send'[d]) <= SendCap
    <3>1. CASE UNCHANGED send
      BY <3>1 DEF HubTypeOK
    <3>2. CASE send[c] # <<>> /\ send' = [send EXCEPT ![c] = Tail(@)]
      <4>1. Tail(send[c]) \in Seq(Frame) /\ Len(Tail(send[c])) = Len(send[c]) - 1
        BY <3>2, TailTyped DEF HubTypeOK
      <4>. QED BY <3>2, <4>1, HubAssumption DEF HubTypeOK
    <3>. QED BY <1>3, <3>1, <3>2 DEF PumpEnds
  <2>2. pump' \in [Client -> [Pump -> {"off", "on", "leaving", "ended"}]]
    BY <1>3 DEF PumpEnds, HubTypeOK
  <2>. QED BY <1>1, <1>3, <2>1, <2>2 DEF PumpEnds, HubTypeOK, observed
<1>4. CASE Depart(c, k)
  <2>1. pump' \in [Client -> [Pump -> {"off", "on", "leaving", "ended"}]]
    BY <1>4 DEF Depart, HubTypeOK
  <2>. QED BY <1>1, <1>4, <2>1 DEF Depart, HubTypeOK, channels, observed
<1>. QED BY <1>2, <1>3, <1>4

LEMMA CloseTyped ==
  ASSUME HubTypeOK, NEW cs, Close(cs)
  PROVE  closed' \in [Client -> BOOLEAN]
<1>1. \A c \in Client : (closed[c] \/ c \in cs) \in BOOLEAN
  OBVIOUS
<1>. QED BY <1>1, Zenon DEF Close, HubTypeOK

LEMMA RunTyped ==
  ASSUME HubTypeOK,
         \/ TakeDone \/ SendInit \/ TakeBroadcast \/ Shutdown \/ SwitchFeedDir
         \/ \E c \in Client : TakeRegister(c) \/ \E k \in Pump : TakeUnregister(c, k)
  PROVE  HubTypeOK'
<1>1. CASE TakeDone
  <2>1. FeedTypeOK'
    BY <1>1 DEF TakeDone, feedVars, HubTypeOK, FeedTypeOK
  <2>2. closed' \in [Client -> BOOLEAN]
    BY <1>1, CloseTyped DEF TakeDone
  <2>. QED BY <1>1, <2>1, <2>2 DEF TakeDone, HubTypeOK, connection, observed
<1>2. CASE SendInit
  <2>1. FeedTypeOK'
    BY <1>2 DEF SendInit, feedVars, HubTypeOK, FeedTypeOK
  <2>2. newcomer \in Client
    BY <1>2 DEF SendInit, HubTypeOK
  <2>3. InitFeed(TextFeed) \in Frame /\ TextFeed \in Seq(Msg)
    BY FrameTyped DEF HubTypeOK, FeedTypeOK
  <2>4. send' \in [Client -> Seq(Frame)] /\ \A d \in Client : Len(send'[d]) <= SendCap
    <3>. DEFINE new == IF Len(send[newcomer]) < SendCap
                       THEN Append(send[newcomer], InitFeed(TextFeed)) ELSE send[newcomer]
    <3>1. send' = [send EXCEPT ![newcomer] = new]
      BY <1>2 DEF SendInit
    <3>2. new \in Seq(Frame) /\ Len(new) <= SendCap
      BY <2>2, <2>3, HubAssumption DEF HubTypeOK
    <3>. HIDE DEF new
    <3>. QED BY <2>2, <3>1, <3>2 DEF HubTypeOK
  <2>. QED BY <1>2, <2>1, <2>3, <2>4 DEF SendInit, HubTypeOK, connection
<1>3. CASE TakeBroadcast
  <2>1. FeedTypeOK'
    BY <1>3 DEF TakeBroadcast, feedVars, HubTypeOK, FeedTypeOK
  <2>2. /\ Tail(broadcast) \in Seq(Msg) /\ Len(Tail(broadcast)) = Len(broadcast) - 1
        /\ Head(broadcast) \in Msg
    BY <1>3, TailTyped DEF TakeBroadcast, HubTypeOK
  <2>3. NewText(Head(broadcast)) \in Frame
    BY <2>2, FrameTyped
  <2>4. send' \in [Client -> Seq(Frame)] /\ \A d \in Client : Len(send'[d]) <= SendCap
    <3>1. ASSUME NEW d \in Client
          PROVE  send'[d] \in Seq(Frame) /\ Len(send'[d]) <= SendCap
      BY <1>3, <2>3, HubAssumption DEF TakeBroadcast, HubTypeOK
    <3>2. send' = [d \in Client |-> send'[d]]
      BY <1>3 DEF TakeBroadcast
    <3>. QED BY <3>1, <3>2
  <2>5. closed' \in [Client -> BOOLEAN]
    BY <1>3, CloseTyped DEF TakeBroadcast
  <2>6. broadcast' \in Seq(Msg) /\ Len(broadcast') <= BroadcastCap /\ log' \in Seq(Msg)
    BY <1>3, <2>2, HubAssumption DEF TakeBroadcast, HubTypeOK
  <2>. QED BY <1>3, <2>1, <2>4, <2>5, <2>6
       DEF TakeBroadcast, StillListed, HubTypeOK, connection
<1>4. CASE Shutdown
  <2>1. FeedTypeOK'
    BY <1>4 DEF Shutdown, feedVars, HubTypeOK, FeedTypeOK
  <2>. QED BY <1>4, <2>1 DEF Shutdown, HubTypeOK, connection, observed
<1>5. CASE SwitchFeedDir
  <2>1. FeedTypeOK'
    BY <1>5, SwitchTyped DEF SwitchFeedDir, HubTypeOK
  <2>. QED BY <1>5, <2>1 DEF SwitchFeedDir, HubTypeOK, channels, connection, observed
<1>6. ASSUME NEW c \in Client, TakeRegister(c)
      PROVE  HubTypeOK'
  <2>1. FeedTypeOK'
    BY <1>6 DEF TakeRegister, feedVars, HubTypeOK, FeedTypeOK
  <2>2. since' \in [Client -> Nat]
    BY <1>6 DEF TakeRegister, HubTypeOK
  <2>. QED BY <1>6, <2>1, <2>2, HubAssumption DEF TakeRegister, HubTypeOK, channels
<1>7. ASSUME NEW c \in Client, NEW k \in Pump, TakeUnregister(c, k)
      PROVE  HubTypeOK'
  <2>1. FeedTypeOK'
    BY <1>7 DEF TakeUnregister, feedVars, HubTypeOK, FeedTypeOK
  <2>2. closed' \in [Client -> BOOLEAN]
    BY <1>7, CloseTyped DEF TakeUnregister
  <2>3. pump' \in [Client -> [Pump -> {"off", "on", "leaving", "ended"}]]
    BY <1>7 DEF TakeUnregister, HubTypeOK
  <2>. QED BY <1>7, <2>1, <2>2, <2>3 DEF TakeUnregister, StillListed, HubTypeOK, observed
<1>. QED BY <1>1, <1>2, <1>3, <1>4, <1>5, <1>6, <1>7

LEMMA StepTyped == HubTypeOK /\ [HubNext]_hubVars => HubTypeOK'
<1>. SUFFICES ASSUME HubTypeOK, [HubNext]_hubVars
              PROVE  HubTypeOK'
  OBVIOUS
<1>1. CASE UNCHANGED hubVars
  BY <1>1 DEF hubVars, feedVars, channels, connection, observed, HubTypeOK, FeedTypeOK
<1>2. ASSUME NEW c \in Client,
             \/ Connect(c) \/ Refuse(c) \/ StartPumps(c) \/ Write(c) \/ TakeRegister(c)
             \/ \E k \in Pump : PumpEnds(c, k) \/ Depart(c, k) \/ TakeUnregister(c, k)
      PROVE  HubTypeOK'
  <2>1. "read" \in Pump
    BY DEF Pump
  <2>. QED BY <1>2, <2>1, HandlerTyped, PumpTyped, RunTyped
<1>3. ASSUME NEW g \in Poster,
             (\E m \in Msg \ Added : Store(g, m)) \/ Enqueue(g) \/ Abandon(g)
      PROVE  HubTypeOK'
  BY <1>3, PostTyped
<1>4. CASE TakeDone \/ SendInit \/ TakeBroadcast \/ Shutdown \/ SwitchFeedDir
  BY <1>4, RunTyped
<1>. QED BY <1>1, <1>2, <1>3, <1>4 DEF HubNext

(* Every variable keeps its type; no channel exceeds its capacity.         *)
THEOREM HubTyping == HubSpec => []HubTypeOK
BY InitTyped, StepTyped, PTL DEF HubSpec

-------------------------------------------------------------------------------
(* Streams *)

streamVars(c) ==
  <<send[c], closed[c], serving[c], pump[c]["write"], log, since[c], shown[c], got[c]>>

Untouched(c) ==
  /\ UNCHANGED streamVars(c)
  /\ serving[c] # "served" => UNCHANGED pump[c]
  /\ c \in clients' <=> c \in clients
  /\ c = newcomer' <=> c = newcomer

LEMMA StreamUntouched ==
  ASSUME NEW c \in Client, Stream(c), Untouched(c)
  PROVE  Stream(c)'
<1>1. /\ send'[c] = send[c] /\ closed'[c] = closed[c] /\ serving'[c] = serving[c]
      /\ pump'[c]["write"] = pump[c]["write"] /\ log' = log
      /\ since'[c] = since[c] /\ shown'[c] = shown[c] /\ got'[c] = got[c]
      /\ serving[c] # "served" => pump'[c] = pump[c]
      /\ c \in clients' <=> c \in clients
      /\ c = newcomer' <=> c = newcomer
  BY DEF Untouched, streamVars
<1>2. /\ since'[c] <= Len(log')
      /\ Admitted(c)' <=> Admitted(c)
      /\ Outside(c)' <=> Outside(c)
      /\ DueLen(c)' = DueLen(c)
  BY <1>1 DEF Stream, Admitted, Outside, DueLen
<1>3. \A i : (DueAt(c, i))' = DueAt(c, i)
  BY <1>1 DEF DueAt
<1>4. serving'[c] # "served" => \A k \in Pump : pump'[c][k] = "off"
  BY <1>1 DEF Stream
<1>5. c = newcomer' => /\ send'[c] = <<>> /\ got'[c] = <<>>
                       /\ c \in clients' /\ since'[c] = Len(log')
  BY <1>1 DEF Stream
<1>6. /\ Len(got'[c]) <= DueLen(c)
      /\ \A i \in 1..Len(got'[c]) : got'[c][i] = DueAt(c, i)
  BY <1>1 DEF Stream
<1>7. c \in clients' \ {newcomer'} /\ pump'[c]["write"] \in {"off", "on"} =>
        /\ Len(got'[c]) + Len(send'[c]) = DueLen(c)
        /\ \A i \in 1..Len(send'[c]) : send'[c][i] = DueAt(c, Len(got'[c]) + i)
  BY <1>1 DEF Stream
<1>8. (Admitted(c) => (c \in clients <=> ~ closed[c])) /\ (~ Admitted(c) => Outside(c))
  BY DEF Stream
<1>. QED BY <1>1, <1>2, <1>3, <1>4, <1>5, <1>6, <1>7, <1>8 DEF Stream

(* Actions that touch no connection *)
LEMMA QuietStreams ==
  ASSUME IInv, UNCHANGED <<newcomer, clients, send, closed, serving, pump, log, since, shown, got>>
  PROVE  \A c \in Client : Stream(c)'
BY StreamUntouched DEF IInv, Untouched, streamVars

LEMMA PostStreams ==
  ASSUME IInv, NEW g \in Poster,
         (\E m \in Msg \ Added : Store(g, m)) \/ Enqueue(g) \/ Abandon(g)
  PROVE  \A c \in Client : Stream(c)'
BY QuietStreams DEF Store, Enqueue, Abandon, channels, connection, observed

LEMMA StopStreams ==
  ASSUME IInv, Shutdown \/ SwitchFeedDir
  PROVE  \A c \in Client : Stream(c)'
BY QuietStreams DEF Shutdown, SwitchFeedDir, channels, connection, observed

LEMMA HandlerStreams ==
  ASSUME IInv, NEW c \in Client, Connect(c) \/ Refuse(c) \/ StartPumps(c)
  PROVE  \A d \in Client : Stream(d)'
<1>. SUFFICES ASSUME NEW d \in Client PROVE Stream(d)'
  OBVIOUS
<1>0. Stream(d) /\ HubTypeOK
  BY DEF IInv
<1>1. CASE d # c
  <2>1. Untouched(d)
    BY <1>0, <1>1 DEF Connect, Refuse, StartPumps, Untouched, streamVars, channels, observed, HubTypeOK
  <2>. QED BY <1>0, <2>1, StreamUntouched
<1>2. CASE d = c
  <2>1. /\ UNCHANGED <<newcomer, clients, send, closed, log, since, shown, got>>
        /\ Admitted(c)' <=> Admitted(c)
        /\ \/ serving'[c] # "served" /\ serving[c] # "served" /\ UNCHANGED pump
           \/ serving[c] = "registered" /\ serving'[c] = "served"
    BY <1>0 DEF Connect, Refuse, StartPumps, channels, observed, HubTypeOK, Admitted
  <2>2. pump[c]["write"] = "off"
    BY <1>0, <1>2, <2>1 DEF Stream, Pump
  <2>. QED BY <1>0, <1>2, <2>1, <2>2 DEF Stream, Admitted, Outside, DueAt, DueLen
<1>. QED BY <1>1, <1>2

(* The frame written next is the next one due. *)
LEMMA WriteStreams ==
  ASSUME IInv, NEW c \in Client, Write(c)
  PROVE  \A d \in Client : Stream(d)'
<1>. SUFFICES ASSUME NEW d \in Client PROVE Stream(d)'
  OBVIOUS
<1>0. Stream(c) /\ Stream(d) /\ HubTypeOK
  BY DEF IInv
<1>1. CASE d # c
  <2>1. Untouched(d)
    BY <1>0, <1>1 DEF Write, Untouched, streamVars, connection, HubTypeOK
  <2>. QED BY <1>0, <2>1, StreamUntouched
<1>2. CASE d = c
  <2>1. /\ UNCHANGED <<newcomer, clients, closed, serving, pump, log, since, shown>>
        /\ send'[c] = Tail(send[c]) /\ got'[c] = Append(got[c], Head(send[c]))
        /\ pump[c]["write"] = "on" /\ send[c] # <<>> /\ ~ closed[c]
    BY <1>0 DEF Write, connection, HubTypeOK
  <2>2. serving[c] = "served" /\ c \in clients \ {newcomer}
    BY <1>0, <2>1 DEF Stream, Admitted, Pump
  <2>3. /\ Len(got[c]) + Len(send[c]) = DueLen(c)
        /\ \A i \in 1..Len(send[c]) : send[c][i] = DueAt(c, Len(got[c]) + i)
        /\ \A i \in 1..Len(got[c]) : got[c][i] = DueAt(c, i)
    BY <1>0, <2>1, <2>2 DEF Stream
  <2>. DEFINE m == Len(send[c])  n == Len(got[c])
  <2>4. /\ m \in Nat \ {0} /\ n \in Nat
        /\ Len(send'[c]) = m - 1 /\ Len(got'[c]) = n + 1
        /\ \A i \in 1..m - 1 : send'[c][i] = send[c][i + 1]
        /\ \A i \in 1..n : got'[c][i] = got[c][i]
        /\ got'[c][n + 1] = send[c][1]
    <3>1. send[c] \in Seq(Frame) /\ got[c] \in Seq(Frame)
      BY <1>0 DEF HubTypeOK
    <3>2. /\ Head(send[c]) \in Frame /\ Head(send[c]) = send[c][1]
          /\ Len(send[c]) \in Nat \ {0} /\ Len(Tail(send[c])) = Len(send[c]) - 1
          /\ \A i \in 1..Len(Tail(send[c])) : Tail(send[c])[i] = send[c][i + 1]
      BY <2>1, <3>1, TailTyped
    <3>3. ASSUME NEW q \in Seq(Frame), NEW f \in Frame
          PROVE  /\ Len(Append(q, f)) = Len(q) + 1
                 /\ \A i \in 1..Len(q) : Append(q, f)[i] = q[i]
                 /\ Append(q, f)[Len(q) + 1] = f
      BY AppendProperties
    <3>4. /\ Len(got'[c]) = Len(got[c]) + 1
          /\ \A i \in 1..Len(got[c]) : got'[c][i] = got[c][i]
          /\ got'[c][Len(got[c]) + 1] = send[c][1]
      BY <2>1, <3>1, <3>2, <3>3
    <3>5. /\ Len(send'[c]) = Len(send[c]) - 1
          /\ \A i \in 1..Len(send[c]) - 1 : send'[c][i] = send[c][i + 1]
      BY <2>1, <3>2
    <3>6. Len(got[c]) \in Nat
      BY <3>1
    <3>. QED BY <3>2, <3>4, <3>5, <3>6
  <2>10. /\ n + m = DueLen(c)
         /\ \A i \in 1..m : send[c][i] = DueAt(c, n + i)
         /\ \A i \in 1..n : got[c][i] = DueAt(c, i)
    BY <2>3
  <2>. HIDE DEF m, n
  <2>12. m \in Nat \ {0} /\ n \in Nat
    BY <2>4
  <2>5. \A i \in 1..n + 1 : got'[c][i] = DueAt(c, i)
    <3>1. \A i \in 1..n : got'[c][i] = DueAt(c, i)
      BY <2>4, <2>10
    <3>2. got'[c][n + 1] = DueAt(c, n + 1)
      <4>1. 1 \in 1..m
        BY <2>12
      <4>2. send[c][1] = DueAt(c, n + 1)
        BY <2>10, <4>1
      <4>. QED BY <2>4, <4>2
    <3>. QED BY <2>12, <3>1, <3>2
  <2>6. \A i \in 1..m - 1 : send'[c][i] = DueAt(c, n + 1 + i)
    <3>1. ASSUME NEW i \in 1..m - 1
          PROVE  i + 1 \in 1..m /\ n + (i + 1) = n + 1 + i
      BY <2>12
    <3>2. ASSUME NEW i \in 1..m - 1
          PROVE  send'[c][i] = DueAt(c, n + 1 + i)
      <4>1. send'[c][i] = send[c][i + 1]
        BY <2>4
      <4>2. send[c][i + 1] = DueAt(c, n + (i + 1))
        BY <2>10, <3>1
      <4>. QED BY <3>1, <4>1, <4>2
    <3>. QED BY <3>2
  <2>8. (n + 1) + (m - 1) = DueLen(c) /\ n + 1 <= DueLen(c)
    BY <2>10, <2>12
  <2>9. /\ Len(got'[c]) <= DueLen(c)
        /\ Len(got'[c]) + Len(send'[c]) = DueLen(c)
        /\ \A i \in 1..Len(got'[c]) : got'[c][i] = DueAt(c, i)
    BY <2>4, <2>5, <2>8
  <2>11. ASSUME NEW i \in 1..Len(send'[c])
         PROVE  send'[c][i] = DueAt(c, Len(got'[c]) + i)
    BY <2>4, <2>6
  <2>. QED BY <1>0, <1>2, <2>1, <2>2, <2>9, <2>11 DEF Stream, Admitted, DueAt, DueLen
<1>. QED BY <1>1, <1>2

(* A pump that leaves, or left, takes its channel out of the reckoning.    *)
LEMMA PumpStreams ==
  ASSUME IInv, NEW c \in Client, NEW k \in Pump, PumpEnds(c, k) \/ Depart(c, k)
  PROVE  \A d \in Client : Stream(d)'
<1>. SUFFICES ASSUME NEW d \in Client PROVE Stream(d)'
  OBVIOUS
<1>0. Stream(c) /\ Stream(d) /\ HubTypeOK
  BY DEF IInv
<1>1. CASE d # c
  <2>1. UNCHANGED <<newcomer, clients, closed, serving, log, since, shown, got>>
    BY DEF PumpEnds, Depart, channels, observed
  <2>2. send'[d] = send[d] /\ pump'[d] = pump[d]
    BY <1>0, <1>1 DEF PumpEnds, Depart, channels, HubTypeOK
  <2>3. Untouched(d)
    BY <2>1, <2>2 DEF Untouched, streamVars
  <2>. QED BY <1>0, <2>3, StreamUntouched
<1>2. CASE d = c
  <2>1. /\ UNCHANGED <<newcomer, clients, closed, serving, log, since, shown, got>>
        /\ pump[c][k] \in {"on", "leaving"}
        /\ pump'[c][k] \in {"leaving", "ended"}
        /\ \A j \in Pump : j # k => pump'[c][j] = pump[c][j]
    BY <1>0 DEF PumpEnds, Depart, channels, observed, HubTypeOK
  <2>2. \/ k = "write"
        \/ k # "write" /\ pump'[c]["write"] = pump[c]["write"]
    BY <2>1 DEF Pump
  <2>3. \/ send'[c] = send[c]
        \/ k = "write" /\ send[c] # <<>>
    BY <1>0 DEF PumpEnds, Depart, channels, HubTypeOK
  <2>4. serving[c] = "served"
    BY <1>0, <2>1 DEF Stream
  <2>5. c = newcomer => send'[c] = <<>>
    BY <1>0, <2>3, <1>2 DEF PumpEnds, Depart, channels, Stream, HubTypeOK
  <2>6. k = "write" => ~ (pump'[c]["write"] \in {"off", "on"})
    BY <2>1
  <2>7. CASE k = "write"
    BY <1>0, <1>2, <2>1, <2>4, <2>5, <2>6, <2>7 DEF Stream, Admitted, DueAt, DueLen
  <2>8. CASE k # "write"
    <3>1. send'[c] = send[c] /\ pump'[c]["write"] = pump[c]["write"]
      BY <2>2, <2>3, <2>8
    <3>2. UNCHANGED <<newcomer, clients, closed, serving, log, since, shown, got>>
      BY <2>1
    <3>. QED BY <1>0, <1>2, <2>4, <3>1, <3>2, StreamUntouched DEF Untouched, streamVars
  <2>. QED BY <2>7, <2>8
<1>. QED BY <1>1, <1>2

(* A client that is closed leaves the registry. *)
LEMMA CloseStreams ==
  ASSUME IInv, NEW cs, Close(Closing(cs)), clients' = StillListed(cs),
         UNCHANGED <<newcomer, send, serving, log, since, shown, got>>, newcomer = None,
         \A d \in Client, k \in Pump :
           \/ pump'[d][k] = pump[d][k]
           \/ pump[d][k] = "leaving" /\ pump'[d][k] = "ended"
  PROVE  \A d \in Client : Stream(d)'
<1>. SUFFICES ASSUME NEW d \in Client PROVE Stream(d)'
  OBVIOUS
<1>0. Stream(d) /\ HubTypeOK /\ d # newcomer
  BY HubAssumption DEF IInv
<1>1. /\ closed'[d] <=> closed[d] \/ (d \in clients /\ d \in cs)
      /\ d \in clients' <=> d \in clients /\ d \notin cs
  <2>1. closed'[d] = (closed[d] \/ d \in clients \intersect cs)
    BY Zenon DEF Close, Closing
  <2>. QED BY <2>1, Zenon DEF StillListed
<1>2. pump'[d]["write"] \in {"off", "on"} => pump'[d]["write"] = pump[d]["write"]
  <2>1. "write" \in Pump
    BY DEF Pump
  <2>. QED BY <2>1
<1>3. serving[d] # "served" => \A k \in Pump : pump'[d][k] = "off"
  BY <1>0 DEF Stream
<1>4. /\ (Admitted(d) => (d \in clients <=> ~ closed[d]))
      /\ (~ Admitted(d) => Outside(d))
      /\ Admitted(d)' <=> Admitted(d)
  BY <1>0 DEF Stream, Admitted
<1>5. /\ (Admitted(d)' => (d \in clients' <=> ~ closed'[d]))
      /\ (~ Admitted(d)' => Outside(d)')
      /\ (d \in clients' => d \in clients)
  <2>1. d # newcomer'
    BY <1>0
  <2>. QED BY <1>1, <1>4, <2>1, Zenon DEF Outside
<1>6. /\ UNCHANGED <<newcomer, send, serving, log, since, shown, got>>
      /\ d # newcomer'
  BY <1>0
<1>7. /\ since'[d] <= Len(log') /\ Len(got'[d]) <= DueLen(d)'
      /\ \A i \in 1..Len(got'[d]) : got'[d][i] = DueAt(d, i)'
  BY <1>0, <1>6 DEF Stream, DueAt, DueLen
<1>8. d \in clients' \ {newcomer'} /\ pump'[d]["write"] \in {"off", "on"} =>
        /\ (Len(got[d]) + Len(send[d]) = DueLen(d))'
        /\ (\A i \in 1..Len(send[d]) : send[d][i] = DueAt(d, Len(got[d]) + i))'
  <2>. SUFFICES ASSUME d \in clients', pump'[d]["write"] \in {"off", "on"}
                PROVE  /\ (Len(got[d]) + Len(send[d]) = DueLen(d))'
                       /\ (\A i \in 1..Len(send[d]) : send[d][i] = DueAt(d, Len(got[d]) + i))'
    OBVIOUS
  <2>1. d \in clients \ {newcomer} /\ pump[d]["write"] \in {"off", "on"}
    BY <1>0, <1>2, <1>5
  <2>2. /\ Len(got[d]) + Len(send[d]) = DueLen(d)
        /\ \A i \in 1..Len(send[d]) : send[d][i] = DueAt(d, Len(got[d]) + i)
    BY <1>0, <2>1 DEF Stream
  <2>3. /\ got'[d] = got[d] /\ send'[d] = send[d] /\ since'[d] = since[d]
        /\ shown'[d] = shown[d] /\ log' = log
    BY <1>6
  <2>4. ASSUME NEW i \in 1..Len(send[d])
        PROVE  send'[d][i] = DueAt(d, Len(got[d]) + i)'
    BY <2>2, <2>3 DEF DueAt
  <2>. QED BY <2>2, <2>3, <2>4 DEF DueLen
<1>9. serving'[d] # "served" => \A k \in Pump : pump'[d][k] = "off"
  BY <1>3, <1>6
<1>. QED BY <1>5, <1>6, <1>7, <1>8, <1>9 DEF Stream

LEMMA UnregisterStreams ==
  ASSUME IInv, TakeDone \/ (\E c \in Client, k \in Pump : TakeUnregister(c, k))
  PROVE  \A d \in Client : Stream(d)'
<1>1. CASE TakeDone
  <2>1. Close(Closing(clients)) /\ clients' = StillListed(clients)
    <3>1. Closing(clients) = clients /\ StillListed(clients) = {}
      BY DEF Closing, StillListed
    <3>. QED BY <1>1, <3>1 DEF TakeDone
  <2>2. newcomer = None /\ UNCHANGED <<newcomer, send, serving, pump, log, since, shown, got>>
    BY <1>1 DEF TakeDone, connection, observed, IInv, HubTypeOK
  <2>. QED BY <2>1, <2>2, CloseStreams
<1>2. ASSUME NEW c \in Client, NEW k \in Pump, TakeUnregister(c, k)
      PROVE  \A d \in Client : Stream(d)'
  <2>1. newcomer = None /\ UNCHANGED <<newcomer, send, serving, log, since, shown, got>>
    BY <1>2 DEF TakeUnregister, observed, IInv, HubTypeOK
  <2>2. \A d \in Client, j \in Pump :
          \/ pump'[d][j] = pump[d][j]
          \/ pump[d][j] = "leaving" /\ pump'[d][j] = "ended"
    BY <1>2 DEF TakeUnregister, IInv, HubTypeOK
  <2>. QED BY <1>2, <2>1, <2>2, CloseStreams DEF TakeUnregister
<1>. QED BY <1>1, <1>2

LEMMA RegisterStreams ==
  ASSUME IInv, NEW c \in Client, TakeRegister(c)
  PROVE  \A d \in Client : Stream(d)'
<1>. SUFFICES ASSUME NEW d \in Client PROVE Stream(d)'
  OBVIOUS
<1>0. Stream(c) /\ Stream(d) /\ HubTypeOK /\ newcomer = None /\ newcomer' = c
  BY DEF IInv, HubTypeOK, TakeRegister
<1>1. CASE d # c
  <2>1. UNCHANGED streamVars(d) /\ UNCHANGED pump[d]
    BY <1>0, <1>1 DEF TakeRegister, streamVars, channels, HubTypeOK
  <2>2. (d \in clients' <=> d \in clients) /\ (d = newcomer' <=> d = newcomer)
    BY <1>0, <1>1, HubAssumption DEF TakeRegister
  <2>. QED BY <1>0, <2>1, <2>2, StreamUntouched DEF Untouched
<1>2. CASE d = c
  <2>1. /\ UNCHANGED <<send, closed, pump, log, shown, got>>
        /\ serving[c] = "registering" /\ serving'[c] = "registered"
        /\ clients' = clients \union {c} /\ since'[c] = Len(log) /\ Len(log) \in Nat
    BY <1>0 DEF TakeRegister, channels, HubTypeOK
  <2>2. Outside(c) /\ \A k \in Pump : pump[c][k] = "off"
    BY <1>0, <2>1 DEF Stream, Admitted
  <2>3. Len(<<>>) = 0
    OBVIOUS
  <2>. QED BY <1>0, <1>2, <2>1, <2>2, <2>3 DEF Stream, Admitted, Outside, DueAt, DueLen
<1>. QED BY <1>1, <1>2

(* The feed is the first frame on the newcomer's empty channel. *)
LEMMA InitStreams ==
  ASSUME IInv, SendInit
  PROVE  \A d \in Client : Stream(d)'
<1>. SUFFICES ASSUME NEW d \in Client PROVE Stream(d)'
  OBVIOUS
<1>0. /\ Stream(d) /\ HubTypeOK /\ newcomer \in Client /\ newcomer' = None /\ d # newcomer'
      /\ UNCHANGED <<clients, closed, serving, pump, log, since, got>>
  BY HubAssumption DEF IInv, HubTypeOK, SendInit, connection
<1>1. CASE d # newcomer
  <2>1. UNCHANGED streamVars(d) /\ UNCHANGED pump[d]
    BY <1>0, <1>1 DEF SendInit, streamVars, HubTypeOK
  <2>. QED BY <1>0, <1>1, <2>1, StreamUntouched DEF Untouched
<1>2. CASE d = newcomer
  <2>1. /\ send[d] = <<>> /\ got[d] = <<>> /\ d \in clients /\ since[d] = Len(log)
        /\ Len(log) \in Nat /\ Len(<<>>) = 0
    BY <1>0, <1>2 DEF Stream, HubTypeOK
  <2>2. send'[d] = <<InitFeed(TextFeed)>> /\ shown'[d] = TextFeed
    <3>1. Append(<<>>, InitFeed(TextFeed)) = <<InitFeed(TextFeed)>>
      OBVIOUS
    <3>2. 0 < SendCap
      BY HubAssumption
    <3>. QED BY <1>0, <1>2, <2>1, <3>1, <3>2 DEF SendInit, HubTypeOK
  <2>3. Len(send'[d]) = 1 /\ send'[d][1] = InitFeed(TextFeed)
    BY <2>2
  <2>4. ASSUME NEW i \in 1..Len(send'[d])
        PROVE  send'[d][i] = DueAt(d, Len(got[d]) + i)'
    BY <1>0, <2>1, <2>2, <2>3 DEF DueAt
  <2>5. /\ (Len(got[d]) + Len(send[d]) = DueLen(d))' /\ Len(got'[d]) <= DueLen(d)'
        /\ Len(got'[d]) = 0 /\ since'[d] <= Len(log')
    BY <1>0, <2>1, <2>3 DEF DueLen
  <2>6. Admitted(d) /\ Admitted(d)' /\ ~ closed'[d]
    BY <1>0, <2>1 DEF Stream, Admitted, Outside
  <2>7. serving'[d] # "served" => \A k \in Pump : pump'[d][k] = "off"
    BY <1>0 DEF Stream
  <2>. QED BY <1>0, <2>1, <2>4, <2>5, <2>6, <2>7 DEF Stream
<1>. QED BY <1>1, <1>2

(* Every client in the registry gets the text, or leaves the registry.     *)
LEMMA BroadcastStreams ==
  ASSUME IInv, TakeBroadcast
  PROVE  \A d \in Client : Stream(d)'
<1>. SUFFICES ASSUME NEW d \in Client PROVE Stream(d)'
  OBVIOUS
<1>. DEFINE m == Head(broadcast)  n == Len(log)
<1>0. /\ Stream(d) /\ HubTypeOK /\ newcomer = None /\ d # newcomer /\ d # newcomer'
      /\ UNCHANGED <<serving, pump, since, shown, got>>
  BY HubAssumption DEF IInv, HubTypeOK, TakeBroadcast, connection
<1>1. /\ n \in Nat /\ Len(log') = n + 1 /\ log'[n + 1] = m
      /\ \A i \in 1..n : log'[i] = log[i]
  <2>1. m \in Msg /\ log \in Seq(Msg) /\ log' = Append(log, m)
    BY <1>0, TailTyped DEF TakeBroadcast, HubTypeOK
  <2>. QED BY <2>1, AppendProperties
<1>. HIDE DEF m, n
<1>2. since[d] \in Nat /\ since[d] <= n /\ since'[d] = since[d] /\ shown'[d] = shown[d]
  BY <1>0 DEF Stream, HubTypeOK, n
<1>3. DueLen(d)' = DueLen(d) + 1 /\ DueLen(d) = 1 + n - since[d]
  BY <1>1, <1>2 DEF DueLen, n
<1>13. n \in Nat /\ since[d] \in Nat /\ since[d] <= n /\ DueLen(d) = 1 + n - since[d]
  BY <1>1, <1>2, <1>3
<1>4. ASSUME NEW i \in 1..DueLen(d)
      PROVE  DueAt(d, i)' = DueAt(d, i)
  <2>1. CASE i = 1
    BY <1>2, <2>1 DEF DueAt
  <2>2. CASE i # 1
    <3>1. since[d] + i - 1 \in 1..n
      BY <1>13, <2>2
    <3>. QED BY <1>1, <1>2, <2>2, <3>1 DEF DueAt
  <2>. QED BY <2>1, <2>2
<1>5. ASSUME NEW i, i = DueLen(d) + 1
      PROVE  DueAt(d, i)' = NewText(m)
  <2>1. i # 1 /\ since[d] + i - 1 = n + 1
    BY <1>5, <1>13
  <2>. QED BY <1>1, <1>2, <2>1 DEF DueAt
<1>6. Len(got[d]) \in Nat /\ Len(send[d]) \in Nat
  BY <1>0 DEF HubTypeOK
<1>7. /\ Len(got'[d]) <= DueLen(d)'
      /\ \A i \in 1..Len(got'[d]) : got'[d][i] = DueAt(d, i)'
  <2>1. got'[d] = got[d] /\ Len(got[d]) <= DueLen(d)
        /\ \A i \in 1..Len(got[d]) : got[d][i] = DueAt(d, i)
    BY <1>0 DEF Stream
  <2>2. ASSUME NEW i \in 1..Len(got[d])
        PROVE  i \in 1..DueLen(d)
    <3>1. Len(got[d]) \in Nat /\ Len(got[d]) <= DueLen(d)
      BY <1>6, <2>1
    <3>. QED BY <1>13, <3>1
  <2>3. Len(got[d]) <= DueLen(d) + 1
    <3>1. Len(got[d]) \in Nat /\ Len(got[d]) <= DueLen(d)
      BY <1>6, <2>1
    <3>. QED BY <1>13, <3>1
  <2>4. ASSUME NEW i \in 1..Len(got[d])
        PROVE  got[d][i] = DueAt(d, i)'
    BY <1>4, <2>1, <2>2
  <2>. QED BY <1>3, <2>1, <2>3, <2>4
<1>8. /\ closed'[d] <=> closed[d] \/ (d \in clients /\ d \in Stuck)
      /\ d \in clients' <=> d \in clients /\ d \notin Stuck
  <2>1. closed'[d] = (closed[d] \/ d \in clients \intersect Stuck)
    BY Zenon DEF TakeBroadcast, Close, Closing
  <2>2. d \in clients' <=> d \in clients /\ d \notin Stuck
    BY DEF TakeBroadcast, StillListed
  <2>. QED BY <2>1, <2>2, Zenon
<1>9. d \in clients' /\ pump'[d]["write"] \in {"off", "on"} =>
        /\ (Len(got[d]) + Len(send[d]) = DueLen(d))'
        /\ (\A i \in 1..Len(send[d]) : send[d][i] = DueAt(d, Len(got[d]) + i))'
  <2>. SUFFICES ASSUME d \in clients', pump'[d]["write"] \in {"off", "on"}
                PROVE  /\ (Len(got[d]) + Len(send[d]) = DueLen(d))'
                       /\ (\A i \in 1..Len(send[d]) : send[d][i] = DueAt(d, Len(got[d]) + i))'
    OBVIOUS
  <2>. DEFINE q == Len(send[d])  g == Len(got[d])
  <2>1. d \in clients /\ d \notin Stuck /\ pump[d]["write"] \in {"off", "on"}
    BY <1>0, <1>8
  <2>2. /\ g + q = DueLen(d) /\ q \in Nat /\ g \in Nat
        /\ \A i \in 1..q : send[d][i] = DueAt(d, g + i)
    BY <1>0, <1>6, <2>1 DEF Stream
  <2>3. send'[d] = Append(send[d], NewText(m))
    <3>1. Len(send[d]) < SendCap
      BY <1>0, <1>6, <2>1, HubAssumption DEF Stuck
    <3>. QED BY <2>1, <3>1 DEF TakeBroadcast, m
  <2>4. /\ Len(send'[d]) = q + 1 /\ send'[d][q + 1] = NewText(m)
        /\ \A i \in 1..q : send'[d][i] = send[d][i]
    <3>1. send[d] \in Seq(Frame) /\ NewText(m) \in Frame
      <4>1. m \in Msg
        BY <1>0, TailTyped DEF TakeBroadcast, HubTypeOK, m
      <4>. QED BY <1>0, <4>1, FrameTyped DEF HubTypeOK
    <3>. QED BY <2>3, <3>1, AppendProperties
  <2>5. got'[d] = got[d]
    BY <1>0
  <2>. HIDE DEF q
  <2>8. g + q = DueLen(d) /\ q \in Nat /\ g \in Nat
    BY <2>2
  <2>. HIDE DEF g
  <2>9. ASSUME NEW i \in 1..q + 1, NEW j, j = g + i
        PROVE  send'[d][i] = DueAt(d, j)'
    <3>1. CASE i \in 1..q
      <4>1. j \in 1..DueLen(d)
        BY <2>8, <2>9, <3>1
      <4>. QED BY <1>4, <2>2, <2>4, <2>9, <3>1, <4>1
    <3>2. CASE i = q + 1
      <4>1. j = DueLen(d) + 1
        BY <2>8, <2>9, <3>2
      <4>. QED BY <1>5, <2>4, <3>2, <4>1
    <3>. QED BY <2>8, <3>1, <3>2
  <2>6. ASSUME NEW i \in 1..q + 1
        PROVE  send'[d][i] = DueAt(d, g + i)'
    <3>1. g' = g
      BY <2>5 DEF g
    <3>. QED BY <2>9, <3>1
  <2>7. g + (q + 1) = DueLen(d) + 1
    BY <2>8
  <2>. QED BY <1>3, <2>4, <2>5, <2>6, <2>7 DEF g
<1>10. /\ (Admitted(d) => (d \in clients <=> ~ closed[d]))
       /\ (~ Admitted(d) => Outside(d))
       /\ Admitted(d)' <=> Admitted(d)
  BY <1>0 DEF Stream, Admitted
<1>11. /\ (Admitted(d)' => (d \in clients' <=> ~ closed'[d]))
       /\ (~ Admitted(d)' => Outside(d)')
  <2>1. d \notin clients => send'[d] = send[d]
    BY <1>0 DEF TakeBroadcast, HubTypeOK
  <2>. QED BY <1>0, <1>8, <1>10, <2>1, Zenon DEF Outside
<1>12. /\ serving'[d] # "served" => \A k \in Pump : pump'[d][k] = "off"
       /\ since'[d] <= Len(log')
  BY <1>0, <1>1, <1>2 DEF Stream
<1>. QED BY <1>0, <1>7, <1>9, <1>11, <1>12 DEF Stream

LEMMA HubInvariance == HubSpec => []IInv
<1>1. HubInit => IInv
  <2>. SUFFICES ASSUME HubInit, NEW c \in Client
                PROVE  Stream(c)
    BY InitTyped DEF IInv
  <2>1. Len(<<>>) = 0
    OBVIOUS
  <2>2. c # newcomer
    BY HubAssumption DEF HubInit
  <2>. QED BY <2>1, <2>2 DEF HubInit, Stream, Admitted, Outside, DueLen
<1>2. IInv /\ [HubNext]_hubVars => IInv'
  <2>. SUFFICES ASSUME IInv, [HubNext]_hubVars
                PROVE  \A c \in Client : Stream(c)'
    BY StepTyped DEF IInv
  <2>1. CASE UNCHANGED hubVars
    BY <2>1, QuietStreams DEF hubVars, channels, connection, observed
  <2>2. ASSUME NEW c \in Client,
               \/ Connect(c) \/ Refuse(c) \/ StartPumps(c) \/ Write(c) \/ TakeRegister(c)
               \/ \E k \in Pump : PumpEnds(c, k) \/ Depart(c, k) \/ TakeUnregister(c, k)
        PROVE  \A d \in Client : Stream(d)'
    BY <2>2, HandlerStreams, WriteStreams, RegisterStreams, PumpStreams, UnregisterStreams
  <2>3. ASSUME NEW g \in Poster,
               (\E m \in Msg \ Added : Store(g, m)) \/ Enqueue(g) \/ Abandon(g)
        PROVE  \A d \in Client : Stream(d)'
    BY <2>3, PostStreams
  <2>4. CASE TakeDone \/ SendInit \/ TakeBroadcast \/ Shutdown \/ SwitchFeedDir
    BY <2>4, UnregisterStreams, InitStreams, BroadcastStreams, StopStreams
  <2>. QED BY <2>1, <2>2, <2>3, <2>4 DEF HubNext
<1>. QED BY <1>1, <1>2, PTL DEF HubSpec

-------------------------------------------------------------------------------
(* Run never sends on a closed channel: whoever is registered is open.     *)
THEOREM Open == HubSpec => []OpenWhileListed
<1>1. IInv => OpenWhileListed
  <2>. SUFFICES ASSUME IInv
                PROVE  OpenWhileListed
    OBVIOUS
  <2>1. ASSUME NEW c \in clients
        PROVE  ~ closed[c]
    <3>1. c \in Client /\ Stream(c)
      BY DEF IInv, HubTypeOK
    <3>. QED BY <3>1 DEF Stream, Outside
  <2>2. ASSUME hub = "init"
        PROVE  newcomer \in clients
    <3>1. newcomer \in Client /\ Stream(newcomer)
      BY <2>2 DEF IInv, HubTypeOK
    <3>. QED BY <3>1 DEF Stream
  <2>. QED BY <2>1, <2>2 DEF OpenWhileListed
<1>. QED BY <1>1, HubInvariance, PTL

LEMMA ConcatFrames ==
  ASSUME NEW s \in Seq(Frame), NEW t \in Seq(Frame)
  PROVE  /\ s \o t \in Seq(Frame)
         /\ Len(s) \in Nat /\ Len(t) \in Nat /\ Len(s \o t) = Len(s) + Len(t)
         /\ \A i \in 1..Len(s) : (s \o t)[i] = s[i]
         /\ \A i \in 1..Len(t) : (s \o t)[Len(s) + i] = t[i]
<1>1. Len(s) \in Nat /\ Len(t) \in Nat
  OBVIOUS
<1>2. /\ s \o t \in Seq(Frame) /\ Len(s \o t) = Len(s) + Len(t)
      /\ \A i \in 1..Len(s) + Len(t) : (s \o t)[i] = IF i <= Len(s) THEN s[i] ELSE t[i - Len(s)]
  BY ConcatProperties
<1>3. ASSUME NEW i \in 1..Len(s)
      PROVE  (s \o t)[i] = s[i]
  <2>1. i \in 1..Len(s) + Len(t) /\ i <= Len(s)
    BY <1>1
  <2>. QED BY <1>2, <2>1
<1>4. ASSUME NEW i \in 1..Len(t)
      PROVE  (s \o t)[Len(s) + i] = t[i]
  <2>1. /\ Len(s) + i \in 1..Len(s) + Len(t) /\ ~ (Len(s) + i <= Len(s))
        /\ Len(s) + i - Len(s) = i
    BY <1>1
  <2>. QED BY <1>2, <2>1
<1>. QED BY <1>1, <1>2, <1>3, <1>4

(* The sequence Due(c), frame by frame *)
LEMMA DueIs ==
  ASSUME IInv, NEW c \in Client
  PROVE  /\ Due(c) \in Seq(Frame)
         /\ Len(Due(c)) = DueLen(c)
         /\ \A i \in 1..DueLen(c) : Due(c)[i] = DueAt(c, i)
<1>. DEFINE n == Len(log) - since[c]
            rest == [i \in 1..n |-> NewText(log[since[c] + i])]
            first == <<InitFeed(shown[c])>>
<1>1. since[c] \in Nat /\ Len(log) \in Nat /\ since[c] <= Len(log)
  BY DEF IInv, HubTypeOK, Stream
<1>2. n \in Nat /\ DueLen(c) = 1 + n
  BY <1>1 DEF DueLen
<1>3. \A i \in 1..n : NewText(log[since[c] + i]) \in Frame
  <2>1. ASSUME NEW i \in 1..n
        PROVE  log[since[c] + i] \in Msg
    <3>1. since[c] + i \in 1..Len(log)
      BY <1>1
    <3>. QED BY <3>1, ElementOfSeq DEF IInv, HubTypeOK
  <2>. QED BY <2>1, FrameTyped
<1>4. rest \in Seq(Frame) /\ Len(rest) = n /\ \A i \in 1..n : rest[i] = NewText(log[since[c] + i])
  <2>1. rest \in [1..n -> Frame]
    BY <1>3
  <2>2. rest \in Seq(Frame)
    BY <1>2, <2>1, SeqDef
  <2>. QED BY <1>2, <2>2, LenProperties
<1>5. first \in Seq(Frame) /\ Len(first) = 1 /\ first[1] = InitFeed(shown[c])
  BY FrameTyped DEF IInv, HubTypeOK
<1>6. Due(c) = first \o rest
  BY DEF Due
<1>. HIDE DEF n, rest, first
<1>7. /\ Due(c) \in Seq(Frame) /\ Len(Due(c)) = 1 + n
      /\ Due(c)[1] = InitFeed(shown[c])
      /\ \A i \in 1..n : Due(c)[1 + i] = rest[i]
  <2>1. /\ Due(c) \in Seq(Frame) /\ Len(Due(c)) = Len(first) + Len(rest)
        /\ \A i \in 1..Len(first) : Due(c)[i] = first[i]
        /\ \A i \in 1..Len(rest) : Due(c)[Len(first) + i] = rest[i]
    <3>1. first \in Seq(Frame) /\ rest \in Seq(Frame)
      BY <1>4, <1>5
    <3>2. /\ first \o rest \in Seq(Frame)
          /\ Len(first \o rest) = Len(first) + Len(rest)
          /\ \A i \in 1..Len(first) : (first \o rest)[i] = first[i]
          /\ \A i \in 1..Len(rest) : (first \o rest)[Len(first) + i] = rest[i]
      BY <3>1, ConcatFrames
    <3>. QED BY <1>6, <3>2
  <2>2. 1 \in 1..1
    OBVIOUS
  <2>. QED BY <1>4, <1>5, <2>1, <2>2
<1>8. ASSUME NEW i \in 1..DueLen(c)
      PROVE  Due(c)[i] = DueAt(c, i)
  <2>1. CASE i = 1
    BY <1>7, <2>1 DEF DueAt
  <2>2. CASE i # 1
    <3>1. i - 1 \in 1..n /\ 1 + (i - 1) = i /\ since[c] + (i - 1) = since[c] + i - 1
      BY <1>1, <1>2, <2>2
    <3>. QED BY <1>4, <1>7, <2>2, <3>1 DEF DueAt
  <2>. QED BY <2>1, <2>2
<1>. QED BY <1>2, <1>7, <1>8

(* Each client gets the feed and then an unbroken part of the one order of *)
(* broadcasts, whatever the sizes of the buffers and the speed of writes.  *)
THEOREM Contiguous == HubSpec => []ContiguousDelivery
<1>1. ASSUME IInv, NEW c \in Client, NEW i \in 1..Len(got[c])
      PROVE  i <= Len(Due(c)) /\ got[c][i] = Due(c)[i]
  <2>1. /\ Len(got[c]) \in Nat /\ DueLen(c) \in Int
        /\ Len(got[c]) <= DueLen(c) /\ got[c][i] = DueAt(c, i)
    <3>1. Stream(c) /\ got[c] \in Seq(Frame) /\ since[c] \in Nat /\ log \in Seq(Msg)
      BY <1>1 DEF IInv, HubTypeOK
    <3>2. Len(got[c]) \in Nat /\ Len(log) \in Nat
      BY <3>1
    <3>3. DueLen(c) \in Int
      BY <3>1, <3>2 DEF DueLen
    <3>4. Len(got[c]) <= DueLen(c) /\ got[c][i] = DueAt(c, i)
      BY <1>1, <3>1 DEF Stream
    <3>. QED BY <3>2, <3>3, <3>4
  <2>2. i \in 1..DueLen(c) /\ i <= DueLen(c)
    BY <2>1
  <2>. QED BY <1>1, <2>1, <2>2, DueIs
<1>2. ASSUME IInv, NEW c \in clients \ {newcomer}, pump[c]["write"] \in {"off", "on"}
      PROVE  got[c] \o send[c] = Due(c)
  <2>. DEFINE g == Len(got[c])  q == Len(send[c])
  <2>1. c \in Client /\ Stream(c) /\ got[c] \in Seq(Frame) /\ send[c] \in Seq(Frame)
    BY <1>2 DEF IInv, HubTypeOK
  <2>2. /\ g \in Nat /\ q \in Nat /\ g + q = DueLen(c)
        /\ \A i \in 1..g : got[c][i] = DueAt(c, i)
        /\ \A i \in 1..q : send[c][i] = DueAt(c, g + i)
    <3>1. Len(got[c]) \in Nat /\ Len(send[c]) \in Nat
      BY <2>1
    <3>. QED BY <1>2, <2>1, <3>1 DEF Stream
  <2>3. /\ Due(c) \in Seq(Frame) /\ Len(Due(c)) = g + q
        /\ \A i \in 1..g + q : Due(c)[i] = DueAt(c, i)
    BY <1>2, <2>1, <2>2, DueIs
  <2>4. /\ got[c] \o send[c] \in Seq(Frame) /\ Len(got[c] \o send[c]) = g + q
        /\ \A i \in 1..g : (got[c] \o send[c])[i] = got[c][i]
        /\ \A i \in 1..q : (got[c] \o send[c])[g + i] = send[c][i]
    BY <2>1, ConcatFrames
  <2>. HIDE DEF g, q
  <2>5. g \in Nat /\ q \in Nat
    BY <2>2
  <2>6. ASSUME NEW i \in 1..g + q
        PROVE  (got[c] \o send[c])[i] = Due(c)[i]
    <3>1. CASE i \in 1..g
      BY <2>2, <2>3, <2>4, <3>1
    <3>2. CASE i \notin 1..g
      <4>1. i - g \in 1..q /\ g + (i - g) = i
        BY <2>5, <3>2
      <4>2. (got[c] \o send[c])[g + (i - g)] = send[c][i - g]
        BY <2>4, <4>1
      <4>3. send[c][i - g] = DueAt(c, g + (i - g))
        BY <2>2, <4>1
      <4>4. Due(c)[i] = DueAt(c, i)
        BY <2>3
      <4>. QED BY <4>1, <4>2, <4>3, <4>4
    <3>. QED BY <3>1, <3>2
  <2>. QED BY <2>3, <2>4, <2>6, SeqEqual
<1>3. IInv => ContiguousDelivery
  BY <1>1, <1>2 DEF ContiguousDelivery
<1>. QED BY <1>3, HubInvariance, PTL

-------------------------------------------------------------------------------
(* What a client connected now has seen, or will be sent *)
Covered(c, m) ==
  \/ m \in Pending
  \/ m \in Texts(shown[c])
  \/ \E i \in since[c] + 1..Len(log) : log[i] = m

LEMMA TextsOf ==
  /\ \A s \in Seq(Msg), m \in Msg : Texts(Append(s, m)) = Texts(s) \union {m}
  /\ \A s \in Seq(Msg) : s # <<>> => Texts(s) \subseteq {Head(s)} \union Texts(Tail(s))
  /\ \A s \in Seq(Msg) : Texts(s) \subseteq Msg
<1>1. ASSUME NEW s \in Seq(Msg), NEW m \in Msg
      PROVE  Texts(Append(s, m)) = Texts(s) \union {m}
  <2>1. /\ Len(s) \in Nat /\ Len(Append(s, m)) = Len(s) + 1
        /\ \A i \in 1..Len(s) : Append(s, m)[i] = s[i]
        /\ Append(s, m)[Len(s) + 1] = m
    BY AppendProperties
  <2>2. \A i \in 1..Len(s) + 1 : i \in 1..Len(s) \/ i = Len(s) + 1
    BY <2>1
  <2>3. Len(s) + 1 \in 1..Len(s) + 1 /\ \A i \in 1..Len(s) : i \in 1..Len(s) + 1
    BY <2>1
  <2>. QED BY <2>1, <2>2, <2>3 DEF Texts
<1>2. ASSUME NEW s \in Seq(Msg), s # <<>>, NEW i \in 1..Len(s)
      PROVE  s[i] \in {Head(s)} \union Texts(Tail(s))
  <2>1. /\ Len(s) \in Nat \ {0} /\ Len(Tail(s)) = Len(s) - 1 /\ Head(s) = s[1]
        /\ \A j \in 1..Len(Tail(s)) : Tail(s)[j] = s[j + 1]
    BY <1>2, TailTyped
  <2>2. CASE i = 1
    BY <2>1, <2>2
  <2>3. CASE i # 1
    <3>1. i - 1 \in 1..Len(Tail(s)) /\ (i - 1) + 1 = i
      BY <2>1, <2>3
    <3>2. Tail(s)[i - 1] = s[i]
      BY <2>1, <3>1
    <3>. QED BY <3>1, <3>2 DEF Texts
  <2>. QED BY <2>2, <2>3
<1>3. ASSUME NEW s \in Seq(Msg)
      PROVE  Texts(s) \subseteq Msg
  BY ElementOfSeq DEF Texts
<1>. QED BY <1>1, <1>2, <1>3 DEF Texts

(* A text enters the feed only by being posted. *)
LEMMA StoredTexts ==
  ASSUME HubTypeOK, NEW m \in Msg, AddTextMessage(m), NEW x \in Texts(TextFeed')
  PROVE  x \in Texts(TextFeed) \union {m}
<1>. DEFINE longer == <<m>> \o TextFeed
<1>1. TextFeed \in Seq(Msg) /\ <<m>> \in Seq(Msg) /\ Len(<<m>>) = 1 /\ <<m>>[1] = m
  BY DEF HubTypeOK, FeedTypeOK
<1>2. /\ longer \in Seq(Msg) /\ Len(TextFeed) \in Nat /\ Len(longer) = 1 + Len(TextFeed)
      /\ \A i \in 1..1 + Len(TextFeed) : longer[i] = IF i <= 1 THEN m ELSE TextFeed[i - 1]
  BY <1>1
<1>3. TextFeed' = Clipped(longer)
  BY DEF AddTextMessage
<1>. HIDE DEF longer
<1>4. /\ TextFeed' = Newest(longer)
      /\ Len(Newest(longer)) = (IF Len(longer) < MaxFeedLen THEN Len(longer) ELSE MaxFeedLen)
      /\ \A i \in 1..Len(Newest(longer)) : Newest(longer)[i] = longer[i]
  BY <1>2, <1>3, ClippedIsNewest
<1>5. PICK i \in 1..Len(Newest(longer)) : x = longer[i]
  BY <1>4 DEF Texts
<1>6. i \in 1..1 + Len(TextFeed)
  <2>1. /\ Len(Newest(longer)) = (IF Len(longer) < MaxFeedLen THEN Len(longer) ELSE MaxFeedLen)
        /\ Len(longer) = 1 + Len(TextFeed) /\ Len(TextFeed) \in Nat /\ MaxFeedLen \in Nat
    BY <1>2, <1>4, FeedAssumption
  <2>. QED BY <2>1
<1>7. CASE i <= 1
  BY <1>2, <1>5, <1>6, <1>7
<1>8. CASE ~ (i <= 1)
  <2>1. i - 1 \in 1..Len(TextFeed)
    BY <1>2, <1>6, <1>8
  <2>2. x = TextFeed[i - 1]
    BY <1>2, <1>5, <1>6, <1>8
  <2>. QED BY <2>1, <2>2 DEF Texts
<1>. QED BY <1>7, <1>8

(* Coverage is not lost by a step that keeps what is pending. *)
LEMMA CoveredKept ==
  ASSUME NEW c \in Client, NEW m, Covered(c, m),
         m \in Pending => m \in Pending', UNCHANGED <<shown, since, log>>
  PROVE  Covered(c, m)'
BY DEF Covered, Texts

(* Clients that were shown the feed since the last switch *)
Hearers == (clients \intersect informed) \ {newcomer}

(* Every text of the feed was shown to each client connected since the     *)
(* last switch, was broadcast since it connected, or is about to be.       *)
THEOREM Nothing == HubSpec => []NothingMissed
<1>1. HubInit => NothingMissed
  BY DEF HubInit, Init, NothingMissed
<1>2. ASSUME IInv, IInv', NothingMissed, [HubNext]_hubVars
      PROVE  NothingMissed'
  <2>0. HubTypeOK /\ HubTypeOK'
    BY <1>2 DEF IInv
  <2>2. SUFFICES ASSUME ~ done', NEW c \in Hearers', NEW m \in Texts(TextFeed')
                 PROVE  Covered(c, m)'
    BY DEF NothingMissed, Covered, Hearers
  <2>3. m \in Msg /\ c \in Client
    BY <2>0, TextsOf DEF HubTypeOK, FeedTypeOK, Hearers
  <2>4. ASSUME ~ done, c \in Hearers, m \in Texts(TextFeed)
        PROVE  Covered(c, m)
    BY <1>2, <2>4 DEF NothingMissed, Covered, Hearers
  <2>5. ASSUME UNCHANGED <<done, TextFeed, posting, broadcast, shown, since, log>>,
               Hearers' \subseteq Hearers
        PROVE  Covered(c, m)'
    <3>1. Pending' = Pending /\ Covered(c, m)
      BY <2>2, <2>4, <2>5 DEF Pending, Texts
    <3>. QED BY <2>3, <2>5, <3>1, CoveredKept
  <2>6. ASSUME NEW g \in Poster, NEW x \in Msg, Store(g, x)
        PROVE  Covered(c, m)'
    <3>1. posting[g] = None /\ posting' = [posting EXCEPT ![g] = x] /\ AddTextMessage(x)
          /\ UNCHANGED <<clients, newcomer, informed, done, broadcast, shown, since, log>>
      BY <2>6 DEF Store, MayPost, channels, observed
    <3>2. x \in Pending'
      BY <2>0, <3>1 DEF Pending, HubTypeOK
    <3>3. m \in Pending => m \in Pending'
      BY <2>0, <2>3, <3>1, FeedAssumption DEF Pending, Texts, HubTypeOK
    <3>4. CASE m = x
      BY <3>2, <3>4 DEF Covered
    <3>5. CASE m # x
      <4>1. m \in Texts(TextFeed)
        BY <2>0, <2>2, <3>1, <3>5, StoredTexts
      <4>2. Covered(c, m)
        BY <2>2, <2>4, <3>1, <4>1 DEF Hearers
      <4>. QED BY <2>3, <3>1, <3>3, <4>2, CoveredKept
    <3>. QED BY <3>4, <3>5
  <2>7. ASSUME NEW g \in Poster, Enqueue(g)
        PROVE  Covered(c, m)'
    <3>1. /\ posting[g] \in Msg /\ broadcast' = Append(broadcast, posting[g])
          /\ posting' = [posting EXCEPT ![g] = None]
          /\ UNCHANGED <<TextFeed, clients, newcomer, informed, done, shown, since, log>>
      BY <2>0, <2>7 DEF Enqueue, observed, feedVars, HubTypeOK
    <3>2. Texts(broadcast') = Texts(broadcast) \union {posting[g]}
      BY <2>0, <3>1, TextsOf DEF HubTypeOK
    <3>3. m \in Pending => m \in Pending'
      BY <2>0, <2>3, <3>1, <3>2 DEF Pending, HubTypeOK
    <3>4. Covered(c, m)
      BY <2>2, <2>4, <3>1 DEF Hearers
    <3>. QED BY <2>3, <3>1, <3>3, <3>4, CoveredKept
  <2>8. ASSUME NEW g \in Poster, Abandon(g)
        PROVE  Covered(c, m)'
    BY <2>2, <2>8 DEF Abandon, channels
  <2>9. CASE TakeBroadcast
    <3>1. /\ broadcast # <<>> /\ broadcast' = Tail(broadcast)
          /\ log' = Append(log, Head(broadcast)) /\ newcomer' = newcomer
          /\ clients' \subseteq clients
          /\ UNCHANGED <<TextFeed, informed, done, posting, shown, since>>
      BY <2>9 DEF TakeBroadcast, StillListed, feedVars
    <3>2. Covered(c, m)
      BY <2>2, <2>4, <3>1 DEF Hearers
    <3>3. /\ Head(broadcast) \in Msg /\ Len(log) \in Nat /\ since[c] \in Nat
          /\ since[c] <= Len(log)
      BY <1>2, <2>0, <2>3, <3>1, TailTyped DEF HubTypeOK, IInv, Stream
    <3>4. /\ Len(log') = Len(log) + 1 /\ log'[Len(log) + 1] = Head(broadcast)
          /\ \A i \in 1..Len(log) : log'[i] = log[i]
      BY <2>0, <3>1, <3>3, AppendProperties DEF HubTypeOK
    <3>5. CASE m = Head(broadcast)
      <4>1. Len(log) + 1 \in since[c] + 1..Len(log) + 1
        BY <3>3
      <4>2. \E i \in since[c] + 1..Len(log') : log'[i] = m
        BY <3>4, <3>5, <4>1
      <4>. QED BY <3>1, <4>2 DEF Covered
    <3>6. CASE m # Head(broadcast) /\ m \in Pending
      <4>1. m \in Pending'
        BY <2>0, <3>1, <3>6, TextsOf DEF Pending, HubTypeOK
      <4>. QED BY <4>1 DEF Covered
    <3>7. CASE m \in Texts(shown[c])
      BY <3>1, <3>7 DEF Covered, Texts
    <3>8. ASSUME NEW i \in since[c] + 1..Len(log), log[i] = m
          PROVE  Covered(c, m)'
      <4>1. i \in 1..Len(log) /\ i \in since[c] + 1..Len(log) + 1
        BY <3>3
      <4>2. \E j \in since[c] + 1..Len(log') : log'[j] = m
        BY <3>4, <3>8, <4>1
      <4>. QED BY <3>1, <4>2 DEF Covered
    <3>. QED BY <3>2, <3>5, <3>6, <3>7, <3>8 DEF Covered
  <2>10. CASE SendInit
    <3>1. /\ newcomer' = None /\ shown' = [shown EXCEPT ![newcomer] = TextFeed]
          /\ informed' = informed \union {newcomer}
          /\ UNCHANGED <<TextFeed, clients, done, posting, broadcast, since, log>>
      BY <2>10 DEF SendInit, feedVars
    <3>2. CASE c = newcomer
      <4>1. shown'[c] = TextFeed'
        BY <2>0, <2>3, <3>1, <3>2 DEF HubTypeOK
      <4>. QED BY <2>2, <4>1 DEF Covered
    <3>3. CASE c # newcomer
      <4>1. Covered(c, m) /\ shown'[c] = shown[c] /\ Pending' = Pending
        BY <2>0, <2>2, <2>3, <2>4, <3>1, <3>3 DEF HubTypeOK, Pending, Texts, Hearers
      <4>. QED BY <3>1, <4>1 DEF Covered, Texts
    <3>. QED BY <3>2, <3>3
  <2>11. ASSUME NEW d \in Client, TakeRegister(d)
         PROVE  Covered(c, m)'
    <3>1. /\ newcomer' = d /\ newcomer = None /\ clients' = clients \union {d}
          /\ since' = [since EXCEPT ![d] = Len(log)]
          /\ UNCHANGED <<TextFeed, informed, done, posting, broadcast, shown, log>>
      BY <2>0, <2>11 DEF TakeRegister, feedVars, channels, HubTypeOK
    <3>2. c # d /\ c \in Hearers
      <4>1. c \in clients' /\ c \in informed' /\ c # newcomer'
        BY <2>2 DEF Hearers
      <4>2. c # d /\ c \in clients /\ c \in informed
        BY <3>1, <4>1
      <4>. QED BY <2>3, <3>1, <4>2, HubAssumption DEF Hearers
    <3>3. Covered(c, m)
      BY <2>2, <2>4, <3>1, <3>2
    <3>4. since'[c] = since[c] /\ Pending' = Pending
      BY <2>0, <2>3, <3>1, <3>2 DEF HubTypeOK, Pending, Texts
    <3>. QED BY <3>1, <3>3, <3>4 DEF Covered, Texts
  <2>12. ASSUME NEW d \in Client,
                \/ Connect(d) \/ Refuse(d) \/ StartPumps(d) \/ Write(d)
                \/ \E k \in Pump : PumpEnds(d, k) \/ Depart(d, k) \/ TakeUnregister(d, k)
         PROVE  Covered(c, m)'
    <3>1. UNCHANGED <<done, TextFeed, posting, broadcast, shown, since, log, newcomer, informed>>
      BY <2>12 DEF Connect, Refuse, StartPumps, Write, PumpEnds, Depart, TakeUnregister,
                   feedVars, channels, observed
    <3>2. clients' \subseteq clients
      BY <2>12 DEF Connect, Refuse, StartPumps, Write, PumpEnds, Depart, TakeUnregister,
                   StillListed
    <3>. QED BY <2>5, <3>1, <3>2 DEF Hearers
  <2>13. CASE TakeDone \/ Shutdown \/ SwitchFeedDir
    <3>1. CASE TakeDone \/ Shutdown
      BY <2>2, <2>13, <3>1 DEF TakeDone, Shutdown
    <3>2. CASE SwitchFeedDir /\ (\E d \in Dir : SwitchDir(d)) /\ UNCHANGED informed
      <4>1. UNCHANGED <<done, TextFeed, posting, broadcast, shown, since, log, newcomer,
                        informed, clients>>
        BY <3>2 DEF SwitchFeedDir, SwitchDir, channels
      <4>. QED BY <2>5, <4>1 DEF Hearers
    <3>3. CASE informed' = {}
      BY <2>2, <3>3 DEF Hearers
    <3>. QED BY <2>13, <3>1, <3>2, <3>3 DEF SwitchFeedDir
  <2>14. CASE UNCHANGED hubVars
    BY <2>5, <2>14 DEF hubVars, feedVars, channels, observed, Hearers
  <2>. QED BY <1>2, <2>6, <2>7, <2>8, <2>9, <2>10, <2>11, <2>12, <2>13, <2>14 DEF HubNext
<1>. QED BY <1>1, <1>2, HubInvariance, PTL DEF HubSpec

===============================================================================
