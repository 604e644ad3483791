--------------------------------- MODULE Feed ---------------------------------
(***************************************************************************)
(* The shared text feed (core/server/config.go): the newest MaxFeedLen     *)
(* texts in memory, written to .landrop_feed.json of the upload directory  *)
(* after each text and read back when the operator switches directories or *)
(* the server starts.                                                      *)
(*                                                                         *)
(* Config.mu covers each AddTextMessage with its save, so that is one      *)
(* action.  SetUploadDir has two critical sections, under runtimeMu and    *)
(* then under mu; it is called by the desktop's UI thread alone, so two    *)
(* calls never overlap.  feedPath is represented by its directory.         *)
(***************************************************************************)
EXTENDS Integers, Sequences

CONSTANTS
  Msg,          \* texts; each is sent once
  Dir,          \* upload directories
  None,         \* no value: a file that does not exist, no switch under way
  MaxFeedLen,   \* Config.MaxFeedLen
  Hazard        \* which of "fault", "crash", "switch" happen

ASSUME FeedAssumption ==
  /\ None \notin Dir /\ None \notin Msg /\ None \notin Seq(Msg)
  /\ MaxFeedLen \in Nat \ {0}

VARIABLES
  uploadDir,    \* Config.uploadDir
  feedPath,     \* the directory Config.feedPath lies in
  TextFeed,     \* Config.TextFeed, newest first
  stored,       \* stored[d]: the feed file of directory d, None if absent
  switching,    \* the directory SetUploadDir is half-way to, None outside
  added,        \* history: added[d]: texts added to the feed of d, newest first
  damaged       \* history: directories whose feed was once not saved or not read

feedVars == <<uploadDir, feedPath, TextFeed, stored, switching, added, damaged>>

-------------------------------------------------------------------------------
(* The feed is never shortened. *)
Clipped_Never(feed) == feed

(* The oldest texts are kept instead of the newest. *)
Clipped_Oldest(feed) ==
  IF Len(feed) > MaxFeedLen THEN Tail(feed) ELSE feed

Clipped(feed) == IF Len(feed) > MaxFeedLen THEN SubSeq(feed, 1, MaxFeedLen) ELSE feed

(* Without a feed file, the feed of the former directory stays. *)
Loaded_KeepsOld(file) == IF file = None THEN TextFeed ELSE Clipped(file)

Loaded(file) == IF file = None THEN <<>> ELSE Clipped(file)

Texts(feed) == {feed[i] : i \in 1..Len(feed)}

Added == UNION {Texts(added[d]) : d \in Dir}

Init ==
  /\ uploadDir \in Dir
  /\ feedPath = uploadDir
  /\ TextFeed = <<>>
  /\ stored = [d \in Dir |-> None]
  /\ switching = None
  /\ added = [d \in Dir |-> <<>>]
  /\ damaged = {}

(* saveFeedLocked: a temporary file and a rename; errors are dropped *)
SaveFeedLocked(feed) ==
  \/ /\ stored' = [stored EXCEPT ![feedPath] = feed]
     /\ UNCHANGED damaged
  \/ /\ "fault" \in Hazard
     /\ damaged' = damaged \union {feedPath}
     /\ UNCHANGED stored

(* loadFeedFromDisk: an empty feed unless the file can be read *)
LoadFeed(d) ==
  /\ feedPath' = d
  /\ \/ TextFeed' = Loaded(stored'[d]) /\ UNCHANGED damaged
     \/ /\ "fault" \in Hazard
        /\ TextFeed' = <<>>
        /\ damaged' = damaged \union {d}

AddTextMessage(m) ==
  /\ TextFeed' = Clipped(<<m>> \o TextFeed)
  /\ SaveFeedLocked(TextFeed')
  /\ added' = [added EXCEPT ![feedPath] = <<m>> \o @]
  /\ UNCHANGED <<uploadDir, feedPath, switching>>

(* SetUploadDir, the section under runtimeMu *)
SwitchDir(d) ==
  /\ "switch" \in Hazard
  /\ switching = None
  /\ uploadDir' = d
  /\ switching' = d
  /\ UNCHANGED <<feedPath, TextFeed, stored, added, damaged>>

(* SetUploadDir, the section under mu *)
SwitchFeed ==
  /\ switching # None
  /\ switching' = None
  /\ UNCHANGED <<uploadDir, stored, added>>
  /\ LoadFeed(switching)

(* The server dies and starts again in any directory.  It may die inside   *)
(* AddTextMessage after the rename; m is then in the file only.            *)
Restart(d) ==
  /\ "crash" \in Hazard
  /\ \/ UNCHANGED <<stored, added>>
     \/ \E m \in Msg \ Added :
          /\ stored' = [stored EXCEPT ![feedPath] = Clipped(<<m>> \o TextFeed)]
          /\ added' = [added EXCEPT ![feedPath] = <<m>> \o @]
  /\ uploadDir' = d
  /\ switching' = None
  /\ LoadFeed(d)

Next ==
  \/ \E m \in Msg \ Added : AddTextMessage(m)
  \/ \E d \in Dir : SwitchDir(d) \/ Restart(d)
  \/ SwitchFeed

Spec == Init /\ [][Next]_feedVars

-------------------------------------------------------------------------------
FeedTypeOK ==
  /\ uploadDir \in Dir /\ feedPath \in Dir
  /\ TextFeed \in Seq(Msg) /\ Len(TextFeed) <= MaxFeedLen
  /\ stored \in [Dir -> Seq(Msg) \union {None}]
  /\ switching \in Dir \union {None}
  /\ added \in [Dir -> Seq(Msg)]
  /\ damaged \in SUBSET Dir

Newest(feed) == SubSeq(feed, 1, IF Len(feed) < MaxFeedLen THEN Len(feed) ELSE MaxFeedLen)

(* No text is lost while a directory's feed is saved and read without      *)
(* failure, whatever happens to the others: its file holds exactly the     *)
(* newest texts added there, and so does the feed in memory, across        *)
(* switches and crashes (AddTextMessage, SetUploadDir and                  *)
(* loadFeedFromDiskLocked, config.go:127-149, 227-277).                    *)
FeedDurable ==
  /\ feedPath \notin damaged => TextFeed = Newest(added[feedPath])
  /\ \A d \in Dir \ damaged : IF stored[d] = None THEN added[d] = <<>>
                                                   ELSE stored[d] = Newest(added[d])

OrderedPart(feed, all) ==
  \E place \in [1..Len(feed) -> 1..Len(all)] :
    /\ \A i \in 1..Len(feed) : feed[i] = all[place[i]]
    /\ \A i, j \in 1..Len(feed) : i < j => place[i] < place[j]

(* Whatever fails, a directory's feed holds only texts that were added to  *)
(* it, in the order they were added and none twice: a switch or a silent   *)
(* failure never carries one directory's texts into another's file         *)
(* (config.go:143-147, 250-277).                                           *)
FeedSeparate ==
  /\ OrderedPart(TextFeed, added[feedPath])
  /\ \A d \in Dir : stored[d] # None => OrderedPart(stored[d], added[d])

===============================================================================
