----------------------------- MODULE RegionTags -----------------------------
(***************************************************************************)
(* packages/snippet-bot, region-tag-parser.ts and violations.ts: what a    *)
(* pull request does to the region tags of a file.  The file is given by   *)
(* its lines with tags, each with the mark the diff gives it; the lines    *)
(* without tags are left out.                                              *)
(***************************************************************************)
EXTENDS Naturals, Sequences

CONSTANTS
  Tag,          \* region tags
  Prefixed,     \* those that begin with the prefix of a product
  WellFormed,   \* those made of word characters
  UsedOnSite    \* those of the base file that a page shows, which is not pinned to a commit

TagLine == [mark : {"same", "add", "del"}, kind : {"start", "end"}, tag : Tag]

\* The places of the lines of the file at the head and on the base, and those of a mark.
HeadLines(c) == {i \in DOMAIN c.lines : c.lines[i].mark # "del"}
BaseLines(c) == {i \in DOMAIN c.lines : c.lines[i].mark # "add"}
Marked(c, mark) == {i \in DOMAIN c.lines : c.lines[i].mark = mark}
Starts(c, places) == {c.lines[i].tag : i \in {j \in places : c.lines[j].kind = "start"}}

\* A renamed file is not compared: all tags of the old one are deleted, all of the new added.
AddedTags(c)   == Starts(c, IF c.status = "renamed" THEN HeadLines(c) ELSE Marked(c, "add"))
DeletedTags(c) == Starts(c, IF c.status = "renamed" THEN BaseLines(c) ELSE Marked(c, "del"))
\* The file is scanned when the diff touches a tag of it, be it an end tag.
IsScanned(c) ==
  CASE c.status = "renamed"  -> HeadLines(c) # {}
    [] c.status = "modified" -> DOMAIN c.lines # Marked(c, "same")
    [] c.status = "deleted"  -> FALSE

\* parseRegionTags(): the tags that are open, and whether all was well so far.
ParseTagLine(s, l) ==
  IF l.kind = "start"
  THEN [open |-> s.open \cup {l.tag}, ok |-> s.ok /\ l.tag \notin s.open]
  ELSE [open |-> s.open \ {l.tag}, ok |-> s.ok /\ l.tag \in s.open]
ParseRegionTags(c) ==
  LET s[i \in 0 .. Len(c.lines)] ==
        IF i = 0 THEN [open |-> {}, ok |-> TRUE]
        ELSE IF i \in HeadLines(c) THEN ParseTagLine(s[i - 1], c.lines[i]) ELSE s[i - 1]
      end == s[Len(c.lines)]
  IN end.ok /\ end.open = {}

PrefixViolations(c) == AddedTags(c) \ Prefixed
FormatViolations(c) == AddedTags(c) \ WellFormed
\* A tag deleted in a place is still there when the scanned file of the same name has it.
RemovalViolations(c, startTags) ==
  (DeletedTags(c) \cap UsedOnSite) \ (IF c.status = "modified" THEN startTags ELSE {})

----------------------------------------------------------------------------
(* What the parser is for: region tags match when the next line of the tag after a start  *)
(* is an end, and the last one before an end a start.                                     *)
TagsMatch(c) ==
  \A i \in HeadLines(c) :
    LET own == {j \in HeadLines(c) : c.lines[j].tag = c.lines[i].tag}
    IN IF c.lines[i].kind = "start"
       THEN \E j \in own : i < j /\ c.lines[j].kind = "end" /\ \A k \in own : k <= i \/ j <= k
       ELSE \E j \in own : j < i /\ c.lines[j].kind = "start" /\ \A k \in own : k <= j \/ i <= k
=============================================================================
