------------------------------ MODULE ImageProxy ------------------------------
(***************************************************************************)
(* The image proxy (services/image_proxy.rs): an image of the image bed is *)
(* served from a cache of files, or else downloaded with the bot and put   *)
(* there.  A mark in the process keeps a second caller from downloading    *)
(* what is on its way: it waits until a file is there.                     *)
(*                                                                         *)
(* The mark is looked for and set in two steps; the file is written in     *)
(* place while others read it, by a thread that goes on when its request   *)
(* is dropped; and a dropped request does not take its mark away.          *)
(***************************************************************************)
EXTENDS Naturals, FiniteSets

CONSTANTS
  Images,       \* file ids
  Viewers,      \* requests that may be open at a time
  Nobody,
  MaxLooks,     \* polls of a waiting caller: 60
  MaxViews, MaxMishaps, MaxAgeings, MaxStops   \* bounds

ASSUME ProxyAssumption ==
  /\ Nobody \notin Viewers \cup Images /\ MaxLooks \in Nat \ {0}
  /\ {MaxViews, MaxMishaps, MaxAgeings, MaxStops} \subseteq Nat

VARIABLES
  content,    \* what the file of an image holds
  expired,    \* the images whose file is older than the TTL
  writer,     \* who truncated the file last
  pen,        \* the image each viewer's thread is writing
  inflight,   \* inflight_downloads
  view,       \* the requests
  views, mishaps, ageings, stops,
  broken,     \* images the last writer of which did not come to the end
  forsaken,   \* images whose caller hung up while it downloaded them
  doubled     \* images two callers downloaded at a time

files  == <<content, expired, writer, pen, broken>>
limits == <<views, mishaps, ageings, stops>>
proxyVars == <<files, inflight, view, limits, forsaken, doubled>>

NoView == [at |-> "idle", image |-> Nobody, looks |-> 0, got |-> "none"]

ProxyTypeOK ==
  /\ content \in [Images -> {"none", "part", "whole"}]
  /\ expired \cup inflight \cup broken \cup forsaken \cup doubled \subseteq Images
  /\ writer \in [Images -> Viewers \cup {Nobody}]
  /\ pen \in [Viewers -> Images \cup {Nobody}]
  /\ \A v \in Viewers : /\ view[v].at \in {"idle", "look", "mark", "claim", "wait", "read", "fetch",
                                            "write", "release", "done"}
                        /\ view[v].looks \in 0..MaxLooks

ProxyInit ==
  /\ content = [i \in Images |-> "none"]
  /\ writer = [i \in Images |-> Nobody]
  /\ pen = [v \in Viewers |-> Nobody]
  /\ view = [v \in Viewers |-> NoView]
  /\ expired = {} /\ inflight = {} /\ broken = {} /\ forsaken = {} /\ doubled = {}
  /\ views = 0 /\ mishaps = 0 /\ ageings = 0 /\ stops = 0

Steps(v, at) == view' = [view EXCEPT ![v].at = at]
Mishap == mishaps < MaxMishaps /\ mishaps' = mishaps + 1

\* The answer: an image, or an error.
Answer(v, got) == view' = [view EXCEPT ![v].at = "done", ![v].got = got]

Downloads(i) == {v \in Viewers : view[v].image = i /\ view[v].at \in {"fetch", "write", "release"}}

-----------------------------------------------------------------------------
(* serve_image_by_file_id                                                  *)

AskImage(v) ==
  /\ view[v].at \in {"idle", "done"} /\ pen[v] = Nobody
  /\ views < MaxViews /\ views' = views + 1
  /\ \E i \in Images : view' = [view EXCEPT ![v] = [NoView EXCEPT !.at = "look", !.image = i]]
  /\ UNCHANGED <<files, inflight, mishaps, ageings, stops, forsaken, doubled>>

\* The file is there and not too old (is_cache_valid), ...
Look(v) ==
  /\ view[v].at = "look"
  /\ LET i == view[v].image
     IN Steps(v, IF content[i] # "none" /\ i \notin expired THEN "read" ELSE "mark")
  /\ UNCHANGED <<files, inflight, limits, forsaken, doubled>>

\* ... or someone downloads it, ...
LookForMark(v) ==
  /\ view[v].at = "mark"
  /\ Steps(v, IF view[v].image \in inflight THEN "wait" ELSE "claim")
  /\ UNCHANGED <<files, inflight, limits, forsaken, doubled>>

\* ... or the caller does.
Claim(v) ==
  /\ view[v].at = "claim"
  /\ LET i == view[v].image
     IN /\ inflight' = inflight \cup {i}
        /\ doubled' = IF Downloads(i) # {} THEN doubled \cup {i} ELSE doubled
  /\ Steps(v, "fetch")
  /\ UNCHANGED <<files, limits, forsaken>>

\* Every half second: any file will do, an old one, too.
Wait(v) ==
  /\ view[v].at = "wait"
  /\ LET i == view[v].image
     IN CASE content[i] # "none" -> Steps(v, "read")
          [] content[i] = "none" /\ view[v].looks + 1 < MaxLooks ->
               view' = [view EXCEPT ![v].looks = @ + 1]
          [] OTHER -> Answer(v, "timeout")
  /\ UNCHANGED <<files, inflight, limits, forsaken, doubled>>

\* What the file holds by now.
Read(v) ==
  /\ view[v].at = "read"
  /\ Answer(v, content[view[v].image])
  /\ UNCHANGED <<files, inflight, limits, forsaken, doubled>>

-----------------------------------------------------------------------------
(* download_via_bot_api                                                    *)

\* No bot is configured, or getFile or the download fails (get_file).
FetchFails(v) ==
  /\ view[v].at = "fetch" /\ Mishap
  /\ view' = [view EXCEPT ![v].at = "release", ![v].got = "error"]
  /\ UNCHANGED <<files, inflight, views, ageings, stops, forsaken, doubled>>

\* The bytes are there: the file is opened, and with that empty.
OpenFile(v) ==
  /\ view[v].at = "fetch"
  /\ LET i == view[v].image
     IN /\ content' = [content EXCEPT ![i] = "part"]
        /\ expired' = expired \ {i}
        /\ writer' = [writer EXCEPT ![i] = v]
        /\ pen' = [pen EXCEPT ![v] = i]
        /\ broken' = broken \ {i}
  /\ view' = [view EXCEPT ![v].at = "write", ![v].got = "whole"]
  /\ UNCHANGED <<inflight, limits, forsaken, doubled>>

\* The thread has written all of it, whether or not its request is still there.
Written(v) ==
  /\ pen[v] # Nobody
  /\ LET i == pen[v]
     IN content' = [content EXCEPT ![i] = IF writer[i] = v THEN "whole" ELSE @]
  /\ pen' = [pen EXCEPT ![v] = Nobody]
  /\ IF view[v].at = "write" THEN Steps(v, "release") ELSE UNCHANGED view
  /\ UNCHANGED <<expired, writer, broken, inflight, limits, forsaken, doubled>>

\* Or it has not; the error is only logged, and the caller served.
WriteFails(v) ==
  /\ pen[v] # Nobody /\ Mishap
  /\ broken' = IF writer[pen[v]] = v THEN broken \cup {pen[v]} ELSE broken
  /\ pen' = [pen EXCEPT ![v] = Nobody]
  /\ IF view[v].at = "write" THEN Steps(v, "release") ELSE UNCHANGED view
  /\ UNCHANGED <<content, expired, writer, inflight, views, ageings, stops, forsaken, doubled>>

\* Mutant: the mark of a download that fails stays.
ReleaseIfGot(v) ==
  /\ view[v].at = "release"
  /\ inflight' = IF view[v].got = "error" THEN inflight ELSE inflight \ {view[v].image}
  /\ Steps(v, "done")
  /\ UNCHANGED <<files, limits, forsaken, doubled>>

\* The mark goes, whoever set it.
Release(v) ==
  /\ view[v].at = "release"
  /\ inflight' = inflight \ {view[v].image}
  /\ Steps(v, "done")
  /\ UNCHANGED <<files, limits, forsaken, doubled>>

-----------------------------------------------------------------------------
\* The client is gone: the request is dropped where it waits for something.
LeaveViewer(v) ==
  /\ view[v].at \in {"wait", "read", "fetch", "write"} /\ Mishap
  /\ forsaken' = IF view[v].at \in {"fetch", "write"} THEN forsaken \cup {view[v].image}
                                                     ELSE forsaken
  /\ view' = [view EXCEPT ![v] = NoView]
  /\ UNCHANGED <<files, inflight, views, ageings, stops, doubled>>

\* The TTL of a file passes.
Age(i) ==
  /\ content[i] # "none" /\ ageings < MaxAgeings /\ ageings' = ageings + 1
  /\ expired' = expired \cup {i}
  /\ UNCHANGED <<content, writer, pen, broken, inflight, view, views, mishaps, stops, forsaken,
                 doubled>>

\* The process ends and starts again.
StopProxy ==
  /\ stops < MaxStops /\ stops' = stops + 1
  /\ broken' = broken \cup {i \in Images : writer[i] # Nobody /\ pen[writer[i]] = i}
  /\ pen' = [v \in Viewers |-> Nobody]
  /\ view' = [v \in Viewers |-> NoView]
  /\ inflight' = {} /\ forsaken' = {} /\ doubled' = {}
  /\ UNCHANGED <<content, expired, writer, views, mishaps, ageings>>

ProxyNext ==
  \/ StopProxy
  \/ \E i \in Images : Age(i)
  \/ \E v \in Viewers :
       \/ AskImage(v) \/ Look(v) \/ LookForMark(v) \/ Claim(v) \/ Wait(v) \/ Read(v)
       \/ FetchFails(v) \/ OpenFile(v) \/ Written(v) \/ WriteFails(v) \/ Release(v) \/ LeaveViewer(v)

ProxySpec == ProxyInit /\ [][ProxyNext]_proxyVars

-----------------------------------------------------------------------------
(* Properties *)

\* A file that is not whole is being written, or its last writer failed or was
\* cut off; and until the next download it is served as it is.  A mark has a
\* download behind it, unless a caller hung up; a download has its mark, unless
\* there were two of one image (serve_image_by_file_id, download_via_bot_api).
ImagesAccounted ==
  \A i \in Images :
    /\ content[i] = "part" => i \in broken \/ pen[writer[i]] = i
    /\ i \in inflight => Downloads(i) # {} \/ i \in forsaken
    /\ Downloads(i) # {} => i \in inflight \cup doubled

=============================================================================
