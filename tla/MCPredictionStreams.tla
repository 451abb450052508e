-------------------------- MODULE MCPredictionStreams --------------------------
(***************************************************************************)
(* Two requests and one panel.  The configurations pair the kinds of       *)
(* requests that share a chat, a channel, a controller or an observer.     *)
(***************************************************************************)
EXTENDS PredictionStreams, TLC

CONSTANTS r1, r2, l1, c1, c2, near, far

Case(mode, k1, k2, chat2, home2, panels, seat, faults, clicks) ==
    [mode |-> mode, kind |-> (r1 :> k1 @@ r2 :> k2), chat |-> (r1 :> c1 @@ r2 :> chat2),
     home |-> (r1 :> near @@ r2 :> home2), panels |-> panels, seat |-> (l1 :> seat),
     faults |-> faults, clicks |-> clicks]

SetupsVal ==
    { Case("main", "stream", "stream", c1, near, {}, near, 1, 0),
      Case("main", "stream", "json", c1, near, {}, near, 1, 1),
      Case("main", "hookStream", "fallback", c1, near, {l1}, near, 0, 0),
      Case("main", "hookStream", "none", c1, near, {l1}, near, 1, 1),
      Case("main", "hookSync", "json", c1, near, {l1}, near, 0, 0),
      Case("main", "hookAsync", "stream", c2, near, {l1}, near, 0, 0),
      Case("queue", "stream", "stream", c1, near, {}, near, 0, 0),
      Case("queue", "stream", "none", c1, near, {}, near, 1, 1),
      Case("queue", "stream", "json", c1, far, {}, near, 0, 0),
      Case("queue", "hookSync", "none", c1, near, {l1}, near, 1, 0),
      Case("queue", "hookStream", "none", c1, near, {l1}, far, 1, 0),
      Case("queue", "hookCallback", "none", c1, near, {l1}, near, 0, 0) }
==============================================================================
