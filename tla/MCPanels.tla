------------------------------ MODULE MCPanels ------------------------------
(***************************************************************************)
(* The panels and jobs that work on their own part of the server, one at a *)
(* time: panel names the one that a behaviour is about, and the others     *)
(* stay as they began.                                                     *)
(***************************************************************************)
EXTENDS ShareDialog, StorageDialog, ApiKeys, UpdateCheck, AdminPage, Archive, Imports, Backups, TLC

CONSTANTS
  p1, t1, t2, f1, f2, l1, l2, k1, k2, s1, s2, c1, c2, q1, q2,
  a1, a2, x1, x2, w1, w2, v1, v2, v3, u1, u2, d1, b1, e1, e2, g1, g2, n1, n2

VARIABLE panel

\* 1.0.0 runs, and 2.0.0 comes out.
MCRunning == [core |-> 1, pre |-> <<>>]
MCVersion == {MCRunning, [core |-> 2, pre |-> <<>>]}

\* Files of no, one and two drawings, and a zip of a drawing, an empty export and one of two drawings.
Plain(members)  == [zip |-> FALSE, members |-> members]
Entry(ok, name) == [ok |-> ok, name |-> name]
MCShapes ==
  {Plain(<<>>), Plain(<<<<Entry(TRUE, Unfiled)>>>>), Plain(<<<<Entry(FALSE, Unfiled)>>>>),
   Plain(<<<<Entry(TRUE, n1), Entry(TRUE, n1)>>>>), Plain(<<<<Entry(FALSE, n1), Entry(TRUE, n2)>>>>),
   [zip |-> TRUE, members |-> <<<<Entry(TRUE, n1)>>, <<>>, <<Entry(FALSE, Unfiled), Entry(TRUE, n1)>>>>]}

\* "0-30/2,51/5 * 4 * * 7" at 04:00:00 and after, on the first of January, a Sunday.
Token(span, from, to, step) == [span |-> span, from |-> from, to |-> to, step |-> step]
MCSchedule ==
  <<<<Token("range", 0, 30, 2), Token("value", 51, 0, 5)>>, <<Token("all", 0, 0, 1)>>, <<Token("value", 4, 0, 1)>>,
    <<Token("all", 0, 0, 1)>>, <<Token("all", 0, 0, 1)>>, <<Token("value", 7, 0, 1)>>>>
MCCalendar == [t \in 0 .. MaxClock |-> <<t, 0, 4, 1, 1, 0>>]

\* One permutation for whichever panel it is: calls, files, keys and scopes are alike.
Swapped ==
  {<<t1, t2>>, <<f1, f2>>, <<l1, l2>>, <<k1, k2>>, <<s1, s2>>, <<c1, c2>>, <<q1, q2>>,
   <<a1, a2>>, <<x1, x2>>, <<w1, w2>>, <<v1, v2>>, <<e1, e2>>, <<g1, g2>>}
MCSymmetry ==
  {[a \in UNION {{p[1], p[2]} : p \in Swapped} |->
      CHOOSE b \in UNION {{p[1], p[2]} : p \in Swapped} : <<a, b>> \in Swapped \/ <<b, a>> \in Swapped]}

\* Only the panel that the behaviour is about begins in more than one way.
MCInit ==
  /\ panel \in {"sharing", "storage", "keys", "updates", "users", "switches", "limits", "archive", "imports", "backups"}
  /\ ShareInit /\ (panel # "sharing" => dialog.what = "drawing" /\ \A p \in Person : granted[p] = "none")
  /\ StorageInit /\ (panel # "storage" => \A f \in File : stored[f] = "shown")
  /\ KeysInit /\ (panel # "keys" => ~ account.mustReset)
  /\ UpdateInit /\ (panel # "updates" => outbound)
  /\ AdminInit
  /\ panel # "users" => \A a \in Account : users[a] = <<>>
  /\ panel # "switches" => \A s \in Switch : flags.stored[s]
  /\ panel # "limits" => limit.stored = v3 /\ limit.shown = v3
  /\ ArchiveInit
  /\ panel # "archive" =>
       (\A f \in OldFolder : keeper[f] = Exporter) /\ (\A i \in Drawing : scene[i] = e1 /\ place[i] = NoFolder)
  /\ ImportsInit /\ (panel # "imports" => way = "chosen" /\ \A f \in Upload : shape[f] = Plain(<<>>))
  /\ BackupsInit

\* Long behaviours are those of one channel in which no check fails.
ShortTime == 2
ShortClicks == 3
Bounded ==
  now' > ShortTime \/ clicks' > ShortClicks =>
    /\ troubles' = 0 /\ browser'.channel = "stable" /\ browser'.info["prerelease"] = None
    /\ \A q \in Check : check'[q] # Idle => check'[q].channel = "stable"

Unless(chosen, vars) == IF chosen THEN TRUE ELSE UNCHANGED vars

MCNext ==
  /\ UNCHANGED panel
  /\ \/ panel = "sharing"  /\ ShareNext
     \/ panel = "storage"  /\ StorageNext
     \/ panel = "keys"     /\ KeysNext
     \/ panel = "updates"  /\ UpdateNext /\ Bounded
     \/ panel = "users"    /\ UsersNext
     \/ panel = "switches" /\ SwitchNext
     \/ panel = "limits"   /\ LimitNext
     \/ panel = "archive"  /\ ArchiveNext
     \/ panel = "imports"  /\ ImportsNext
     \/ panel = "backups"  /\ BackupsNext
  /\ Unless(panel = "sharing", sharingDialog)
  /\ Unless(panel = "storage", storageDialog)
  /\ Unless(panel = "keys", apiKeys)
  /\ Unless(panel = "updates", updates)
  /\ Unless(panel \in {"users", "switches", "limits"}, adminPage)
  /\ Unless(panel = "archive", archive)
  /\ Unless(panel = "imports", imports)
  /\ Unless(panel = "backups", backups)

MCSpec == MCInit /\ [][MCNext]_<<panel, sharingDialog, storageDialog, apiKeys, updates, adminPage, archive, imports, backups>>
=============================================================================
