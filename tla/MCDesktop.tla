------------------------------ MODULE MCDesktop ------------------------------
(* Two primary accounts and a delegated one, two passwords, two connects.      *)
EXTENDS DesktopSession

CONSTANTS ann, bob, dev, c1, c2

R(p, w, s) == [pwd |-> p, wrap |-> w, saved |-> s]
Empty == R("", "none", "none")
\* One account that uses the keychain; two of an older shell, the second
\* without a copy of its key; a device that was linked.
Rows ==
        { [x \in {ann, bob, dev} |-> IF x = ann THEN R("p", "current", "p") ELSE Empty],
          [x \in {ann, bob, dev} |-> CASE x = ann -> R("p", "legacy", "legacy")
                                  [] x = bob -> R("q", "none", "none") [] OTHER -> Empty],
          [x \in {ann, bob, dev} |-> IF x = dev THEN R("q", "current", "q") ELSE Empty] }

Allow(o, t, n, f, k) == [op |-> o, auto |-> t, deny |-> n, fail |-> f, crash |-> k]
Scenes == {Allow(3, 1, 0, 0, 0), Allow(2, 0, 1, 1, 1), Allow(2, 1, 0, 1, 0)}
Words == {"p", "q"}
=============================================================================
