----------------------------- MODULE MC_Servers -----------------------------
(* Configurations for the runs of Servers. *)
EXTENDS Servers

Entry(i, u, s, r) == [interval |-> i, uptest |-> u, scheme |-> s, rootserver |-> r]

Pinged  == Entry("regular", "address", FALSE, FALSE)
Once    == Entry("never", "ping", FALSE, FALSE)
Onquery == Entry("onquery", "command", FALSE, FALSE)
Untried == Entry("ontimeout", "none", FALSE, FALSE)

RootPinged  == Entry("regular", "address", TRUE, TRUE)
RootOnquery == Entry("onquery", "ping", FALSE, TRUE)
RootCommand == Entry("never", "command", FALSE, TRUE)
RootTimeout == Entry("ontimeout", "ping", FALSE, TRUE)

MCConfigs == {<<Pinged, Once>>, <<Onquery, RootPinged>>, <<RootOnquery, Once>>, <<RootCommand, Untried>>,
              <<RootTimeout, Once>>}
=============================================================================
