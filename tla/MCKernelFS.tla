------------------------------ MODULE MCKernelFS ------------------------------
EXTENDS KernelFS, TLC

\* "anchor" is in entry 0 of the directory, the one entry that can be cleared.
AnchorOnly == 0 :> "anchor"

\* "k" and "r1" read "anchor" and "d" deletes it; "p1" writes a file of its own.
MCUses == {<<"k", "anchor", "r">>, <<"r1", "anchor", "r">>, <<"d", "anchor", "delete">>}
             \cup {<<"p1", "f1", "w">>, <<"p1", "f1", "a">>}

\* "r1" joins "k", which closes last; "d" deletes while no file is open, and nobody
\* opens one meanwhile.  Each calls once, "p1" twice.
MCCalls(t, s) ==
    /\ t # "p1" => s[t].opens = 0
    /\ t = "r1" => s["k"].at = "open"
    /\ IF t = "d"
       THEN s["k"].at = "idle" /\ s["r1"].at = "idle" /\ s["p1"].at = "idle"
       ELSE s["d"].at = "idle"
MCCloses(t, s) == t = "k" => s["r1"].at = "idle"

\* No file is opened or deleted between the end of prepareUnmount and the end of the
\* block, and nobody is inside openFile or deleteFile when format or unmount is called.
MCOpens(at)     == \A u \in DOMAIN at : at[u] # "prepared"
MCShuts(s, adm) == adm = {} /\ \A t \in DOMAIN s : s[t].at \in {"idle", "open"}
=============================================================================
