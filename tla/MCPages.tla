------------------------------ MODULE MCPages ------------------------------
(* Small instances of Pages. *)
EXTENDS Pages

CONSTANTS t1, t2, h1, h2, h3, g1

MCTasks == {t1, t2}
MCPageTasks == {t1}
MCHdls == {h1, h2}
MCHdls3 == {h1, h2, h3}
MCBrowsers == {g1}

\* All connections are the page's, or all are other clients'.
AllOrNone == {{}, MCHdls}
NoOthers == {{}}
=============================================================================
