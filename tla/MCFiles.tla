------------------------------ MODULE MCFiles -------------------------------
(***************************************************************************)
(* An instance of Files.                                                   *)
(***************************************************************************)
EXTENDS Files, TLC

CONSTANTS
    Workers, other, again,   \* processes of a component; a third and a fourth
    main, extra,             \* the sources of the credential store
    account,                 \* an account
    setup, set, legacy, guarded, replace, editor    \* writers of the config

\* An account in one of two sources and processes that may die: the commands that
\* lock before they rotate a token; and all of them, beside edits by hand.
MCRotation ==
    [procs |-> Workers, commands |-> {"edit", "probe", "add", "link"}, accounts |-> {account},
     main |-> main, shards |-> <<extra>>, maxTok |-> 2, editable |-> {}, crashes |-> TRUE]
MCCrashing ==
    [procs |-> Workers, commands |-> {"edit", "probe", "add", "link", "refresh"},
     accounts |-> {account}, main |-> main, shards |-> <<extra>>, maxTok |-> 1,
     editable |-> {main}, crashes |-> TRUE]

MCCallers == Workers \cup {other}

\* Writers that take the lock; and two that compare, beside a text editor.
MCLocked ==
    [inits |-> {setup}, primary |-> {set}, legacy |-> {legacy}, guarded |-> {guarded},
     replacing |-> {}, externals |-> {}, schema |-> "none", maxInodes |-> 2]
MCOutside ==
    [inits |-> {setup}, primary |-> {set}, legacy |-> {}, guarded |-> {guarded},
     replacing |-> {replace}, externals |-> {editor}, schema |-> "none", maxInodes |-> 1]

\* Starts one after another, two of which die; and one that regenerates.
MCAuthority ==
    [loaders |-> Workers \cup {other, again}, regenerate |-> {}, overlap |-> FALSE,
     maxDeaths |-> 2]
MCRenewal ==
    [loaders |-> Workers \cup {other}, regenerate |-> {again}, overlap |-> FALSE,
     maxDeaths |-> 0]

\* The processes of a component are interchangeable, and so are the providers.
Symmetry == Permutations(Workers) \cup Permutations(Providers)

=============================================================================
