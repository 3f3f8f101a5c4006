---------------------------- MODULE MCMigrations ----------------------------
(* A small instance of Migrations for TLC. *)
EXTENDS Migrations

\* Three files as they were, one of them edited after the fact, a broken one,
\* and an older release.
MCReleases ==
    {<<"one">>, <<"one", "two", "three">>, <<"one", "edited", "three">>,
     <<"one", "broken", "three">>}
=============================================================================
