----------------------------- MODULE MCLinkDriver -----------------------------
EXTENDS LinkDriver

\* Two files, in sorted order: an example at depth 2 and an integration
\* page at depth 3, the only kind of file rule 16 rewrites.
Example2 == "examples/voice/demo.md"
Integ3   == "integrations/providers/openai/setup.md"

MCFileOrder == <<Example2, Integ3>>

MCFileInfo ==
  [f \in {Example2, Integ3} |->
     IF f = Integ3 THEN [depth |-> 3, integ |-> TRUE, examples |-> FALSE]
     ELSE [depth |-> 2, integ |-> FALSE, examples |-> TRUE]]

\* api-docs links at two and three levels up (server.md is rule 15's,
\* messaging.md one rule 11 removes), an /api/packages/ link rule 1
\* renames, a /pkg/ link rule 3 turns into a GitHub URL, and the
\* use-case link rule 30 rewrites in examples.
Server2    == Link("rel", 2, "api-docs/packages", "server.md")
Server3    == Link("rel", 3, "api-docs/packages", "server.md")
Core2      == Link("rel", 2, "api-docs/packages", "core.md")
Core3      == Link("rel", 3, "api-docs/packages", "core.md")
Messaging3 == Link("rel", 3, "api-docs/packages", "messaging.md")
OldApi2    == Link("rel", 2, "api/packages", "core.md")
RootPkg    == Link("root", 0, "pkg", "agent")
VoiceUse   == Link("rel", 2, "use-cases", "voice-sessions.md")

MCLinkSet == {Server2, Server3, Core2, Core3, Messaging3, OldApi2, RootPkg, VoiceUse}

\* The depth-3 page alone, for the runs about rules 15 and 16.
MCFileOrderInteg == <<Integ3>>

MCLinkSetApi == {Server2, Server3, Core2, Core3}
====
