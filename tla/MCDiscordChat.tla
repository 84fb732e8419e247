--------------------------- MODULE MCDiscordChat ---------------------------
(* Small instances of DiscordChat: one set of modules serves the commands,  *)
(* others hold one further module each with everything it needs.            *)
EXTENDS DiscordChat

Chat == UNION {Closure(m) : m \in {"discord_output", "discord_chat", "social_input", "openai"}}
Others == {Closure(m) \union Closure("oauth") : m \in DOMAIN Needs \ {"social_input"}}
MCInstallations == {Chat} \union Others
MCTexts == {<<"x", "\n", "y", " ", "y">>}
MCSymmetry == Permutations(Commands)
=============================================================================
