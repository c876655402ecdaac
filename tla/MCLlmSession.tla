---------------------------- MODULE MCLlmSession ----------------------------
EXTENDS LlmSession

\* Two messages in each channel: an append and a pause, or a token and an end,
\* can be on their way together and be taken one by one.
MCMaxBacklog == 2
=============================================================================
