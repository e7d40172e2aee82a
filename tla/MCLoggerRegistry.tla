-------------------------- MODULE MCLoggerRegistry --------------------------
EXTENDS LoggerRegistry

CONSTANTS arena, mask

MCAllLoggers == <<arena, mask>>
============================================================================
