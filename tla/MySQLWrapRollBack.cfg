SPECIFICATION MySQLSpec
CONSTANTS
    Statements <- MCStatements
    MaxCommands = 4
INVARIANT
    RolledBackStaysOut
