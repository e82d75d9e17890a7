SPECIFICATION Spec
CONSTANTS
  None = None
  Parts = {"queue", "database", "rollout", "backups", "edges", "main switch", "agent link"}
CHECK_DEADLOCK FALSE
PROPERTIES
  SettlesInTheEnd WhatBeginsEnds FindsTheActivePanel NothingIsLostOnTheWay
